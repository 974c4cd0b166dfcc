---------------------------- MODULE ShellProofs ----------------------------
(***************************************************************************)
(* Proofs about Shell, for every set of lines of whatever length, every    *)
(* size of the buffer and every content it may have at boot, and every     *)
(* width of the arguments.                                                 *)
(***************************************************************************)
EXTENDS Shell, FiniteSetTheorems, WellFoundedInduction, TLAPS

-----------------------------------------------------------------------------
(* Types.                                                                  *)

\* The shell reads on only after a line that fits.
ShellTypes == /\ TypeOK
              /\ line \in Lines \union {Short} /\ prev \in Lines \union {Short}
              /\ Fits(prev) /\ (Fits(line) \/ pc = "lost")

\* Every line that was or may be typed.
LEMMA LineFacts ==
    ASSUME NEW l \in Lines \union {Short}
    PROVE  /\ l.cmd \in {"init", "other", "short"}
           /\ l.tail \in Seq(Cells) /\ Len(l.tail) \in Nat
           /\ \A i \in 1 .. Len(l.tail) : l.tail[i] \in Cells \ {NUL}
<1>1. CASE l = Short
  BY <1>1 DEF Short
<1>2. CASE l \in Lines
  BY <1>2, LineAssumption
<1> QED
  BY <1>1, <1>2

LEMMA CellFacts == /\ Cells \subseteq Int /\ Sep \in Cells /\ NUL \in Cells /\ Sep # NUL
                   /\ \A c \in Cells : Worth(c) \in Nat
<1>1. /\ Cells \subseteq Int /\ Sep \in Cells /\ NUL \in Cells /\ Sep # NUL
  BY DEF Cells, Digit, Sep, NUL, Letter
<1>2. ASSUME NEW c \in Cells PROVE Worth(c) \in Nat
  <2>1. WRAP \in Nat /\ WRAP > 48
    BY WrapAssumption
  <2>2. CASE c \in Digit
    BY <2>2 DEF Worth, Digit, Sep, NUL, Letter
  <2>3. CASE c = Sep
    BY <2>1, <2>3 DEF Worth, Digit, Sep, NUL, Letter
  <2>4. CASE c = Letter
    BY <2>4 DEF Worth, Digit, Sep, NUL, Letter
  <2>5. CASE c = NUL
    BY <2>1, <2>5 DEF Worth, Digit, Sep, NUL, Letter
  <2> QED
    BY <2>2, <2>3, <2>4, <2>5 DEF Cells
<1> QED
  BY <1>1, <1>2
LEMMA ModRange == ASSUME NEW x \in Nat PROVE x % WRAP \in 0 .. WRAP - 1
<1>1. WRAP \in Nat /\ WRAP > 0
  BY WrapAssumption
<1> QED
  BY <1>1

\* A nonempty set of naturals has a least element.
LEMMA LeastNat == ASSUME NEW S, S \subseteq Nat, S # {}
                  PROVE  \E m \in S : \A k \in S : m <= k
<1>1. IsWellFoundedOn(OpToRel(<, Nat), Nat)
  BY NatLessThanWellFounded
<1>2. PICK m \in S : \A k \in S : ~(<<k, m>> \in OpToRel(<, Nat))
  BY <1>1, WFMin
<1>3. \A k \in S : ~(k < m)
  BY <1>2 DEF OpToRel
<1> QED
  BY <1>3

\* The inner loop of parse_init() stops at the first cell that is no
\* separator, or behind the buffer.
LEMMA SkipFacts ==
    ASSUME ShellTypes, NEW i \in 0 .. Room - 1
    PROVE  /\ skip(i) \in i .. Room /\ (skip(i) = Room \/ buf[skip(i)] # Sep)
           /\ \A k \in i .. skip(i) - 1 : buf[k] = Sep
<1>1. Room \in Nat
  BY RoomAssumption
<1>2. PICK S : S = {j \in i .. Room : j = Room \/ buf[j] # Sep}
  OBVIOUS
<1>3. S \subseteq Nat /\ S # {}
  BY <1>1, <1>2
<1>4. PICK m \in S : \A k \in S : m <= k
  BY <1>3, LeastNat
<1>5. /\ m \in i .. Room /\ (m = Room \/ buf[m] # Sep)
      /\ \A k \in i .. m - 1 : buf[k] = Sep
  BY <1>1, <1>2, <1>4
<1>6. skip(i) = CHOOSE j \in i .. Room : /\ j = Room \/ buf[j] \notin {Sep}
                                        /\ \A k \in i .. j - 1 : buf[k] \in {Sep}
  BY DEF skip, SkipOver
<1> QED
  BY <1>5, <1>6

Fields == {init_args[i] : i \in 1 .. 5}

LEMMA FieldFacts == \A i, j \in 1 .. 5 : /\ init_args[i] \in Fields
                                         /\ init_args[i] = init_args[j] => i = j
BY DEF Fields, init_args

LEMMA InitTypes == Init => ShellTypes
<1> SUFFICES ASSUME Init PROVE ShellTypes
  OBVIOUS
<1>1. Room \in Nat /\ Room >= 2 /\ WRAP \in Nat /\ WRAP > 48
  BY RoomAssumption, WrapAssumption
<1>2. buf \in [0 .. Room - 1 -> Cells]
  BY RoomAssumption DEF Init
<1>3. args \in [Fields -> 0 .. WRAP - 1] /\ regs \in [Fields -> 0 .. WRAP - 1]
  BY <1>1 DEF Init, Fields
<1>4. Fits(Short)
  BY <1>1 DEF Fits, Short
<1> QED
  BY <1>1, <1>2, <1>3, <1>4 DEF Init, ShellTypes, TypeOK, Fields

LEMMA ReadFacts ==
    ASSUME ShellTypes, NEW l \in Lines, invoke_dsh(l)
    PROVE  /\ buf' \in [0 .. Room - 1 -> Cells]
           /\ \A i \in 0 .. Room - 1 :
                 buf'[i] = IF l.cmd = "short" THEN buf[i]
                           ELSE IF i < Len(l.tail) THEN l.tail[i + 1]
                           ELSE IF i = Len(l.tail) THEN NUL ELSE buf[i]
<1>1. Room \in Nat
  BY RoomAssumption
<1>2. buf \in [0 .. Room - 1 -> Cells]
  BY DEF ShellTypes, TypeOK
<1>3. PICK n : n = Len(l.tail)
  OBVIOUS
<1>4. n \in Nat /\ \A i \in 1 .. n : l.tail[i] \in Cells
  BY <1>3, LineFacts
<1>5. buf' = IF l.cmd = "short" THEN buf
             ELSE [i \in 0 .. Room - 1 |-> IF i < n THEN l.tail[i + 1]
                                           ELSE IF i = n THEN NUL ELSE buf[i]]
  BY <1>2, <1>3 DEF invoke_dsh, serial_read
<1>6. \A i \in 0 .. Room - 1 :
          buf'[i] = IF l.cmd = "short" THEN buf[i]
                    ELSE IF i < n THEN l.tail[i + 1]
                    ELSE IF i = n THEN NUL ELSE buf[i]
  BY <1>5
<1>7. \A i \in 0 .. Room - 1 : buf'[i] \in Cells
  BY <1>1, <1>2, <1>4, <1>6, CellFacts
<1>8. DOMAIN buf' = 0 .. Room - 1 /\ buf' = [i \in 0 .. Room - 1 |-> buf'[i]]
  BY <1>2, <1>5
<1> QED
  BY <1>3, <1>6, <1>7, <1>8

\* What one turn of the loop of parse_init() does.
LEMMA ParseFacts ==
    ASSUME ShellTypes, parse_char
    PROVE  \E at \in ctr .. Room - 1 :
              /\ ctr \in 0 .. Room - 1 /\ Worth(buf[at]) \in Nat
              /\ buf[ctr] # Sep => /\ at = ctr /\ args' = args /\ num' = num
                                   /\ value' = (value * 10 + Worth(buf[at])) % WRAP
              /\ buf[ctr] = Sep => /\ at = skip(ctr) /\ num <= 5 /\ num' = num + 1
                                   /\ args' = [args EXCEPT ![init_args[num]] = value]
                                   /\ value' = Worth(buf[at]) % WRAP
              /\ ctr' = at + 1
<1>1. Room \in Nat
  BY RoomAssumption
<1>2. ctr \in 0 .. Room - 1
  BY <1>1 DEF ShellTypes, TypeOK, parse_char
<1>3. PICK at : at = IF buf[ctr] = Sep THEN skip(ctr) ELSE ctr
  OBVIOUS
<1>4. at \in ctr .. Room - 1
  <2>1. buf[ctr] = Sep => skip(ctr) < Room
    BY DEF parse_char
  <2>2. skip(ctr) \in ctr .. Room
    BY <1>2, SkipFacts
  <2> QED
    BY <1>1, <1>2, <1>3, <2>1, <2>2
<1>5. Worth(buf[at]) \in Nat
  <2>1. at \in 0 .. Room - 1
    BY <1>1, <1>2, <1>4
  <2>2. buf[at] \in Cells
    BY <2>1 DEF ShellTypes, TypeOK
  <2> QED
    BY <2>2, CellFacts
<1>6. /\ buf[ctr] # Sep => /\ args' = args /\ num' = num
                           /\ value' = (value * 10 + Worth(buf[at])) % WRAP
      /\ buf[ctr] = Sep => /\ num <= 5 /\ num' = num + 1
                           /\ args' = [args EXCEPT ![init_args[num]] = value]
                           /\ value' = (0 * 10 + Worth(buf[at])) % WRAP
      /\ ctr' = at + 1
  BY <1>3 DEF parse_char
<1>7. 0 * 10 + Worth(buf[at]) = Worth(buf[at])
  BY <1>5
<1> QED
  BY <1>2, <1>3, <1>4, <1>5, <1>6, <1>7

LEMMA NextTypes == ShellTypes /\ [Next]_vars => ShellTypes'
<1> SUFFICES ASSUME ShellTypes, [Next]_vars PROVE ShellTypes'
  OBVIOUS
<1>0. /\ Room \in Nat /\ Room >= 2 /\ WRAP \in Nat /\ WRAP > 48
      /\ args \in [Fields -> 0 .. WRAP - 1] /\ regs \in [Fields -> 0 .. WRAP - 1]
      /\ num \in 1 .. 6 /\ value \in 0 .. WRAP - 1 /\ ctr \in 0 .. Room
      /\ buf \in [0 .. Room - 1 -> Cells]
  BY RoomAssumption, WrapAssumption DEF ShellTypes, TypeOK, Fields
<1>1. ASSUME NEW l \in Lines, invoke_dsh(l) PROVE ShellTypes'
  <2>1. buf' \in [0 .. Room - 1 -> Cells]
    BY <1>1, ReadFacts
  <2>2. /\ args' = args /\ regs' = regs /\ ctr' = 1 /\ num' = 1 /\ value' = 0
        /\ pc' \in {"prompt", "parse", "lost"} /\ line' = l /\ prev' = line
    BY <1>1 DEF invoke_dsh
  <2>3. Fits(line) /\ (Fits(l) \/ pc' = "lost")
    BY <1>1 DEF invoke_dsh, ShellTypes
  <2>4. Fits(prev)' /\ (Fits(line)' \/ pc' = "lost")
    BY <2>2, <2>3 DEF Fits
  <2> QED
    BY <1>0, <2>1, <2>2, <2>4 DEF ShellTypes, TypeOK, Fields
<1>2. ASSUME parse_char PROVE ShellTypes'
  <2>1. PICK at \in ctr .. Room - 1 :
              /\ ctr \in 0 .. Room - 1 /\ Worth(buf[at]) \in Nat
              /\ buf[ctr] # Sep => /\ at = ctr /\ args' = args /\ num' = num
                                   /\ value' = (value * 10 + Worth(buf[at])) % WRAP
              /\ buf[ctr] = Sep => /\ at = skip(ctr) /\ num <= 5 /\ num' = num + 1
                                   /\ args' = [args EXCEPT ![init_args[num]] = value]
                                   /\ value' = Worth(buf[at]) % WRAP
              /\ ctr' = at + 1
    BY <1>2, ParseFacts
  <2>2. ctr' \in 0 .. Room /\ num' \in 1 .. 6
    BY <1>0, <2>1
  <2>3. args' \in [Fields -> 0 .. WRAP - 1]
    BY <1>0, <2>1
  <2>4. Worth(buf[at]) \in Nat
    BY <2>1
  <2>5. PICK w \in Nat : w = Worth(buf[at])
    BY <2>4
  <2>6. value * 10 + w \in Nat
    BY <1>0
  <2>7. value' \in 0 .. WRAP - 1
    BY <2>1, <2>5, <2>6, ModRange
  <2>8. UNCHANGED <<buf, pc, line, prev, regs>>
    BY <1>2 DEF parse_char
  <2> QED
    BY <2>2, <2>3, <2>7, <2>8 DEF ShellTypes, TypeOK, Fields, Fits
<1>3. ASSUME overrun PROVE ShellTypes'
  BY <1>3 DEF overrun, parseVars, ShellTypes, TypeOK, Fits
<1>4. ASSUME exec_init PROVE ShellTypes'
  <2>1. args' \in [Fields -> 0 .. WRAP - 1] /\ regs' = args'
    BY <1>0, <1>4 DEF exec_init
  <2>2. UNCHANGED <<buf, parseVars, line, prev>> /\ pc = "parse" /\ pc' = "run"
    BY <1>4 DEF exec_init
  <2> QED
    BY <2>1, <2>2 DEF parseVars, ShellTypes, TypeOK, Fields, Fits
<1>5. ASSUME program_ends PROVE ShellTypes'
  BY <1>5 DEF program_ends, parseVars, ShellTypes, TypeOK, Fits
<1>6. ASSUME astray PROVE ShellTypes'
  BY <1>6 DEF astray, parseVars, ShellTypes, TypeOK, Fits
<1>7. ASSUME UNCHANGED vars PROVE ShellTypes'
  BY <1>7 DEF vars, parseVars, ShellTypes, TypeOK, Fits
<1> QED
  BY <1>1, <1>2, <1>3, <1>4, <1>5, <1>6, <1>7 DEF Next

\* How the loop comes to the end of the buffer.
Edge == buf[Room - 1] # NUL \/ buf[Room - 2] = Sep
EdgeInv == /\ ShellTypes
           /\ pc = "parse" /\ ctr = Room => Edge
           /\ pc = "astray" => Edge

LEMMA ParseEdge ==
    ASSUME ShellTypes, parse_char, ctr' = Room
    PROVE  Edge
<1>1. Room \in Nat /\ Room >= 2
  BY RoomAssumption
<1>2. PICK at \in ctr .. Room - 1 :
          /\ ctr \in 0 .. Room - 1
          /\ buf[ctr] # Sep => at = ctr
          /\ buf[ctr] = Sep => at = skip(ctr)
          /\ ctr' = at + 1
  BY ParseFacts
<1>3. at = Room - 1
  BY <1>1, <1>2
<1>4. CASE buf[ctr] # Sep
  BY <1>2, <1>3, <1>4 DEF parse_char, Edge
<1>5. CASE buf[ctr] = Sep
  <2>1. at # Room /\ buf[at] # Sep /\ \A k \in ctr .. at - 1 : buf[k] = Sep
    <3>1. \/ skip(ctr) = Room
          \/ buf[skip(ctr)] # Sep
      BY <1>2, SkipFacts
    <3>2. \A k \in ctr .. skip(ctr) - 1 : buf[k] = Sep
      BY <1>2, SkipFacts
    <3> QED
      BY <1>1, <1>2, <1>3, <1>5, <3>1, <3>2
  <2>2. Room - 2 \in ctr .. at - 1
    BY <1>1, <1>2, <1>3, <1>5, <2>1
  <2> QED
    BY <2>1, <2>2 DEF Edge
<1> QED
  BY <1>4, <1>5

LEMMA AstrayEdge == EdgeInv /\ astray => Edge
<1> SUFFICES ASSUME EdgeInv, astray PROVE Edge
  OBVIOUS
<1>1. Room \in Nat /\ Room >= 2 /\ ctr \in 0 .. Room /\ ShellTypes
  BY RoomAssumption DEF EdgeInv, ShellTypes, TypeOK
<1>2. CASE ctr = Room
  BY <1>2 DEF EdgeInv, astray
<1>3. CASE ctr # Room
  <2>1. ctr \in 0 .. Room - 1 /\ skip(ctr) = Room
    BY <1>1, <1>3 DEF astray
  <2>2. \A k \in ctr .. skip(ctr) - 1 : buf[k] = Sep
    BY <1>1, <2>1, SkipFacts
  <2>3. Room - 1 \in ctr .. Room - 1
    BY <1>1, <2>1
  <2>4. buf[Room - 1] = Sep
    BY <2>1, <2>2, <2>3
  <2> QED
    BY <2>4, CellFacts DEF Edge
<1> QED
  BY <1>2, <1>3

\* parse_init() leaves the buffer in two ways only, whatever lines of whatever
\* length were typed before, and whatever os_alloc() left in the buffer: its
\* last cell holds no end, or an end that follows a separator.  A line that
\* fits but fills the buffer and ends in a separator does that.
THEOREM ParserStaysInBuffer == Spec => []StaysInBuffer
<1>1. Init => EdgeInv
  BY InitTypes DEF Init, EdgeInv
<1>2. EdgeInv /\ [Next]_vars => EdgeInv'
  <2> SUFFICES ASSUME EdgeInv, [Next]_vars PROVE EdgeInv'
    OBVIOUS
  <2>1. ShellTypes /\ ShellTypes'
    BY NextTypes DEF EdgeInv
  <2>2. CASE \E l \in Lines : invoke_dsh(l)
    <3>1. Room \in Nat /\ Room >= 2
      BY RoomAssumption
    <3>2. ctr' = 1 /\ pc' # "astray"
      BY <2>2 DEF invoke_dsh
    <3> QED
      BY <2>1, <3>1, <3>2 DEF EdgeInv
  <2>3. CASE parse_char
    <3>1. pc' = "parse" /\ buf' = buf
      BY <2>3 DEF parse_char
    <3> QED
      BY <2>1, <2>3, <3>1, ParseEdge DEF EdgeInv, Edge
  <2>4. CASE astray
    <3>1. pc' = "astray" /\ buf' = buf
      BY <2>4 DEF astray
    <3> QED
      BY <2>1, <2>4, <3>1, AstrayEdge DEF EdgeInv, Edge
  <2>5. CASE overrun \/ exec_init \/ program_ends
    BY <2>1, <2>5 DEF overrun, exec_init, program_ends, EdgeInv
  <2>6. CASE UNCHANGED vars
    BY <2>1, <2>6 DEF vars, parseVars, EdgeInv, Edge
  <2> QED
    BY <2>2, <2>3, <2>4, <2>5, <2>6 DEF Next
<1>3. EdgeInv => StaysInBuffer
  BY DEF EdgeInv, Edge, StaysInBuffer
<1> QED
  BY <1>1, <1>2, <1>3, PTL DEF Spec
-----------------------------------------------------------------------------
(* The number a line has at a place.                                       *)

\* f is what Upto() is meant to be, as far as place n.
Counts(t, i, n, f) ==
    /\ f \in [i - 1 .. n -> Nat]
    /\ \A j \in i - 1 .. n :
          f[j] = IF j < i THEN 0 ELSE IF t[j] = Sep THEN f[j - 1] ELSE f[j - 1] * 10 + t[j]

LEMMA CountsExist ==
    ASSUME NEW t \in Seq(Cells), NEW i \in 1 .. Len(t)
    PROVE  \E f : Counts(t, i, Len(t), f)
<1> SUFFICES ASSUME ~\E f : Counts(t, i, Len(t), f) PROVE FALSE
  OBVIOUS
<1>1. Len(t) \in Nat /\ i \in Nat /\ i >= 1 /\ i <= Len(t)
  OBVIOUS
<1>2. PICK S : S = {n \in i - 1 .. Len(t) : ~\E f : Counts(t, i, n, f)}
  OBVIOUS
<1>3. S \subseteq Nat /\ S # {}
  <2>1. i - 1 .. Len(t) \subseteq Nat /\ Len(t) \in i - 1 .. Len(t)
    BY <1>1
  <2>2. Len(t) \in S
    BY <1>2, <2>1
  <2> QED
    BY <1>2, <2>1, <2>2
<1>4. PICK m \in S : \A k \in S : m <= k
  BY <1>3, LeastNat
<1>5. m \in i - 1 .. Len(t) /\ ~\E f : Counts(t, i, m, f)
  BY <1>2, <1>4
<1>6. m # i - 1
  <2> SUFFICES ASSUME m = i - 1 PROVE FALSE
    OBVIOUS
  <2>1. Counts(t, i, m, [j \in i - 1 .. m |-> 0])
    BY <1>1 DEF Counts
  <2> QED
    BY <1>5, <2>1
<1>7. m - 1 \in i - 1 .. Len(t) /\ m - 1 \notin S /\ m \in 1 .. Len(t)
  BY <1>1, <1>3, <1>4, <1>5, <1>6
<1>8. PICK f : Counts(t, i, m - 1, f)
  BY <1>2, <1>7
<1>9. f[m - 1] \in Nat /\ t[m] \in Nat
  <2>1. t[m] \in Cells
    BY <1>7
  <2>2. t[m] \in Nat
    BY <2>1 DEF Cells, Digit, Sep, Letter, NUL
  <2>3. m - 1 \in i - 1 .. m - 1
    BY <1>1, <1>7
  <2> QED
    BY <1>8, <2>2, <2>3 DEF Counts
<1>10. PICK x \in Nat : x = IF t[m] = Sep THEN f[m - 1] ELSE f[m - 1] * 10 + t[m]
  BY <1>9
<1>11. PICK g : g = [j \in i - 1 .. m |-> IF j = m THEN x ELSE f[j]]
  OBVIOUS
<1>12. \A j \in i - 1 .. m : j # m => j \in i - 1 .. m - 1
  BY <1>1, <1>5
<1>13. g \in [i - 1 .. m -> Nat]
  BY <1>8, <1>11, <1>12 DEF Counts
<1>14. ASSUME NEW j \in i - 1 .. m
       PROVE  g[j] = IF j < i THEN 0 ELSE IF t[j] = Sep THEN g[j - 1] ELSE g[j - 1] * 10 + t[j]
  <2>1. CASE j = m
    <3>1. m - 1 \in i - 1 .. m /\ m - 1 # m /\ ~(m < i)
      BY <1>1, <1>5, <1>6, <1>7
    <3>2. g[m - 1] = f[m - 1] /\ g[m] = x
      BY <1>5, <1>11, <3>1
    <3> QED
      BY <1>10, <2>1, <3>1, <3>2
  <2>2. CASE j # m
    <3>1. j \in i - 1 .. m - 1 /\ g[j] = f[j]
      BY <1>11, <1>12, <2>2
    <3>2. j >= i => j - 1 \in i - 1 .. m - 1 /\ g[j - 1] = f[j - 1]
      BY <1>1, <1>5, <1>11, <3>1
    <3>3. f[j] = IF j < i THEN 0 ELSE IF t[j] = Sep THEN f[j - 1] ELSE f[j - 1] * 10 + t[j]
      BY <1>8, <3>1 DEF Counts
    <3>4. j \in Int /\ i \in Int
      BY <1>1, <1>5
    <3> QED
      BY <3>1, <3>2, <3>3, <3>4
  <2> QED
    BY <2>1, <2>2
<1>15. Counts(t, i, m, g)
  BY <1>13, <1>14 DEF Counts
<1> QED
  BY <1>5, <1>15

LEMMA UptoCounts ==
    ASSUME NEW t \in Seq(Cells), NEW i \in 1 .. Len(t)
    PROVE  Counts(t, i, Len(t), Upto(t, i))
<1>1. PICK f : Counts(t, i, Len(t), f)
  BY CountsExist
<1> DEFINE Body(g) == [j \in i - 1 .. Len(t) |->
                          IF j < i THEN 0
                          ELSE IF t[j] = Sep THEN g[j - 1] ELSE g[j - 1] * 10 + t[j]]
<1>2. f = Body(f)
  BY <1>1 DEF Counts
<1>3. Upto(t, i) = CHOOSE g : g = Body(g)
  BY DEF Upto
<1>4. Upto(t, i) = Body(Upto(t, i))
  BY <1>2, <1>3
<1>5. PICK g : g = Upto(t, i)
  OBVIOUS
<1>6. \A j \in i - 1 .. Len(t) :
         g[j] = IF j < i THEN 0 ELSE IF t[j] = Sep THEN g[j - 1] ELSE g[j - 1] * 10 + t[j]
  BY <1>4, <1>5
<1>7. g = [j \in i - 1 .. Len(t) |-> g[j]]
  BY <1>4, <1>5
<1>8. Len(t) \in Nat /\ i \in Nat /\ i >= 1 /\ i <= Len(t)
  OBVIOUS
<1>9. ASSUME NEW n \in i - 1 .. Len(t), g[n] \notin Nat PROVE FALSE
  <2>1. PICK S : S = {j \in i - 1 .. Len(t) : g[j] \notin Nat}
    OBVIOUS
  <2>2. S \subseteq Nat /\ S # {}
    BY <1>8, <1>9, <2>1
  <2>3. PICK m \in S : \A k \in S : m <= k
    BY <2>2, LeastNat
  <2>4. m \in i - 1 .. Len(t) /\ g[m] \notin Nat
    BY <2>1, <2>3
  <2>5. m >= i
    BY <1>6, <1>8, <2>4
  <2>6. m - 1 \in i - 1 .. Len(t) /\ m - 1 \notin S
    BY <1>8, <2>2, <2>3, <2>4, <2>5
  <2>7. g[m - 1] \in Nat
    BY <2>1, <2>6
  <2>8. t[m] \in Nat
    <3>1. m \in 1 .. Len(t)
      BY <1>8, <2>4, <2>5
    <3>2. t[m] \in Cells
      BY <3>1
    <3> QED
      BY <3>2 DEF Cells, Digit, Sep, Letter, NUL
  <2> QED
    BY <1>6, <1>8, <2>4, <2>5, <2>7, <2>8
<1>10. g \in [i - 1 .. Len(t) -> Nat]
  BY <1>7, <1>9
<1> QED
  BY <1>5, <1>6, <1>10 DEF Counts
-----------------------------------------------------------------------------
(* Arithmetic of a u64.                                                    *)

LEMMA DivMod ==
    ASSUME NEW x \in Nat, NEW W \in Nat, W > 0
    PROVE  /\ x \div W \in Nat /\ x % W \in 0 .. W - 1
           /\ x = (W * (x \div W)) + (x % W)
OBVIOUS

LEMMA TimesMono ==
    ASSUME NEW a \in Nat, NEW b \in Nat, NEW W \in Nat, a < b
    PROVE  W * a + W <= W * b
<1>1. PICK c \in Nat : b = a + 1 + c
  <2>1. b - a - 1 \in Nat /\ b = a + 1 + (b - a - 1)
    OBVIOUS
  <2> QED
    BY <2>1
<1>2. W * b = W * a + W + W * c
  BY <1>1
<1>3. W * c \in Nat /\ W * a \in Nat
  OBVIOUS
<1> QED
  BY <1>2, <1>3

LEMMA ModUnique ==
    ASSUME NEW W \in Nat, W > 0, NEW q \in Nat, NEW r \in 0 .. W - 1,
           NEW x \in Nat, x = W * q + r
    PROVE  x % W = r
<1>1. PICK p \in Nat : p = x \div W
  BY DivMod
<1>2. PICK s \in 0 .. W - 1 : s = x % W
  BY DivMod
<1>3. x = W * p + s
  BY <1>1, <1>2, DivMod
<1>4. W * p \in Nat /\ W * q \in Nat
  OBVIOUS
<1>5. ~(p < q)
  <2> SUFFICES ASSUME p < q PROVE FALSE
    OBVIOUS
  <2>1. W * p + W <= W * q
    BY TimesMono
  <2> QED
    BY <1>3, <1>4, <2>1
<1>6. ~(q < p)
  <2> SUFFICES ASSUME q < p PROVE FALSE
    OBVIOUS
  <2>1. W * q + W <= W * p
    BY TimesMono
  <2> QED
    BY <1>3, <1>4, <2>1
<1>7. p = q
  BY <1>5, <1>6
<1>8. s = r
  BY <1>3, <1>4, <1>7
<1> QED
  BY <1>2, <1>8

\* Reducing the number after every digit is the same as reducing it once.
LEMMA ModDigit ==
    ASSUME NEW x \in Nat, NEW d \in Nat
    PROVE  ((x % WRAP) * 10 + d) % WRAP = (x * 10 + d) % WRAP
<1>1. PICK W \in Nat : W = WRAP /\ W > 0
  BY WrapAssumption
<1>2. PICK q \in Nat, r \in 0 .. W - 1 : x = W * q + r /\ r = x % W
  BY <1>1, DivMod
<1>3. PICK y \in Nat : y = r * 10 + d
  OBVIOUS
<1>4. PICK p \in Nat, s \in 0 .. W - 1 : y = W * p + s /\ s = y % W
  BY <1>1, DivMod
<1>5. PICK z \in Nat : z = x * 10 + d
  OBVIOUS
<1>6. z = W * (q * 10 + p) + s
  <2>1. PICK m \in Nat : m = W * q
    OBVIOUS
  <2>2. z = m * 10 + r * 10 + d
    <3>1. x = m + r
      BY <1>2, <2>1
    <3>2. m \in Int /\ r \in Int /\ d \in Int
      BY <1>1
    <3> QED
      BY <1>5, <3>1, <3>2
  <2>3. W * (q * 10 + p) = (W * q) * 10 + W * p
    OBVIOUS
  <2>4. PICK k \in Nat : k = W * p
    OBVIOUS
  <2>5. W * (q * 10 + p) = m * 10 + k /\ r * 10 + d = k + s
    BY <1>3, <1>4, <2>1, <2>3, <2>4
  <2> QED
    BY <2>2, <2>5
<1>7. q * 10 + p \in Nat
  OBVIOUS
<1>8. z % W = s
  BY <1>1, <1>6, <1>7, ModUnique
<1> QED
  BY <1>1, <1>2, <1>3, <1>4, <1>5, <1>8
-----------------------------------------------------------------------------
(* The invariant of parse_init().                                          *)

Bare == [cmd |-> "init", tail |-> <<>>]

\* parse_init() meets the numbers of l: l was typed last, or a bare init was
\* typed right after l.
Source(l) == WellFormed(l) /\ Fits(l) /\ (l = line \/ (line = Bare /\ l = prev))

\* From cmd[5] on the buffer holds l.
InBuffer(l) == /\ \A j \in 1 .. Len(l.tail) - 1 : buf[j] = l.tail[j + 1]
               /\ buf[Len(l.tail)] = NUL

\* The number of the argument that starts at i.
Rank(t, i) == 1 + Cardinality({j \in Starts(t) : j < i})

\* The loop is in the argument that starts at i: what lies before it is stored,
\* and value is what has been read of it.
Parsing(t, i) ==
    /\ i >= 2 /\ ctr \in i - 1 .. Len(t)
    /\ \A k \in i .. ctr : t[k] \in Digit
    /\ num = Rank(t, i)
    /\ value = Upto(t, i)[ctr] % WRAP
    /\ \A k \in 1 .. num - 1 : args[init_args[k]] = Number(t, k)

Arrived(t) == \A k \in 1 .. NumArgs(t) : regs[init_args[k]] = Number(t, k)

\* What holds of a line that parse_init() meets.
Follows(l) == /\ InBuffer(l) /\ Safe
              /\ pc = "parse" => \E i \in Starts(l.tail) : Parsing(l.tail, i)
              /\ pc = "run" => Arrived(l.tail)

ShellInv == ShellTypes /\ \A l \in {line, prev} : Source(l) => Follows(l)
-----------------------------------------------------------------------------
(* Where the arguments of a line start, and which is which.                *)

\* What well-formed lines have in common.
OkTail(t) ==
    /\ t \in Seq(Cells) /\ Len(t) \in Nat /\ Len(t) >= 2
    /\ \A i \in 1 .. Len(t) : t[i] \in Digit \union {Sep}
    /\ t[1] = Sep /\ t[2] \in Digit /\ t[Len(t)] \in Digit
    /\ NumArgs(t) \in 1 .. 5

LEMMA DigitFacts == Digit \subseteq Nat /\ Sep \notin Digit /\ NUL \notin Digit /\ NUL # Sep
BY DEF Digit, Sep, NUL

LEMMA DigitWorth == ASSUME NEW d \in Digit PROVE Worth(d) = d
BY DEF Worth, Digit, Sep, NUL, Letter

LEMMA WellFormedTail ==
    ASSUME NEW l \in Lines \union {Short}, WellFormed(l), Fits(l)
    PROVE  OkTail(l.tail) /\ Len(l.tail) < Room /\ l # Bare
<1>1. l.tail \in Seq(Cells) /\ Len(l.tail) \in Nat /\ Len(l.tail) < Room
  BY LineFacts, RoomAssumption DEF Fits
<1>2. OkTail(l.tail)
  BY <1>1 DEF WellFormed, OkTail
<1>3. Len(Bare.tail) = 0
  BY DEF Bare
<1> QED
  BY <1>1, <1>2, <1>3 DEF OkTail

LEMMA StartFacts ==
    ASSUME NEW t, OkTail(t)
    PROVE  /\ Starts(t) \subseteq 1 .. Len(t) /\ IsFiniteSet(Starts(t))
           /\ 1 \notin Starts(t) /\ 2 \in Starts(t)
           /\ \A i : /\ IsFiniteSet({j \in Starts(t) : j < i})
                     /\ Cardinality({j \in Starts(t) : j < i}) \in Nat
<1>1. Starts(t) \subseteq 1 .. Len(t)
  BY DEF Starts
<1>2. IsFiniteSet(1 .. Len(t))
  BY FS_Interval DEF OkTail
<1>3. IsFiniteSet(Starts(t))
  BY <1>1, <1>2, FS_Subset
<1>4. 1 \notin Starts(t) /\ 2 \in Starts(t)
  BY DigitFacts DEF OkTail, Starts
<1>5. ASSUME NEW i
      PROVE  /\ IsFiniteSet({j \in Starts(t) : j < i})
             /\ Cardinality({j \in Starts(t) : j < i}) \in Nat
  <2>1. IsFiniteSet({j \in Starts(t) : j < i})
    BY <1>3, FS_Subset
  <2> QED
    BY <2>1, FS_CardinalityType
<1> QED
  BY <1>1, <1>3, <1>4, <1>5

LEMMA RankFirst == ASSUME NEW t, OkTail(t) PROVE Rank(t, 2) = 1
<1>1. {j \in Starts(t) : j < 2} = {}
  BY StartFacts DEF OkTail
<1> QED
  BY <1>1, FS_EmptySet DEF Rank

\* The next argument has the next number.
LEMMA RankNext ==
    ASSUME NEW t, OkTail(t), NEW i \in Starts(t), NEW k \in Int, i < k,
           \A j \in Starts(t) : ~(i < j /\ j < k)
    PROVE  Rank(t, k) = Rank(t, i) + 1
<1>1. PICK A : A = {j \in Starts(t) : j < i}
  OBVIOUS
<1>2. PICK B : B = {j \in Starts(t) : j < k}
  OBVIOUS
<1>3. IsFiniteSet(A) /\ Cardinality(A) \in Nat
  BY <1>1, StartFacts
<1>4. Starts(t) \subseteq Nat
  BY StartFacts DEF OkTail
<1>5. i \notin A /\ B = A \union {i}
  BY <1>1, <1>2, <1>4
<1>6. Cardinality(B) = Cardinality(A) + 1
  BY <1>3, <1>5, FS_AddElement
<1> QED
  BY <1>1, <1>2, <1>3, <1>6 DEF Rank

\* Later arguments have greater numbers.
LEMMA RankMono ==
    ASSUME NEW t, OkTail(t), NEW i \in Starts(t), NEW k \in Starts(t), i < k
    PROVE  Rank(t, i) < Rank(t, k)
<1>1. PICK A : A = {j \in Starts(t) : j < i}
  OBVIOUS
<1>2. PICK B : B = {j \in Starts(t) : j < k}
  OBVIOUS
<1>3. /\ IsFiniteSet(A) /\ Cardinality(A) \in Nat
      /\ IsFiniteSet(B) /\ Cardinality(B) \in Nat
  BY <1>1, <1>2, StartFacts
<1>4. Starts(t) \subseteq Nat
  BY StartFacts DEF OkTail
<1>5. A \in SUBSET B /\ i \in B /\ i \notin A
  BY <1>1, <1>2, <1>4
<1>6. Cardinality(A) <= Cardinality(B) /\ (Cardinality(B) = Cardinality(A) => B = A)
  BY <1>3, <1>5, FS_Subset
<1>7. Cardinality(A) < Cardinality(B)
  BY <1>3, <1>5, <1>6
<1> QED
  BY <1>1, <1>2, <1>3, <1>7 DEF Rank

LEMMA RankBound ==
    ASSUME NEW t, OkTail(t), NEW i \in Starts(t)
    PROVE  /\ Rank(t, i) \in 1 .. NumArgs(t)
           /\ (\A j \in Starts(t) : ~(i < j)) => Rank(t, i) = NumArgs(t)
<1>1. PICK A : A = {j \in Starts(t) : j < i}
  OBVIOUS
<1>2. PICK S : S = Starts(t)
  OBVIOUS
<1>3. IsFiniteSet(A) /\ Cardinality(A) \in Nat /\ IsFiniteSet(S)
  BY <1>1, <1>2, StartFacts
<1>4. S \subseteq Nat
  BY <1>2, StartFacts DEF OkTail
<1>5. A \in SUBSET S /\ i \in S /\ i \notin A
  BY <1>1, <1>2, <1>4
<1>6. IsFiniteSet(A \union {i}) /\ Cardinality(A \union {i}) = Cardinality(A) + 1
  BY <1>3, <1>5, FS_AddElement
<1>7. A \union {i} \in SUBSET S
  BY <1>5
<1>8. Cardinality(A \union {i}) <= Cardinality(S) /\ Cardinality(S) \in Nat
  BY <1>3, <1>7, FS_Subset, FS_CardinalityType
<1>9. (\A j \in S : ~(i < j)) => S = A \union {i}
  BY <1>1, <1>2, <1>4, <1>5
<1>10. Rank(t, i) = Cardinality(A) + 1 /\ NumArgs(t) = Cardinality(S)
  BY <1>1, <1>2, <1>3 DEF Rank, NumArgs
<1> QED
  BY <1>2, <1>3, <1>6, <1>8, <1>9, <1>10

\* Number() finds the argument by its number.
LEMMA NumberRank ==
    ASSUME NEW t, OkTail(t), NEW i \in Starts(t)
    PROVE  Number(t, Rank(t, i)) = NumberAt(t, i)
<1>1. \A k \in Starts(t) : Cardinality({j \in Starts(t) : j < k}) \in Nat
  BY StartFacts
<1>2. \A k \in Starts(t) :
         Cardinality({j \in Starts(t) : j < k}) = Rank(t, i) - 1 <=> Rank(t, k) = Rank(t, i)
  BY <1>1 DEF Rank
<1>3. Starts(t) \subseteq Nat
  BY StartFacts DEF OkTail
<1>4. \A k \in Starts(t) : Rank(t, k) \in Nat
  BY <1>1 DEF Rank
<1>5. ASSUME NEW k \in Starts(t), Rank(t, k) = Rank(t, i) PROVE k = i
  <2>1. ~(k < i)
    BY <1>4, <1>5, RankMono
  <2>2. ~(i < k)
    BY <1>4, <1>5, RankMono
  <2> QED
    BY <1>3, <2>1, <2>2
<1>6. PICK c : c = CHOOSE k \in Starts(t) :
                      Cardinality({j \in Starts(t) : j < k}) = Rank(t, i) - 1
  OBVIOUS
<1>7. c \in Starts(t) /\ Cardinality({j \in Starts(t) : j < c}) = Rank(t, i) - 1
  BY <1>2, <1>6
<1>8. c = i
  BY <1>2, <1>5, <1>7
<1> QED
  BY <1>6, <1>8 DEF Number

\* An argument ends before the first character that is no digit.
LEMMA EndIs ==
    ASSUME NEW t, OkTail(t), NEW i \in Nat, NEW e \in i .. Len(t),
           \A k \in i .. e : t[k] \in Digit,
           e = Len(t) \/ t[e + 1] \notin Digit
    PROVE  NumberEnd(t, i) = e
<1>1. PICK E : E = {j \in i .. Len(t) : \A k \in i .. j : t[k] \in Digit}
  OBVIOUS
<1>2. Len(t) \in Nat
  BY DEF OkTail
<1>3. e \in E /\ E \subseteq Int
  BY <1>1, <1>2
<1>4. ASSUME NEW j \in E PROVE j <= e
  <2> SUFFICES ASSUME e < j PROVE FALSE
    BY <1>2, <1>3
  <2>1. j \in i .. Len(t) /\ \A k \in i .. j : t[k] \in Digit
    BY <1>1, <1>4
  <2>2. e + 1 \in i .. j /\ e # Len(t)
    BY <1>2, <2>1
  <2> QED
    BY <2>1, <2>2
<1>5. PICK c : c = CHOOSE j \in E : \A k \in E : k <= j
  OBVIOUS
<1>6. c \in E /\ \A k \in E : k <= c
  BY <1>3, <1>4, <1>5
<1>7. c = e
  BY <1>3, <1>4, <1>6
<1> QED
  BY <1>1, <1>5, <1>7 DEF NumberEnd
-----------------------------------------------------------------------------
(* The steps of parse_init().                                              *)

\* What the loop sees at ctr, in terms of the line.
LEMMA Sees ==
    ASSUME NEW l, OkTail(l.tail), InBuffer(l), ctr \in 1 .. Len(l.tail)
    PROVE  /\ buf[ctr] = NUL <=> ctr = Len(l.tail)
           /\ buf[ctr] # NUL => /\ buf[ctr] = l.tail[ctr + 1] /\ ctr < Len(l.tail)
                                /\ ctr + 1 \in 1 .. Len(l.tail)
                                /\ buf[ctr] \in Digit \union {Sep}
<1>1. PICK t : t = l.tail
  OBVIOUS
<1>2. Len(t) \in Nat /\ \A i \in 1 .. Len(t) : t[i] \in Digit \union {Sep}
  BY <1>1 DEF OkTail
<1>3. (\A j \in 1 .. Len(t) - 1 : buf[j] = t[j + 1]) /\ buf[Len(t)] = NUL
  BY <1>1 DEF InBuffer
<1>4. CASE ctr = Len(t)
  BY <1>1, <1>3, <1>4
<1>5. CASE ctr # Len(t)
  <2>1. ctr \in 1 .. Len(t) - 1 /\ ctr + 1 \in 1 .. Len(t) /\ ctr < Len(t)
    BY <1>1, <1>2, <1>5
  <2>2. buf[ctr] = t[ctr + 1] /\ t[ctr + 1] \in Digit \union {Sep}
    BY <1>2, <1>3, <2>1
  <2> QED
    BY <1>1, <1>5, <2>1, <2>2, DigitFacts
<1> QED
  BY <1>4, <1>5

LEMMA ParsingPlace ==
    ASSUME ShellTypes, NEW t, OkTail(t), NEW i \in Starts(t), Parsing(t, i)
    PROVE  /\ i \in 2 .. Len(t) /\ ctr \in 1 .. Len(t) /\ ctr \in Int /\ i \in Int
           /\ num \in 1 .. 5 /\ t[i] \in Digit
<1>1. Starts(t) \subseteq 1 .. Len(t) /\ Len(t) \in Nat
  BY StartFacts DEF OkTail
<1>2. i \in 2 .. Len(t)
  BY <1>1 DEF Parsing
<1>3. ctr \in 1 .. Len(t)
  BY <1>1, <1>2 DEF Parsing
<1>4. num \in 1 .. 5
  BY RankBound DEF Parsing, OkTail
<1>5. t[i] \in Digit
  BY DEF Starts
<1> QED
  BY <1>2, <1>3, <1>4, <1>5

\* A digit is added to the value.
LEMMA DigitStep ==
    ASSUME ShellTypes, NEW l, OkTail(l.tail), InBuffer(l),
           NEW i \in Starts(l.tail), Parsing(l.tail, i), parse_char, buf[ctr] # Sep
    PROVE  Parsing(l.tail, i)'
<1>1. PICK t : t = l.tail
  OBVIOUS
<1>2. PICK c : c = ctr
  OBVIOUS
<1>3. i \in 2 .. Len(t) /\ c \in 1 .. Len(t) /\ num \in 1 .. 5
  BY <1>1, <1>2, ParsingPlace
<1>4. buf[c] # NUL
  BY <1>2 DEF parse_char
<1>5. buf[c] = t[c + 1] /\ c < Len(t) /\ c + 1 \in 1 .. Len(t) /\ t[c + 1] \in Digit
  BY <1>1, <1>2, <1>3, <1>4, Sees
<1>6. PICK d \in Nat : d = t[c + 1] /\ d \in Digit
  BY <1>5, DigitFacts
<1>7. Worth(buf[c]) = d
  BY <1>5, <1>6, DigitWorth
<1>8. ctr' = c + 1 /\ args' = args /\ num' = num /\ value' = (value * 10 + d) % WRAP
  <2>1. PICK at \in ctr .. Room - 1 :
            /\ at = ctr /\ args' = args /\ num' = num
            /\ value' = (value * 10 + Worth(buf[at])) % WRAP
            /\ ctr' = at + 1
    BY ParseFacts
  <2> QED
    BY <1>2, <1>7, <2>1
<1>9. PICK f : f = Upto(t, i)
  OBVIOUS
<1>10. Counts(t, i, Len(t), f)
  BY <1>1, <1>3, <1>9, UptoCounts DEF OkTail
<1>11. c \in i - 1 .. Len(t) /\ (\A k \in i .. c : t[k] \in Digit) /\ value = f[c] % WRAP
  BY <1>1, <1>2, <1>9 DEF Parsing
<1>12. c + 1 \in i - 1 .. Len(t) /\ ~(c + 1 < i) /\ (c + 1) - 1 = c
  BY <1>3, <1>5, <1>11
<1>13. f[c] \in Nat /\ f[c + 1] = f[c] * 10 + d
  BY <1>6, <1>10, <1>11, <1>12, DigitFacts DEF Counts
<1>14. value' = f[c + 1] % WRAP
  BY <1>8, <1>11, <1>13, ModDigit
<1>15. \A k \in i .. c + 1 : t[k] \in Digit
  <2>1. \A k \in i .. c + 1 : k \in i .. c \/ k = c + 1
    BY <1>3
  <2> QED
    BY <1>5, <1>11, <2>1
<1>16. num = Rank(t, i) /\ \A k \in 1 .. num - 1 : args[init_args[k]] = Number(t, k)
  BY <1>1 DEF Parsing
<1> QED
  BY <1>1, <1>3, <1>8, <1>9, <1>12, <1>14, <1>15, <1>16 DEF Parsing

\* Where an argument ends, its value is the number of the line.
LEMMA ValueIs ==
    ASSUME ShellTypes, NEW t, OkTail(t), NEW i \in Starts(t), Parsing(t, i),
           ctr = Len(t) \/ t[ctr + 1] \notin Digit
    PROVE  value = Number(t, num)
<1>1. PICK c : c = ctr
  OBVIOUS
<1>2. i \in 2 .. Len(t) /\ c \in 1 .. Len(t) /\ t[i] \in Digit /\ c \in i - 1 .. Len(t)
  BY <1>1, ParsingPlace DEF Parsing
<1>3. c \in i .. Len(t)
  <2>1. c # i - 1
    BY <1>1, <1>2
  <2> QED
    BY <1>2, <2>1
<1>4. \A k \in i .. c : t[k] \in Digit
  BY <1>1 DEF Parsing
<1>5. NumberEnd(t, i) = c
  BY <1>1, <1>2, <1>3, <1>4, EndIs
<1>6. value = NumberAt(t, i)
  BY <1>1, <1>5 DEF Parsing, NumberAt
<1> QED
  BY <1>6, NumberRank DEF Parsing

\* The next argument follows the separators.
LEMMA SkipsTo ==
    ASSUME ShellTypes, NEW l, OkTail(l.tail), InBuffer(l), Len(l.tail) < Room,
           ctr \in 1 .. Len(l.tail), buf[ctr] = Sep
    PROVE  /\ skip(ctr) \in ctr + 1 .. Len(l.tail) - 1 /\ buf[skip(ctr)] # Sep
           /\ \A k \in ctr .. skip(ctr) - 1 : buf[k] = Sep
<1>1. PICK t : t = l.tail
  OBVIOUS
<1>2. PICK c : c = ctr
  OBVIOUS
<1>3. c \in 1 .. Len(t) /\ Len(t) \in Nat /\ t[Len(t)] \in Digit
  BY <1>1, <1>2 DEF OkTail
<1>4. c < Len(t)
  BY <1>1, <1>2, <1>3, Sees, DigitFacts
<1>5. /\ \A j \in 1 .. Len(t) - 1 : buf[j] = t[j + 1]
      /\ Room \in Nat /\ Len(t) < Room
  BY <1>1, RoomAssumption DEF InBuffer
<1>6. PICK a : a = skip(c)
  OBVIOUS
<1>7. /\ a \in c .. Room /\ (a = Room \/ buf[a] # Sep)
      /\ \A k \in c .. a - 1 : buf[k] = Sep
  <2>1. c \in 0 .. Room - 1
    BY <1>3, <1>5
  <2> QED
    BY <1>6, <2>1, SkipFacts
<1>8. buf[Len(t) - 1] # Sep /\ Len(t) - 1 >= c
  <2>1. Len(t) - 1 \in 1 .. Len(t) - 1 /\ (Len(t) - 1) + 1 = Len(t) /\ Len(t) - 1 >= c
    BY <1>3, <1>4
  <2> QED
    BY <1>3, <1>5, <2>1, DigitFacts
<1>9. ~(Len(t) - 1 \in c .. a - 1)
  BY <1>7, <1>8
<1>10. a \in c .. Len(t) - 1 /\ a # Room
  BY <1>3, <1>5, <1>7, <1>8, <1>9
<1>11. buf[a] # Sep /\ a # c
  BY <1>2, <1>7, <1>10
<1>12. a \in c + 1 .. Len(t) - 1
  BY <1>3, <1>10, <1>11
<1> QED
  BY <1>1, <1>2, <1>6, <1>7, <1>11, <1>12

\* A separator stores the value and goes on to the next argument.
LEMMA SepStep ==
    ASSUME ShellTypes, NEW l, OkTail(l.tail), InBuffer(l), Len(l.tail) < Room,
           NEW i \in Starts(l.tail), Parsing(l.tail, i), parse_char, buf[ctr] = Sep
    PROVE  \E k \in Starts(l.tail) : Parsing(l.tail, k)'
<1>1. PICK t : t = l.tail
  OBVIOUS
<1>2. PICK c : c = ctr
  OBVIOUS
<1>3. /\ i \in 2 .. Len(t) /\ c \in 1 .. Len(t) /\ num \in 1 .. 5 /\ Len(t) \in Nat
      /\ t[Len(t)] \in Digit /\ c \in i - 1 .. Len(t) /\ \A k \in i .. c : t[k] \in Digit
  BY <1>1, <1>2, ParsingPlace DEF OkTail, Parsing
<1>4. buf[c] = t[c + 1] /\ c < Len(t) /\ c + 1 \in 1 .. Len(t) /\ t[c + 1] = Sep
  BY <1>1, <1>2, <1>3, Sees, DigitFacts
<1>5. \A j \in 1 .. Len(t) - 1 : buf[j] = t[j + 1]
  BY <1>1 DEF InBuffer
<1>6. PICK a : a = skip(c)
  OBVIOUS
<1>7. buf[a] # Sep /\ \A k \in c .. a - 1 : buf[k] = Sep
  BY <1>1, <1>2, <1>3, <1>6, SkipsTo
<1>8. a \in c + 1 .. Len(t) - 1
  BY <1>1, <1>2, <1>3, <1>6, SkipsTo
<1>9. PICK n : n = a + 1
  OBVIOUS
<1>10. n \in 2 .. Len(t) /\ n > c + 1 /\ n - 1 = a /\ n \in Nat
  BY <1>3, <1>8, <1>9
<1>11. buf[a] = t[n] /\ t[n] \in Digit
  <2>1. a \in 1 .. Len(t) - 1
    BY <1>3, <1>8
  <2>2. buf[a] = t[n]
    BY <1>5, <1>9, <2>1
  <2>3. t[n] \in Digit \union {Sep}
    BY <1>1, <1>10 DEF OkTail
  <2> QED
    BY <1>7, <2>2, <2>3
<1>12. \A j \in c + 1 .. a : t[j] = Sep
  <2> SUFFICES ASSUME NEW j \in c + 1 .. a PROVE t[j] = Sep
    OBVIOUS
  <2>1. j - 1 \in c .. a - 1 /\ j - 1 \in 1 .. Len(t) - 1 /\ (j - 1) + 1 = j
    BY <1>3, <1>8
  <2> QED
    BY <1>5, <1>7, <2>1
<1>13. n \in Starts(t)
  <2>1. t[n - 1] = Sep
    BY <1>3, <1>8, <1>10, <1>12
  <2> QED
    BY <1>10, <1>11, <2>1 DEF Starts
<1>14. \A j \in Starts(t) : ~(i < j /\ j < n)
  <2> SUFFICES ASSUME NEW j \in Starts(t), i < j, j < n PROVE FALSE
    OBVIOUS
  <2>1. j \in 1 .. Len(t) /\ t[j] \in Digit /\ (j = 1 \/ t[j - 1] = Sep)
    BY DEF Starts
  <2>2. CASE j <= c
    <3>1. j - 1 \in i .. c /\ j # 1
      BY <1>3, <2>1, <2>2
    <3> QED
      BY <1>3, <2>1, <3>1, DigitFacts
  <2>3. CASE j > c
    <3>1. j \in c + 1 .. a
      BY <1>3, <1>8, <1>9, <2>1, <2>3
    <3> QED
      BY <1>12, <2>1, <3>1, DigitFacts
  <2> QED
    BY <1>3, <2>1, <2>2, <2>3
<1>15. Rank(t, n) = Rank(t, i) + 1
  <2>1. i < n /\ n \in Int /\ i \in Starts(t) /\ OkTail(t)
    BY <1>1, <1>3, <1>10
  <2> QED
    BY <1>14, <2>1, RankNext
<1>16. value = Number(t, num) /\ num = Rank(t, i)
  <2>1. t[ctr + 1] \notin Digit
    BY <1>2, <1>4, DigitFacts
  <2> QED
    BY <1>1, <2>1, ValueIs DEF Parsing
<1>17. PICK d \in Nat : d = t[n] /\ Worth(buf[a]) = d
  BY <1>11, DigitFacts, DigitWorth
<1>18. /\ ctr' = n /\ num' = num + 1 /\ args' = [args EXCEPT ![init_args[num]] = value]
       /\ value' = d % WRAP
  <2>1. PICK at \in ctr .. Room - 1 :
            /\ at = skip(ctr) /\ num' = num + 1
            /\ args' = [args EXCEPT ![init_args[num]] = value]
            /\ value' = Worth(buf[at]) % WRAP
            /\ ctr' = at + 1
    BY ParseFacts
  <2>2. at = a
    BY <1>2, <1>6, <2>1
  <2> QED
    BY <1>9, <1>17, <2>1, <2>2
<1>19. Upto(t, n)[n] = d
  <2>1. PICK f : f = Upto(t, n)
    OBVIOUS
  <2>2. Counts(t, n, Len(t), f)
    <3>1. n \in 1 .. Len(t)
      BY <1>10
    <3> QED
      BY <1>1, <2>1, <3>1, UptoCounts DEF OkTail
  <2>3. n \in n - 1 .. Len(t) /\ n - 1 \in n - 1 .. Len(t) /\ n - 1 < n /\ ~(n < n)
    BY <1>3, <1>10
  <2>4. f[n - 1] = 0 /\ f[n] = f[n - 1] * 10 + t[n]
    BY <1>11, <2>2, <2>3, DigitFacts DEF Counts
  <2> QED
    BY <1>17, <2>1, <2>4
<1>20. \A k \in 1 .. num' - 1 : args'[init_args[k]] = Number(t, k)
  <2> SUFFICES ASSUME NEW k \in 1 .. num PROVE args'[init_args[k]] = Number(t, k)
    BY <1>3, <1>18
  <2>1. args \in [Fields -> 0 .. WRAP - 1]
    BY DEF ShellTypes, TypeOK, Fields
  <2>2. k \in 1 .. 5 /\ init_args[k] \in Fields /\ init_args[num] \in Fields
    BY <1>3, FieldFacts
  <2>3. CASE k = num
    BY <1>16, <1>18, <2>1, <2>2, <2>3
  <2>4. CASE k # num
    <3>1. k \in 1 .. num - 1 /\ init_args[k] # init_args[num]
      BY <1>3, <2>2, <2>4, FieldFacts
    <3>2. args[init_args[k]] = Number(t, k)
      BY <1>1, <3>1 DEF Parsing
    <3> QED
      BY <1>18, <2>1, <2>2, <3>1, <3>2
  <2> QED
    BY <2>3, <2>4
<1>21. \A k \in n .. n : t[k] \in Digit
  BY <1>10, <1>11
<1>22. n >= 2 /\ n \in n - 1 .. Len(t)
  BY <1>3, <1>10
<1>23. Parsing(t, n)'
  BY <1>15, <1>16, <1>18, <1>19, <1>20, <1>21, <1>22 DEF Parsing
<1> QED
  BY <1>1, <1>13, <1>23
\* parse_init() starts in the first argument.
LEMMA ParsingStarts ==
    ASSUME NEW t, OkTail(t), ctr' = 1, num' = 1, value' = 0
    PROVE  \E i \in Starts(t) : Parsing(t, i)'
<1>1. 2 \in Starts(t) /\ Rank(t, 2) = 1 /\ Len(t) \in Nat /\ Len(t) >= 2
  BY StartFacts, RankFirst DEF OkTail
<1>2. PICK f : f = Upto(t, 2)
  OBVIOUS
<1>3. Counts(t, 2, Len(t), f)
  <2>1. 2 \in 1 .. Len(t) /\ t \in Seq(Cells)
    BY <1>1 DEF OkTail
  <2> QED
    BY <1>2, <2>1, UptoCounts
<1>4. 1 \in 2 - 1 .. Len(t) /\ 1 < 2
  BY <1>1
<1>5. f[1] = 0
  BY <1>3, <1>4 DEF Counts
<1>6. 0 % WRAP = 0
  BY WrapAssumption
<1>7. value' = Upto(t, 2)[1] % WRAP
  BY <1>2, <1>5, <1>6
<1>8. 2 .. 1 = {} /\ 1 .. 1 - 1 = {} /\ 2 >= 2
  OBVIOUS
<1>9. Parsing(t, 2)'
  BY <1>1, <1>4, <1>7, <1>8 DEF Parsing
<1> QED
  BY <1>1, <1>9

LEMMA ReadStep ==
    ASSUME ShellInv, NEW l \in Lines, invoke_dsh(l),
           NEW m \in {line', prev'}, Source(m)'
    PROVE  Follows(m)'
<1>1. ShellTypes /\ line \in Lines \union {Short}
  BY DEF ShellInv, ShellTypes
<1>2. line' = l /\ prev' = line /\ ctr' = 1 /\ num' = 1 /\ value' = 0
  BY DEF invoke_dsh
<1>3. WellFormed(m) /\ Fits(m) /\ (m = l \/ (l = Bare /\ m = line))
  BY <1>2 DEF Source
<1>4. m \in Lines \union {Short}
  BY <1>1, <1>2
<1>5. PICK t : t = m.tail
  OBVIOUS
<1>6. OkTail(t) /\ Len(t) < Room /\ m # Bare
  BY <1>3, <1>4, <1>5, WellFormedTail
<1>7. Room \in Nat /\ Room >= 2 /\ Len(t) \in Nat /\ Len(t) >= 2
  BY <1>6, RoomAssumption DEF OkTail
<1>8. \A i \in 0 .. Room - 1 :
         buf'[i] = IF l.cmd = "short" THEN buf[i]
                   ELSE IF i < Len(l.tail) THEN l.tail[i + 1]
                   ELSE IF i = Len(l.tail) THEN NUL ELSE buf[i]
  BY <1>1, ReadFacts
<1>9. l.cmd = "init"
  BY <1>3 DEF WellFormed, Bare
<1>10. pc' = "parse"
  <2>1. Fits(Bare)
    BY <1>7 DEF Fits, Bare
  <2> QED
    BY <1>3, <1>9, <2>1 DEF invoke_dsh
<1>11. \A j \in 1 .. Len(t) : j \in 0 .. Room - 1
  BY <1>6, <1>7
<1>12. (\A j \in 1 .. Len(t) - 1 : buf'[j] = t[j + 1]) /\ buf'[Len(t)] = NUL
  <2>1. CASE m = l
    <3>1. \A j \in 1 .. Len(t) - 1 : j \in 0 .. Room - 1 /\ j < Len(t)
      BY <1>6, <1>7
    <3>2. Len(t) \in 0 .. Room - 1 /\ ~(Len(t) < Len(t))
      BY <1>6, <1>7
    <3> QED
      BY <1>5, <1>8, <1>9, <2>1, <3>1, <3>2
  <2>2. CASE m # l
    <3>1. l = Bare /\ m = line /\ Len(l.tail) = 0
      BY <1>3, <2>2 DEF Bare
    <3>2. InBuffer(m)
      BY <1>3, <3>1 DEF ShellInv, Source, Follows
    <3>3. (\A j \in 1 .. Len(t) - 1 : buf[j] = t[j + 1]) /\ buf[Len(t)] = NUL
      BY <1>5, <3>2 DEF InBuffer
    <3>4. ASSUME NEW j \in 1 .. Len(t) PROVE buf'[j] = buf[j]
      <4>1. j \in 0 .. Room - 1 /\ ~(j < 0) /\ j # 0
        BY <1>7, <1>11
      <4> QED
        BY <1>8, <1>9, <3>1, <4>1
    <3>5. Len(t) \in 1 .. Len(t) /\ \A j \in 1 .. Len(t) - 1 : j \in 1 .. Len(t)
      BY <1>7
    <3> QED
      BY <3>3, <3>4, <3>5
  <2> QED
    BY <2>1, <2>2
<1>13. InBuffer(m)'
  BY <1>5, <1>12 DEF InBuffer
<1>14. \E i \in Starts(t) : Parsing(t, i)'
  BY <1>2, <1>6, ParsingStarts
<1> QED
  BY <1>5, <1>10, <1>13, <1>14 DEF Follows, Safe

\* The steps after a line was read leave the lines and the buffer alone.
LEMMA SameSource ==
    ASSUME ShellInv, UNCHANGED <<buf, line, prev>>, NEW m \in {line', prev'}, Source(m)'
    PROVE  /\ Follows(m) /\ InBuffer(m)' /\ OkTail(m.tail) /\ Len(m.tail) < Room
<1>1. m \in {line, prev} /\ Source(m)
  BY DEF Source
<1>2. Follows(m)
  BY <1>1 DEF ShellInv
<1>3. InBuffer(m)'
  BY <1>2 DEF Follows, InBuffer
<1>4. m \in Lines \union {Short} /\ WellFormed(m) /\ Fits(m)
  BY <1>1 DEF ShellInv, ShellTypes, Source
<1> QED
  BY <1>2, <1>3, <1>4, WellFormedTail

LEMMA ParseStep ==
    ASSUME ShellInv, parse_char, NEW m \in {line', prev'}, Source(m)'
    PROVE  Follows(m)'
<1>1. UNCHANGED <<buf, line, prev>> /\ pc = "parse" /\ pc' = "parse"
  BY DEF parse_char
<1>2. Follows(m) /\ InBuffer(m)' /\ OkTail(m.tail) /\ Len(m.tail) < Room
  BY <1>1, SameSource
<1>3. PICK i \in Starts(m.tail) : Parsing(m.tail, i)
  BY <1>1, <1>2 DEF Follows
<1>4. ShellTypes /\ InBuffer(m)
  BY <1>2 DEF ShellInv, Follows
<1>5. \E k \in Starts(m.tail) : Parsing(m.tail, k)'
  <2>1. CASE buf[ctr] = Sep
    BY <1>2, <1>3, <1>4, <2>1, SepStep
  <2>2. CASE buf[ctr] # Sep
    BY <1>2, <1>3, <1>4, <2>2, DigitStep
  <2> QED
    BY <2>1, <2>2
<1> QED
  BY <1>1, <1>2, <1>5 DEF Follows, Safe

LEMMA ExecStep ==
    ASSUME ShellInv, exec_init, NEW m \in {line', prev'}, Source(m)'
    PROVE  Follows(m)'
<1>1. /\ UNCHANGED <<buf, line, prev>> /\ pc = "parse" /\ pc' = "run" /\ buf[ctr] = NUL
      /\ regs' = [args EXCEPT ![init_args[num]] = value]
  BY DEF exec_init
<1>2. Follows(m) /\ InBuffer(m)' /\ OkTail(m.tail)
  BY <1>1, SameSource
<1>3. PICK i \in Starts(m.tail) : Parsing(m.tail, i)
  BY <1>1, <1>2 DEF Follows
<1>4. ShellTypes /\ InBuffer(m)
  BY <1>2 DEF ShellInv, Follows
<1>5. PICK t : t = m.tail
  OBVIOUS
<1>6. /\ i \in 2 .. Len(t) /\ ctr \in 1 .. Len(t) /\ num \in 1 .. 5 /\ Len(t) \in Nat
  BY <1>2, <1>3, <1>4, <1>5, ParsingPlace DEF OkTail
<1>7. ctr = Len(t)
  BY <1>1, <1>2, <1>4, <1>5, <1>6, Sees
<1>8. value = Number(t, num)
  BY <1>2, <1>3, <1>4, <1>5, <1>7, ValueIs
<1>9. \A j \in Starts(t) : ~(i < j)
  <2> SUFFICES ASSUME NEW j \in Starts(t), i < j PROVE FALSE
    OBVIOUS
  <2>1. j \in 1 .. Len(t) /\ (j = 1 \/ t[j - 1] = Sep)
    BY DEF Starts
  <2>2. j - 1 \in i .. ctr /\ j # 1
    BY <1>6, <1>7, <2>1
  <2>3. t[j - 1] \in Digit
    BY <1>3, <1>5, <2>2 DEF Parsing
  <2> QED
    BY <2>1, <2>2, <2>3, DigitFacts
<1>10. num = NumArgs(t)
  BY <1>2, <1>3, <1>5, <1>9, RankBound DEF Parsing
<1>11. Arrived(t)'
  <2> SUFFICES ASSUME NEW k \in 1 .. num PROVE regs'[init_args[k]] = Number(t, k)
    BY <1>10 DEF Arrived
  <2>1. args \in [Fields -> 0 .. WRAP - 1]
    BY <1>4 DEF ShellTypes, TypeOK, Fields
  <2>2. k \in 1 .. 5 /\ init_args[k] \in Fields /\ init_args[num] \in Fields
    BY <1>6, FieldFacts
  <2>3. CASE k = num
    BY <1>1, <1>8, <2>1, <2>2, <2>3
  <2>4. CASE k # num
    <3>1. k \in 1 .. num - 1 /\ init_args[k] # init_args[num]
      BY <1>6, <2>2, <2>4, FieldFacts
    <3>2. args[init_args[k]] = Number(t, k)
      BY <1>3, <1>5, <3>1 DEF Parsing
    <3> QED
      BY <1>1, <2>1, <2>2, <3>1, <3>2
  <2> QED
    BY <2>3, <2>4
<1> QED
  BY <1>1, <1>2, <1>5, <1>11 DEF Follows, Safe

\* A line that is well-formed has at most five arguments.
LEMMA OverrunStep ==
    ASSUME ShellInv, overrun, NEW m \in {line', prev'}, Source(m)'
    PROVE  FALSE
<1>1. UNCHANGED <<buf, line, prev>> /\ pc = "parse" /\ num > 5
  BY DEF overrun
<1>2. Follows(m) /\ OkTail(m.tail)
  BY <1>1, SameSource
<1>3. PICK i \in Starts(m.tail) : Parsing(m.tail, i)
  BY <1>1, <1>2 DEF Follows
<1>4. ShellTypes
  BY DEF ShellInv
<1>5. num \in 1 .. 5
  BY <1>2, <1>3, <1>4, ParsingPlace
<1> QED
  BY <1>1, <1>5

\* The digits of a line that fits end before the buffer does.
LEMMA AstrayStep ==
    ASSUME ShellInv, astray, NEW m \in {line', prev'}, Source(m)'
    PROVE  FALSE
<1>1. UNCHANGED <<buf, line, prev>> /\ pc = "parse"
  BY DEF astray
<1>2. Follows(m) /\ OkTail(m.tail) /\ Len(m.tail) < Room
  BY <1>1, SameSource
<1>3. PICK i \in Starts(m.tail) : Parsing(m.tail, i)
  BY <1>1, <1>2 DEF Follows
<1>4. ShellTypes /\ InBuffer(m)
  BY <1>2 DEF ShellInv, Follows
<1>5. ctr \in 1 .. Len(m.tail)
  BY <1>2, <1>3, <1>4, ParsingPlace
<1>6. Len(m.tail) \in Nat /\ Room \in Nat
  BY <1>2, RoomAssumption DEF OkTail
<1>7. buf[ctr] = Sep /\ skip(ctr) = Room
  BY <1>2, <1>5, <1>6 DEF astray
<1>8. skip(ctr) \in ctr + 1 .. Len(m.tail) - 1
  BY <1>2, <1>4, <1>5, <1>7, SkipsTo
<1> QED
  BY <1>2, <1>6, <1>7, <1>8

LEMMA EndStep ==
    ASSUME ShellInv, program_ends, NEW m \in {line', prev'}, Source(m)'
    PROVE  Follows(m)'
<1>1. UNCHANGED <<buf, line, prev>> /\ pc' = "prompt"
  BY DEF program_ends
<1>2. InBuffer(m)'
  BY <1>1, SameSource
<1> QED
  BY <1>1, <1>2 DEF Follows, Safe

LEMMA StutterStep ==
    ASSUME ShellInv, UNCHANGED vars, NEW m \in {line', prev'}, Source(m)'
    PROVE  Follows(m)'
<1>1. UNCHANGED <<buf, line, prev, pc, args, regs, ctr, num, value>>
  BY DEF vars, parseVars
<1>2. Follows(m) /\ InBuffer(m)'
  BY <1>1, SameSource
<1>3. \A i : Parsing(m.tail, i) => Parsing(m.tail, i)'
  BY <1>1 DEF Parsing
<1>4. Arrived(m.tail) => Arrived(m.tail)'
  BY <1>1 DEF Arrived
<1> QED
  BY <1>1, <1>2, <1>3, <1>4 DEF Follows, Safe

LEMMA ShellAlways == Spec => []ShellInv
<1>1. Init => ShellInv
  <2> SUFFICES ASSUME Init PROVE ShellInv
    OBVIOUS
  <2>1. line = Short /\ prev = Short
    BY DEF Init
  <2>2. ~WellFormed(Short)
    BY DEF WellFormed, Short
  <2> QED
    BY <2>1, <2>2, InitTypes DEF ShellInv, Source
<1>2. ShellInv /\ [Next]_vars => ShellInv'
  <2> SUFFICES ASSUME ShellInv, [Next]_vars PROVE ShellInv'
    OBVIOUS
  <2>1. ShellTypes'
    BY NextTypes DEF ShellInv
  <2>2. ASSUME NEW m \in {line', prev'}, Source(m)' PROVE Follows(m)'
    <3>1. CASE \E l \in Lines : invoke_dsh(l)
      BY <2>2, <3>1, ReadStep
    <3>2. CASE parse_char
      BY <2>2, <3>2, ParseStep
    <3>3. CASE overrun
      BY <2>2, <3>3, OverrunStep
    <3>4. CASE exec_init
      BY <2>2, <3>4, ExecStep
    <3>5. CASE program_ends
      BY <2>2, <3>5, EndStep
    <3>6. CASE astray
      BY <2>2, <3>6, AstrayStep
    <3>7. CASE UNCHANGED vars
      BY <2>2, <3>7, StutterStep
    <3> QED
      BY <3>1, <3>2, <3>3, <3>4, <3>5, <3>6, <3>7 DEF Next
  <2> QED
    BY <2>1, <2>2 DEF ShellInv
<1> QED
  BY <1>1, <1>2, PTL DEF Spec

\* The parser is correct: the numbers of every well-formed line that fits the
\* buffer, with any number of digits, arrive in the fields of struct init_args
\* in order and modulo 2^64, and parse_init() neither stores behind the
\* arguments nor reads behind the buffer, whatever was typed before.
THEOREM NumbersArrive == Spec => []ArgsArrive
<1>1. ShellInv => ArgsArrive
  <2> SUFFICES ASSUME ShellInv, WellFormed(line), Fits(line)
               PROVE  Safe /\ (pc = "run" => Arrived(line.tail))
    BY DEF ArgsArrive, Arrived
  <2> QED
    BY DEF ShellInv, Source, Follows
<1> QED
  BY ShellAlways, <1>1, PTL

\* A bare init typed after any well-formed line starts the program with the
\* arguments of that line again, of whatever length: parse_init() starts one
\* cell behind the end serial_read() stored.
THEOREM BareInitReplays == Spec => []BareInitRepeats
<1>1. ShellInv => BareInitRepeats
  <2> SUFFICES ASSUME ShellInv, line = Bare, WellFormed(prev)
               PROVE  Safe /\ (pc = "run" => Arrived(prev.tail))
    BY DEF BareInitRepeats, Arrived, Bare
  <2>1. Fits(prev)
    BY DEF ShellInv, ShellTypes
  <2> QED
    BY <2>1 DEF ShellInv, Source, Follows
<1> QED
  BY ShellAlways, <1>1, PTL
=============================================================================
