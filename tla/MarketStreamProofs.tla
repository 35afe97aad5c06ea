--------------------------- MODULE MarketStreamProofs ---------------------------
(***************************************************************************)
(* What MCMarketStream checks on small instances, for every number of      *)
(* markets, sockets, events, books, trades, readers, orders and restarts:  *)
(* the registry and the rows, the socket and the registry, the books and   *)
(* the volume of the ticks (MarketStream), and the one connection to Redis *)
(* that prices wait behind reads on (PriceFeed).                           *)
(***************************************************************************)
EXTENDS MarketStream, PriceFeed, FiniteSetTheorems, TLAPS

-----------------------------------------------------------------------------
(***************************************************************************)
(* The connection to Redis.  A line of commands, one step at a time.       *)
(***************************************************************************)
Own      == {"price", "countdown", "request"}
Anyone   == [by : Readers \cup Own, waited : Nat, made : Nat, nth : Nat]
Ahead(p, s, i) == {r \in OwnReaders(p) : \E j \in 1..i : s[j].by = r}

(* What a command of line s of p has waited, with b ticks of the read that  *)
(* has its turn: a read of each loop of p that is no longer ahead of it.    *)
Waits(p, s, b) ==
    \A i \in 1..Len(s) :
        s[i].waited <= (Cardinality(OwnReaders(p)) - Cardinality(Ahead(p, s, i))) * Block + b

(* A loop awaits one command at a time, and only a read has blocked.        *)
Single(p, s) ==
    \A i, j \in 1..Len(s) : s[i].by = s[j].by /\ s[i].by \in OwnReaders(p) => i = j

Line(p, s, b) ==
    /\ s \in Seq(Anyone) /\ b \in 0..Block
    /\ b > 0 => s # <<>> /\ s[1].by \in OwnReaders(p)
    /\ Single(p, s)
    /\ Waits(p, s, b)

LEMMA OwnReadersFinite ==
    ASSUME NEW p
    PROVE  IsFiniteSet(OwnReaders(p)) /\ Cardinality(OwnReaders(p)) \in Nat /\ LongestWait(p) \in Nat
<1>1. IsFiniteSet(OwnReaders(p))
  BY LinkAssumption, FS_Subset DEF OwnReaders
<1>2. Cardinality(OwnReaders(p)) \in Nat
  BY <1>1, FS_CardinalityType
<1>3. \A m, n \in Nat : m * n \in Nat
  OBVIOUS
<1>4. Block \in Nat
  BY LinkAssumption
<1> QED BY <1>1, <1>2, <1>3, <1>4 DEF LongestWait

LEMMA AheadFinite ==
    ASSUME NEW p, NEW s, NEW i
    PROVE  /\ IsFiniteSet(Ahead(p, s, i))
           /\ Cardinality(Ahead(p, s, i)) \in 0..Cardinality(OwnReaders(p))
<1>1. Ahead(p, s, i) \subseteq OwnReaders(p)
  BY DEF Ahead
<1>2. /\ IsFiniteSet(Ahead(p, s, i))
      /\ Cardinality(Ahead(p, s, i)) <= Cardinality(OwnReaders(p))
  BY <1>1, OwnReadersFinite, FS_Subset
<1> QED BY <1>2, OwnReadersFinite, FS_CardinalityType

LEMMA AppendIs ==
    ASSUME NEW T, NEW s \in Seq(T), NEW c \in T
    PROVE  /\ Append(s, c) \in Seq(T) /\ Len(Append(s, c)) = Len(s) + 1 /\ Len(s) \in Nat
           /\ \A i \in 1..Len(s) : Append(s, c)[i] = s[i]
           /\ Append(s, c)[Len(s) + 1] = c
OBVIOUS

LEMMA TailIs ==
    ASSUME NEW T, NEW s \in Seq(T), s # <<>>
    PROVE  /\ Tail(s) \in Seq(T) /\ Len(Tail(s)) = Len(s) - 1 /\ Len(s) \in Nat \ {0}
           /\ \A i \in 1..Len(s) - 1 : Tail(s)[i] = s[i + 1]
           /\ Head(s) = s[1]
OBVIOUS

(* At the end of the line a command has waited for nothing.                 *)
LEMMA SentKeepsLine ==
    ASSUME NEW p, NEW s, NEW b, Line(p, s, b), NEW c \in Anyone, c.waited = 0,
           c.by \in OwnReaders(p) => \A i \in 1..Len(s) : s[i].by # c.by
    PROVE  Line(p, Append(s, c), b)
<1> DEFINE t == Append(s, c)
<1>1. /\ t \in Seq(Anyone) /\ Len(t) = Len(s) + 1 /\ Len(s) \in Nat
      /\ \A i \in 1..Len(s) : t[i] = s[i]
      /\ t[Len(s) + 1] = c
  BY AppendIs DEF Line
<1> HIDE DEF t
<1>2. b \in 0..Block /\ Block \in Nat
  BY LinkAssumption DEF Line
<1>3. b > 0 => t # <<>> /\ t[1].by \in OwnReaders(p)
  <2>1. ASSUME b > 0 PROVE t # <<>> /\ t[1].by \in OwnReaders(p)
    <3>1. s # <<>> /\ s[1].by \in OwnReaders(p) /\ s \in Seq(Anyone)
      BY <2>1 DEF Line
    <3>2. 1 \in 1..Len(s)
      BY <3>1
    <3> QED BY <1>1, <3>1, <3>2
  <2> QED BY <2>1
<1>4. Single(p, t)
  BY <1>1 DEF Line, Single
<1>5. ASSUME NEW i \in 1..Len(t)
      PROVE  t[i].waited <= (Cardinality(OwnReaders(p)) - Cardinality(Ahead(p, t, i))) * Block + b
  <2>1. CASE i \in 1..Len(s)
    <3>1. Ahead(p, t, i) = Ahead(p, s, i)
      BY <1>1, <2>1 DEF Ahead
    <3> QED BY <1>1, <2>1, <3>1 DEF Line, Waits
  <2>2. CASE i = Len(s) + 1
    <3>1. Cardinality(OwnReaders(p)) - Cardinality(Ahead(p, t, i)) \in Nat
      BY AheadFinite, OwnReadersFinite
    <3>2. (Cardinality(OwnReaders(p)) - Cardinality(Ahead(p, t, i))) * Block \in Nat
      BY <1>2, <3>1
    <3> QED BY <1>1, <1>2, <2>2, <3>2
  <2> QED BY <1>1, <2>1, <2>2
<1> QED BY <1>1, <1>2, <1>3, <1>4, <1>5 DEF Line, Waits, t

(* When the first has its answer, what waited for it waits for one read     *)
(* less, if it was one.                                                     *)
LEMMA AnsweredKeepsLine ==
    ASSUME NEW p, NEW s, NEW b, Line(p, s, b), s # <<>>
    PROVE  Line(p, Tail(s), 0)
<1> DEFINE t == Tail(s)
           N == Cardinality(OwnReaders(p))
<1>1. /\ t \in Seq(Anyone) /\ Len(t) = Len(s) - 1 /\ Len(s) \in Nat \ {0}
      /\ \A i \in 1..Len(s) - 1 : t[i] = s[i + 1]
  BY TailIs DEF Line
<1> HIDE DEF t
<1>2. b \in 0..Block /\ Block \in Nat /\ 0 \in 0..Block
  BY LinkAssumption DEF Line
<1>3. Single(p, t)
  <2> SUFFICES ASSUME NEW i \in 1..Len(t), NEW j \in 1..Len(t),
                      t[i].by = t[j].by, t[i].by \in OwnReaders(p)
               PROVE  i = j
    BY DEF Single
  <2>1. i + 1 \in 1..Len(s) /\ j + 1 \in 1..Len(s) /\ t[i] = s[i + 1] /\ t[j] = s[j + 1]
    BY <1>1
  <2>2. i + 1 = j + 1
    BY <2>1 DEF Line, Single
  <2> QED BY <2>2
<1>4. ASSUME NEW i \in 1..Len(t)
      PROVE  t[i].waited <= (N - Cardinality(Ahead(p, t, i))) * Block + 0
  <2>0. i \in Nat /\ i + 1 \in 1..Len(s) /\ 1 \in 1..Len(s) /\ t[i] = s[i + 1]
    BY <1>1
  <2>1. t[i].waited <= (N - Cardinality(Ahead(p, s, i + 1))) * Block + b
    BY <2>0 DEF Line, Waits
  <2>2. /\ N \in Nat /\ Cardinality(Ahead(p, s, i + 1)) \in Nat /\ Cardinality(Ahead(p, t, i)) \in Nat
        /\ t[i].waited \in Nat
    <3>1. t[i] \in Anyone
      BY <1>1
    <3> QED BY <3>1, AheadFinite, OwnReadersFinite DEF Anyone
  <2>3. Ahead(p, t, i) = Ahead(p, s, i + 1) \ {s[1].by}
    <3>1. ASSUME NEW r \in OwnReaders(p), NEW j \in 1..i, t[j].by = r
          PROVE  r \in Ahead(p, s, i + 1) /\ r # s[1].by
      <4>1. j + 1 \in 1..i + 1 /\ j + 1 \in 1..Len(s) /\ j + 1 # 1 /\ t[j] = s[j + 1]
        BY <1>1
      <4> QED BY <2>0, <3>1, <4>1 DEF Ahead, Line, Single
    <3>2. ASSUME NEW r \in OwnReaders(p), NEW j \in 1..i + 1, s[j].by = r, r # s[1].by
          PROVE  r \in Ahead(p, t, i)
      <4>1. j # 1
        BY <3>2
      <4>2. j - 1 \in 1..i /\ j - 1 \in 1..Len(s) - 1 /\ (j - 1) + 1 = j
        BY <1>1, <4>1
      <4>3. t[j - 1] = s[j]
        BY <1>1, <4>2
      <4> QED BY <3>2, <4>2, <4>3 DEF Ahead
    <3> QED BY <3>1, <3>2 DEF Ahead
  <2>4. CASE s[1].by \in OwnReaders(p)
    <3>1. s[1].by \in Ahead(p, s, i + 1)
      BY <2>0, <2>4 DEF Ahead
    <3> DEFINE A == Cardinality(Ahead(p, s, i + 1))
               B == Cardinality(Ahead(p, t, i))
    <3>2. B = A - 1
      <4>1. IsFiniteSet(Ahead(p, s, i + 1))
        BY AheadFinite
      <4>2. Cardinality(Ahead(p, s, i + 1) \ {s[1].by}) = Cardinality(Ahead(p, s, i + 1)) - 1
        BY <3>1, <4>1, FS_RemoveElement
      <4> QED BY <2>3, <4>2
    <3>3. t[i].waited <= (N - A) * Block + b /\ N \in Nat /\ A \in Nat /\ t[i].waited \in Nat
      BY <2>1, <2>2
    <3> HIDE DEF A, B, N
    <3>4. (N - (A - 1)) * Block = (N - A) * Block + Block
      BY <1>2, <3>3
    <3>5. (N - A) * Block \in Int
      BY <1>2, <3>3
    <3>6. t[i].waited <= (N - B) * Block + 0
      BY <1>2, <3>2, <3>3, <3>4, <3>5
    <3> QED BY <3>6 DEF B
  <2>5. CASE s[1].by \notin OwnReaders(p)
    <3>1. b = 0
      BY <1>2, <2>5 DEF Line
    <3>2. Ahead(p, t, i) = Ahead(p, s, i + 1)
      BY <2>3, <2>5 DEF Ahead
    <3> QED BY <2>1, <3>1, <3>2
  <2> QED BY <2>4, <2>5
<1> QED BY <1>1, <1>2, <1>3, <1>4 DEF Line, Waits, t

Older(s) == [i \in DOMAIN s |-> [s[i] EXCEPT !.waited = @ + 1, !.made = @ + 1]]

LEMMA OlderIs ==
    ASSUME NEW s \in Seq(Anyone)
    PROVE  /\ Older(s) \in Seq(Anyone) /\ Len(Older(s)) = Len(s)
           /\ \A i \in 1..Len(s) :
                 /\ Older(s)[i] \in Anyone
                 /\ Older(s)[i].by = s[i].by /\ Older(s)[i].nth = s[i].nth
                 /\ Older(s)[i].waited = s[i].waited + 1 /\ Older(s)[i].made = s[i].made + 1
<1>1. Len(s) \in Nat /\ DOMAIN s = 1..Len(s) /\ \A i \in 1..Len(s) : s[i] \in Anyone
  OBVIOUS
<1>2. ASSUME NEW c \in Anyone
      PROVE  /\ [c EXCEPT !.waited = @ + 1, !.made = @ + 1] \in Anyone
             /\ [c EXCEPT !.waited = @ + 1, !.made = @ + 1].by = c.by
             /\ [c EXCEPT !.waited = @ + 1, !.made = @ + 1].nth = c.nth
             /\ [c EXCEPT !.waited = @ + 1, !.made = @ + 1].waited = c.waited + 1
             /\ [c EXCEPT !.waited = @ + 1, !.made = @ + 1].made = c.made + 1
  <2>1. c.waited + 1 \in Nat /\ c.made + 1 \in Nat
    BY DEF Anyone
  <2>2. \A v, w \in Nat : [c EXCEPT !.waited = v, !.made = w] \in Anyone
    BY DEF Anyone
  <2>3. [c EXCEPT !.waited = @ + 1, !.made = @ + 1] \in Anyone
    BY <2>1, <2>2, Zenon
  <2> QED BY <2>3 DEF Anyone
<1>3. \A i \in 1..Len(s) : Older(s)[i] = [s[i] EXCEPT !.waited = @ + 1, !.made = @ + 1]
  BY <1>1 DEF Older
<1>4. \A i \in 1..Len(s) :
         /\ Older(s)[i] \in Anyone
         /\ Older(s)[i].by = s[i].by /\ Older(s)[i].nth = s[i].nth
         /\ Older(s)[i].waited = s[i].waited + 1 /\ Older(s)[i].made = s[i].made + 1
  BY <1>1, <1>2, <1>3
<1>5. Older(s) \in [1..Len(s) -> Anyone]
  <2>1. Older(s) = [i \in 1..Len(s) |-> Older(s)[i]]
    BY <1>1 DEF Older
  <2> QED BY <1>4, <2>1
<1>6. Older(s) \in Seq(Anyone) /\ Len(Older(s)) = Len(s)
  BY <1>1, <1>5
<1> QED BY <1>4, <1>6

(* A tick in which the read that has its turn blocks.                       *)
LEMMA BlockedKeepsLine ==
    ASSUME NEW p, NEW s, NEW b, Line(p, s, b), s # <<>>, s[1].by \in OwnReaders(p), b < Block
    PROVE  Line(p, Older(s), b + 1)
<1> DEFINE t == Older(s)
<1>1. s \in Seq(Anyone) /\ b \in 0..Block /\ Block \in Nat /\ Len(s) \in Nat
  BY LinkAssumption DEF Line
<1>2. \A i \in 1..Len(s) : s[i] \in Anyone
  BY <1>1
<1>3. ASSUME NEW i \in 1..Len(s)
      PROVE  /\ t[i] \in Anyone /\ t[i].by = s[i].by /\ t[i].waited = s[i].waited + 1
  BY <1>1, OlderIs
<1>4. t \in Seq(Anyone) /\ Len(t) = Len(s)
  BY <1>1, OlderIs
<1> HIDE DEF t
<1>5. t # <<>> /\ t[1].by \in OwnReaders(p)
  <2>1. 1 \in 1..Len(s)
    BY <1>1
  <2> QED BY <1>3, <1>4, <2>1
<1>6. Single(p, t)
  BY <1>3, <1>4 DEF Line, Single
<1>7. ASSUME NEW i \in 1..Len(t)
      PROVE  t[i].waited <= (Cardinality(OwnReaders(p)) - Cardinality(Ahead(p, t, i))) * Block + (b + 1)
  <2>1. Ahead(p, t, i) = Ahead(p, s, i)
    BY <1>2, <1>3, <1>4 DEF Ahead
  <2>2. s[i].waited <= (Cardinality(OwnReaders(p)) - Cardinality(Ahead(p, s, i))) * Block + b
    BY <1>4 DEF Line, Waits
  <2>3. (Cardinality(OwnReaders(p)) - Cardinality(Ahead(p, s, i))) * Block \in Int
    <3>1. Cardinality(OwnReaders(p)) \in Nat /\ Cardinality(Ahead(p, s, i)) \in Nat
      BY AheadFinite, OwnReadersFinite
    <3>2. \A x \in Int : x * Block \in Int
      BY <1>1
    <3> QED BY <3>1, <3>2
  <2>4. s[i].waited \in Nat /\ t[i].waited = s[i].waited + 1
    BY <1>2, <1>3, <1>4 DEF Anyone
  <2> QED BY <1>1, <2>1, <2>2, <2>3, <2>4
<1>8. b + 1 \in 0..Block
  BY <1>1
<1> QED BY <1>4, <1>5, <1>6, <1>7, <1>8 DEF Line, Waits, t

(* So a command has waited for one read of each loop at most.               *)
LEMMA WaitOfLine ==
    ASSUME NEW p, NEW s, NEW b, Line(p, s, b), NEW i \in 1..Len(s)
    PROVE  s[i].waited <= LongestWait(p)
<1> DEFINE N == Cardinality(OwnReaders(p))
           A == Cardinality(Ahead(p, s, i))
<1>1. N \in Nat /\ A \in 0..N /\ Block \in Nat /\ b \in 0..Block
  BY AheadFinite, OwnReadersFinite, LinkAssumption DEF Line
<1>2. s[i].waited <= (N - A) * Block + b
  BY DEF Line, Waits
<1>3. s[i].waited \in Nat
  <2>1. s[i] \in Anyone
    BY DEF Line
  <2> QED BY <2>1 DEF Anyone
<1>4. (N - A) * Block + b <= N * Block
  <2>1. \A x, y \in Nat : x * y \in Nat
    OBVIOUS
  <2>2. CASE b = 0
    <3>1. (N - A) * Block + A * Block = N * Block
      BY <1>1
    <3> QED BY <1>1, <2>1, <2>2, <3>1
  <2>3. CASE b > 0
    <3>1. s[1].by \in Ahead(p, s, i)
      BY <2>3 DEF Line, Ahead
    <3>2. A # 0
      BY <3>1, AheadFinite, FS_EmptySet
    <3> HIDE DEF A, N
    <3>3. A - 1 \in Nat /\ N - A \in Nat
      BY <1>1, <3>2
    <3>4. (N - A) * Block + Block + (A - 1) * Block = N * Block
      BY <1>1
    <3>5. (A - 1) * Block \in Nat /\ (N - A) * Block \in Nat
      BY <1>1, <2>1, <3>3
    <3>6. b <= Block /\ N * Block \in Nat
      BY <1>1, <2>1
    <3> QED BY <1>1, <3>4, <3>5, <3>6
  <2> QED BY <1>1, <2>2, <2>3
<1>5. (N - A) * Block \in Int /\ N * Block \in Int
  BY <1>1
<1> QED BY <1>1, <1>2, <1>3, <1>4, <1>5 DEF LongestWait
-----------------------------------------------------------------------------
(* The lines of both processes, and the loops: one that has nothing to await*)
(* has no command in line.                                                  *)
Absent(by, s) == \A i \in 1..Len(s) : s[i].by # by

LinesOK ==
    /\ line \in [Processes -> Seq(Anyone)] /\ blocked \in [Processes -> 0..Block]
    /\ \A p \in Processes : Line(p, line[p], blocked[p])

LoopsOK ==
    /\ loop \in [Readers -> {"ready", "reading", "acking", "resting"}]
    /\ \A r \in Readers : loop[r] \in {"ready", "resting"} => Absent(r, line[ReaderOf[r]])

LEMMA OneLineChanges ==
    ASSUME LinesOK, NEW p \in Processes, NEW s \in Seq(Anyone), NEW b \in 0..Block,
           line' = [line EXCEPT ![p] = s], blocked' = [blocked EXCEPT ![p] = b], Line(p, s, b)
    PROVE  /\ LinesOK' /\ line'[p] = s /\ blocked'[p] = b
           /\ \A q \in Processes \ {p} : line'[q] = line[q] /\ blocked'[q] = blocked[q]
<1>1. /\ line'[p] = s /\ blocked'[p] = b
      /\ \A q \in Processes \ {p} : line'[q] = line[q] /\ blocked'[q] = blocked[q]
  BY DEF LinesOK
<1>2. line' \in [Processes -> Seq(Anyone)] /\ blocked' \in [Processes -> 0..Block]
  BY DEF LinesOK
<1>3. ASSUME NEW q \in Processes
      PROVE  Line(q, line'[q], blocked'[q])
  <2>1. CASE q = p
    BY <1>1, <2>1
  <2>2. CASE q # p
    BY <1>1, <2>2 DEF LinesOK
  <2> QED BY <2>1, <2>2
<1> QED BY <1>1, <1>2, <1>3 DEF LinesOK

LEMMA LineIs ==
    ASSUME LinesOK, NEW p \in Processes
    PROVE  /\ Line(p, line[p], blocked[p]) /\ line[p] \in Seq(Anyone) /\ Len(line[p]) \in Nat
           /\ blocked[p] \in 0..Block
BY DEF LinesOK

LEMMA ZeroBlocked == 0 \in 0..Block
BY LinkAssumption

LEMMA SendKeepsLines ==
    ASSUME LinesOK, NEW p \in Processes, NEW c \in Anyone, c.waited = 0,
           c.by \in OwnReaders(p) => Absent(c.by, line[p]),
           Send(p, c), UNCHANGED blocked
    PROVE  /\ LinesOK' /\ line'[p] = Append(line[p], c)
           /\ \A q \in Processes \ {p} : line'[q] = line[q]
<1>1. Line(p, line[p], blocked[p]) /\ line[p] \in Seq(Anyone)
  BY LineIs
<1>2. Line(p, Append(line[p], c), blocked[p])
  BY <1>1, SentKeepsLine DEF Absent
<1>3. line' = [line EXCEPT ![p] = Append(line[p], c)]
  BY DEF Send
<1>4. blocked' = [blocked EXCEPT ![p] = blocked[p]]
  BY DEF LinesOK
<1>5. Append(line[p], c) \in Seq(Anyone)
  BY <1>1, AppendIs
<1> QED BY <1>2, <1>3, <1>4, <1>5, LineIs, OneLineChanges

LEMMA AnswerKeepsLines ==
    ASSUME LinesOK, NEW p \in Processes, line[p] # <<>>, Answer(p)
    PROVE  /\ LinesOK' /\ line'[p] = Tail(line[p])
           /\ \A q \in Processes \ {p} : line'[q] = line[q]
<1>1. Line(p, line[p], blocked[p]) /\ line[p] \in Seq(Anyone)
  BY LineIs
<1>2. Line(p, Tail(line[p]), 0)
  BY <1>1, AnsweredKeepsLine
<1>3. line' = [line EXCEPT ![p] = Tail(line[p])] /\ blocked' = [blocked EXCEPT ![p] = 0]
  BY DEF Answer
<1>4. Tail(line[p]) \in Seq(Anyone)
  BY <1>1, TailIs
<1> QED BY <1>2, <1>3, <1>4, ZeroBlocked, OneLineChanges

(* The first is answered, and what it sends goes to the end.                *)
Next1(s, c) == Append(Tail(s), c)

LEMMA Next1Is ==
    ASSUME NEW s \in Seq(Anyone), s # <<>>, NEW c \in Anyone
    PROVE  /\ Next1(s, c) \in Seq(Anyone) /\ Len(Next1(s, c)) = Len(s) /\ Len(s) \in Nat \ {0}
           /\ \A i \in 1..Len(s) - 1 : Next1(s, c)[i] = s[i + 1]
           /\ Next1(s, c)[Len(s)] = c
           /\ Head(s) = s[1] /\ s[1] \in Anyone
<1>1. /\ Tail(s) \in Seq(Anyone) /\ Len(Tail(s)) = Len(s) - 1 /\ Len(s) \in Nat \ {0}
      /\ \A i \in 1..Len(s) - 1 : Tail(s)[i] = s[i + 1]
      /\ Head(s) = s[1]
  BY TailIs
<1> DEFINE t == Tail(s)
<1> HIDE DEF t
<1>2. /\ t \in Seq(Anyone) /\ Len(t) = Len(s) - 1
      /\ \A i \in 1..Len(s) - 1 : t[i] = s[i + 1]
  BY <1>1 DEF t
<1>3. /\ Append(t, c) \in Seq(Anyone) /\ Len(Append(t, c)) = Len(t) + 1
      /\ \A i \in 1..Len(t) : Append(t, c)[i] = t[i]
      /\ Append(t, c)[Len(t) + 1] = c
  BY <1>2, AppendIs
<1>4. s[1] \in Anyone
  BY <1>1
<1>5. Next1(s, c) = Append(t, c)
  BY DEF Next1, t
<1>6. Len(t) + 1 = Len(s) /\ Len(t) = Len(s) - 1
  BY <1>1, <1>2
<1> DEFINE u == Append(t, c)
<1> HIDE DEF u
<1>7. /\ u \in Seq(Anyone) /\ Len(u) = Len(s)
      /\ \A i \in 1..Len(s) - 1 : u[i] = t[i]
      /\ u[Len(s)] = c
  BY <1>3, <1>6 DEF u
<1>8. \A i \in 1..Len(s) - 1 : u[i] = s[i + 1]
  BY <1>2, <1>7
<1> QED BY <1>1, <1>4, <1>5, <1>7, <1>8 DEF u

LEMMA AnswerAndSendKeepsLines ==
    ASSUME LinesOK, NEW p \in Processes, line[p] # <<>>, NEW c \in Anyone, c.waited = 0,
           c.by \in OwnReaders(p) => c.by = Head(line[p]).by,
           AnswerAndSend(p, c)
    PROVE  /\ LinesOK' /\ line'[p] = Next1(line[p], c)
           /\ \A q \in Processes \ {p} : line'[q] = line[q]
<1> DEFINE s == line[p]
           t == Tail(s)
<1>1. Line(p, s, blocked[p]) /\ s \in Seq(Anyone)
  BY LineIs
<1>2. Line(p, t, 0)
  BY <1>1, AnsweredKeepsLine
<1>3. /\ t \in Seq(Anyone) /\ Len(t) = Len(s) - 1 /\ Len(s) \in Nat \ {0}
      /\ \A i \in 1..Len(s) - 1 : t[i] = s[i + 1]
      /\ Head(s) = s[1]
  BY <1>1, TailIs
<1>4. ASSUME c.by \in OwnReaders(p), NEW i \in 1..Len(t)
      PROVE  t[i].by # c.by
  <2>1. i + 1 \in 1..Len(s) /\ i + 1 # 1 /\ 1 \in 1..Len(s) /\ t[i] = s[i + 1]
    BY <1>3
  <2>2. s[1].by = c.by
    BY <1>3, <1>4
  <2>3. Single(p, s)
    BY <1>1 DEF Line
  <2> HIDE DEF s, t
  <2> QED BY <1>4, <2>1, <2>2, <2>3 DEF Single
<1>5. Line(p, Append(t, c), 0)
  <2> HIDE DEF t
  <2> QED BY <1>2, <1>4, SentKeepsLine
<1>6. Append(t, c) \in Seq(Anyone)
  <2> HIDE DEF t
  <2> QED BY <1>3, AppendIs
<1>7. line' = [line EXCEPT ![p] = Append(t, c)] /\ blocked' = [blocked EXCEPT ![p] = 0]
  BY DEF AnswerAndSend
<1>8. Append(t, c) = Next1(s, c)
  BY DEF Next1
<1> QED BY <1>5, <1>6, <1>7, <1>8, ZeroBlocked, OneLineChanges

LEMMA CommandIs ==
    ASSUME NEW by \in Readers \cup Own, NEW made \in Nat, NEW nth \in Nat
    PROVE  /\ Command(by, made, nth) \in Anyone
           /\ Command(by, made, nth).by = by /\ Command(by, made, nth).waited = 0
           /\ Command(by, made, nth).made = made /\ Command(by, made, nth).nth = nth
BY DEF Command, Anyone

(* Losing a connection clears its line.                                     *)
LEMMA LostKeepsLines ==
    ASSUME LinesOK, LoopsOK, NEW p \in Processes, Lost(p)
    PROVE  /\ LinesOK' /\ LoopsOK' /\ line'[p] = <<>>
           /\ \A q \in Processes \ {p} : line'[q] = line[q]
<1>1. line' = [line EXCEPT ![p] = <<>>] /\ blocked' = [blocked EXCEPT ![p] = 0]
  BY DEF Lost
<1>2. Line(p, <<>>, 0)
  BY ZeroBlocked DEF Line, Single, Waits
<1>3. <<>> \in Seq(Anyone)
  OBVIOUS
<1>4. /\ LinesOK' /\ line'[p] = <<>>
      /\ \A q \in Processes \ {p} : line'[q] = line[q]
  BY <1>1, <1>2, <1>3, ZeroBlocked, OneLineChanges
<1>5. loop' \in [Readers -> {"ready", "reading", "acking", "resting"}]
  BY DEF Lost, LoopsOK
<1>6. ASSUME NEW r \in Readers, loop'[r] \in {"ready", "resting"}
      PROVE  Absent(r, line'[ReaderOf[r]])
  <2>1. CASE ReaderOf[r] = p
    BY <1>4, <2>1 DEF Absent
  <2>2. CASE ReaderOf[r] # p
    <3>1. ReaderOf[r] \in Processes /\ loop'[r] = loop[r]
      BY <2>2, LinkAssumption DEF Lost, LoopsOK
    <3> QED BY <1>4, <1>6, <2>2, <3>1 DEF LoopsOK
  <2> QED BY <2>1, <2>2
<1> QED BY <1>4, <1>5, <1>6 DEF LoopsOK

(* A tick: every line has blocked, or is empty.                             *)
LEMMA TickKeepsLines ==
    ASSUME LinesOK, LoopsOK, LinkTick
    PROVE  /\ LinesOK' /\ LoopsOK'
           /\ \A p \in Processes : line'[p] = Older(line[p])
<1>1. /\ line' = [p \in Processes |-> Older(line[p])]
      /\ blocked' = [p \in Processes |-> IF BlockedRead(p) THEN blocked[p] + 1 ELSE blocked[p]]
      /\ loop' = [r \in Readers |-> IF loop[r] = "resting" THEN "ready" ELSE loop[r]]
  BY DEF LinkTick, Older
<1>2. ASSUME NEW p \in Processes
      PROVE  /\ Line(p, line'[p], blocked'[p]) /\ line'[p] = Older(line[p])
             /\ line'[p] \in Seq(Anyone) /\ blocked'[p] \in 0..Block
  <2>1. line'[p] = Older(line[p])
    BY <1>1
  <2>2. Line(p, line[p], blocked[p]) /\ line[p] \in Seq(Anyone) /\ blocked[p] \in 0..Block
    BY LineIs
  <2>3. CASE BlockedRead(p)
    <3>1. blocked'[p] = blocked[p] + 1
      BY <1>1, <2>3
    <3>2. line[p] # <<>> /\ Head(line[p]).by \in OwnReaders(p) /\ blocked[p] < Block
      BY <2>3 DEF BlockedRead, Turn
    <3>3. line[p][1].by \in OwnReaders(p)
      BY <2>2, <3>2, TailIs
    <3>4. Line(p, Older(line[p]), blocked[p] + 1)
      BY <2>2, <3>2, <3>3, BlockedKeepsLine
    <3> QED BY <2>1, <3>1, <3>4 DEF Line
  <2>4. CASE ~BlockedRead(p)
    <3>1. line[p] = <<>> /\ blocked'[p] = blocked[p]
      BY <1>1, <2>4 DEF LinkTick, MayTick
    <3>2. Older(line[p]) = <<>>
      BY <3>1 DEF Older
    <3> QED BY <2>1, <2>2, <3>1, <3>2
  <2> QED BY <2>3, <2>4
<1>3. LinesOK'
  BY <1>1, <1>2 DEF LinesOK
<1>4. ASSUME NEW r \in Readers, loop'[r] \in {"ready", "resting"}
      PROVE  Absent(r, line'[ReaderOf[r]])
  <2>1. loop[r] \in {"ready", "resting"} /\ ReaderOf[r] \in Processes
    BY <1>1, <1>4, LinkAssumption
  <2>2. Absent(r, line[ReaderOf[r]])
    BY <2>1 DEF LoopsOK
  <2>3. line'[ReaderOf[r]] = Older(line[ReaderOf[r]]) /\ line[ReaderOf[r]] \in Seq(Anyone)
    BY <1>2, <2>1, LineIs
  <2> QED BY <2>2, <2>3, OlderIs DEF Absent
<1>5. loop' \in [Readers -> {"ready", "reading", "acking", "resting"}]
  BY <1>1 DEF LoopsOK
<1> QED BY <1>2, <1>3, <1>4, <1>5 DEF LoopsOK

(* The loops after a step of anything that is not one of them,              *)
LEMMA OthersKeepLoops ==
    ASSUME LoopsOK, LinesOK, UNCHANGED loop, NEW p \in Processes,
           \A q \in Processes \ {p} : line'[q] = line[q],
           \A r \in Readers : Absent(r, line[p]) => Absent(r, line'[p])
    PROVE  LoopsOK'
<1>1. \A r \in Readers : ReaderOf[r] \in Processes
  BY LinkAssumption
<1> QED BY <1>1 DEF LoopsOK

LEMMA AbsentAfter ==
    ASSUME NEW s \in Seq(Anyone), NEW c \in Anyone, NEW r, c.by # r, Absent(r, s)
    PROVE  /\ Absent(r, Append(s, c))
           /\ s # <<>> => Absent(r, Tail(s)) /\ Absent(r, Next1(s, c))
<1>1. Absent(r, Append(s, c))
  BY AppendIs DEF Absent
<1>2. ASSUME s # <<>>
      PROVE  Absent(r, Tail(s))
  <2>1. /\ Len(Tail(s)) = Len(s) - 1 /\ Len(s) \in Nat \ {0}
        /\ \A i \in 1..Len(s) - 1 : Tail(s)[i] = s[i + 1]
    BY <1>2, TailIs
  <2>2. ASSUME NEW i \in 1..Len(Tail(s)) PROVE Tail(s)[i].by # r
    <3>1. i + 1 \in 1..Len(s) /\ Tail(s)[i] = s[i + 1]
      BY <2>1
    <3> QED BY <3>1 DEF Absent
  <2> QED BY <2>2 DEF Absent
<1>3. ASSUME s # <<>>
      PROVE  Absent(r, Next1(s, c))
  <2>1. /\ Len(Next1(s, c)) = Len(s) /\ Len(s) \in Nat \ {0}
        /\ \A i \in 1..Len(s) - 1 : Next1(s, c)[i] = s[i + 1]
        /\ Next1(s, c)[Len(s)] = c
    BY <1>3, Next1Is
  <2>2. ASSUME NEW i \in 1..Len(s) PROVE Next1(s, c)[i].by # r
    <3>1. CASE i = Len(s)
      BY <2>1, <3>1
    <3>2. CASE i # Len(s)
      <4>1. i + 1 \in 1..Len(s) /\ Next1(s, c)[i] = s[i + 1]
        BY <2>1, <3>2
      <4> QED BY <4>1 DEF Absent
    <3> QED BY <3>1, <3>2
  <2> QED BY <2>1, <2>2 DEF Absent
<1> QED BY <1>1, <1>2, <1>3

(* and of one.                                                              *)
LEMMA ReaderKeepsLines ==
    ASSUME LinesOK, LoopsOK, NEW r \in Readers, Ask(r) \/ Answered(r)
    PROVE  /\ LinesOK' /\ LoopsOK'
           /\ \A q \in Processes \ {ReaderOf[r]} : line'[q] = line[q]
           /\ \/ line'[ReaderOf[r]] = Append(line[ReaderOf[r]], Command(r, 0, 0))
              \/ /\ line[ReaderOf[r]] # <<>> /\ Head(line[ReaderOf[r]]).by = r
                 /\ line'[ReaderOf[r]] = Next1(line[ReaderOf[r]], Command(r, 0, 0))
<1> DEFINE p == ReaderOf[r]
           c == Command(r, 0, 0)
<1>1. p \in Processes /\ c \in Anyone /\ c.by = r /\ c.waited = 0
  BY CommandIs, LinkAssumption
<1>2. line[p] \in Seq(Anyone)
  BY <1>1, LineIs
<1> HIDE DEF c
<1>3. CASE Ask(r)
  <2>1. Send(p, c) /\ UNCHANGED blocked /\ loop[r] = "ready" /\ loop' = [loop EXCEPT ![r] = "reading"]
    BY <1>3 DEF Ask, c
  <2>2. Absent(c.by, line[p])
    BY <1>1, <2>1 DEF LoopsOK
  <2>3. /\ LinesOK' /\ line'[p] = Append(line[p], c)
        /\ \A q \in Processes \ {p} : line'[q] = line[q]
    BY <1>1, <2>1, <2>2, SendKeepsLines
  <2>4. LoopsOK'
    <3>1. loop' \in [Readers -> {"ready", "reading", "acking", "resting"}]
      BY <2>1 DEF LoopsOK
    <3>2. ASSUME NEW q \in Readers, loop'[q] \in {"ready", "resting"}
          PROVE  Absent(q, line'[ReaderOf[q]])
      <4>1. q # r /\ loop'[q] = loop[q] /\ ReaderOf[q] \in Processes
        BY <2>1, <3>2, LinkAssumption DEF LoopsOK
      <4>2. Absent(q, line[ReaderOf[q]])
        BY <3>2, <4>1 DEF LoopsOK
      <4>3. CASE ReaderOf[q] = p
        BY <1>1, <1>2, <2>3, <4>1, <4>2, <4>3, AbsentAfter
      <4>4. CASE ReaderOf[q] # p
        BY <2>3, <4>1, <4>2, <4>4
      <4> QED BY <4>3, <4>4
    <3> QED BY <3>1, <3>2 DEF LoopsOK
  <2> QED BY <2>3, <2>4 DEF c
<1>4. CASE Answered(r)
  <2>1. /\ line[p] # <<>> /\ Head(line[p]).by = r /\ AnswerAndSend(p, c)
        /\ loop' = [loop EXCEPT ![r] = "acking"] \/ loop' = [loop EXCEPT ![r] = "reading"]
    BY <1>4 DEF Answered, Turn, c
  <2>2. /\ LinesOK' /\ line'[p] = Next1(line[p], c)
        /\ \A q \in Processes \ {p} : line'[q] = line[q]
    BY <1>1, <2>1, AnswerAndSendKeepsLines
  <2>3. LoopsOK'
    <3>1. loop' \in [Readers -> {"ready", "reading", "acking", "resting"}]
      BY <2>1 DEF LoopsOK
    <3>2. ASSUME NEW q \in Readers, loop'[q] \in {"ready", "resting"}
          PROVE  Absent(q, line'[ReaderOf[q]])
      <4>1. q # r /\ loop'[q] = loop[q] /\ ReaderOf[q] \in Processes
        BY <2>1, <3>2, LinkAssumption DEF LoopsOK
      <4>2. Absent(q, line[ReaderOf[q]])
        BY <3>2, <4>1 DEF LoopsOK
      <4>3. CASE ReaderOf[q] = p
        BY <1>1, <1>2, <2>1, <2>2, <4>1, <4>2, <4>3, AbsentAfter
      <4>4. CASE ReaderOf[q] # p
        BY <2>2, <4>1, <4>2, <4>4
      <4> QED BY <4>3, <4>4
    <3> QED BY <3>1, <3>2 DEF LoopsOK
  <2> QED BY <2>1, <2>2, <2>3 DEF c
<1> QED BY <1>3, <1>4
-----------------------------------------------------------------------------
(***************************************************************************)
(* What is in line in market-stream.  The countdown of the n-th market has *)
(* the ages of n - 1 waits before its own; prices are written in the order *)
(* they came in; and a price that came in a ticks ago, with none lost since*)
(* is cached, or a younger one, or still in line.                          *)
(***************************************************************************)
Entered(s) == {s[i] : i \in 1..Len(s)}

CountdownOK(c) ==
    c.by = "countdown" =>
        c.nth >= 1 /\ c.made <= c.waited + (c.nth - 1) * LongestWait(stream)

ByStream(c) == c.by \in OwnReaders(stream) \cup {"price", "countdown"}

Prices(s, age) ==
    /\ \A i \in 1..Len(s) : s[i].by = "price" => s[i].made = s[i].waited /\ s[i].made <= age
    /\ \A i, j \in 1..Len(s) :
          i < j /\ s[i].by = "price" /\ s[j].by = "price" => s[j].made <= s[i].made

Known(s, age, a) == age <= a \/ \E i \in 1..Len(s) : s[i].by = "price" /\ s[i].made = a

Fed(s, age, n, now) == \A a \in Nat : a < n /\ (a > 0 \/ now) => Known(s, age, a)

StreamLine(s, age, n, now) ==
    /\ \A c \in Entered(s) : ByStream(c) /\ CountdownOK(c)
    /\ Prices(s, age)
    /\ Fed(s, age, n, now)

LEMMA OwnAreNoReaders ==
    ASSUME NEW p
    PROVE  /\ OwnReaders(p) \subseteq Readers /\ "price" \notin OwnReaders(p)
           /\ "countdown" \notin OwnReaders(p) /\ "request" \notin OwnReaders(p)
BY FeedAssumption DEF OwnReaders

LEMMA EnteredAppend ==
    ASSUME NEW s \in Seq(Anyone), NEW c \in Anyone
    PROVE  Entered(Append(s, c)) = Entered(s) \cup {c}
<1>1. /\ Len(Append(s, c)) = Len(s) + 1 /\ Len(s) \in Nat
      /\ \A i \in 1..Len(s) : Append(s, c)[i] = s[i]
      /\ Append(s, c)[Len(s) + 1] = c
  BY AppendIs
<1> DEFINE t == Append(s, c)
<1> HIDE DEF t
<1>2. /\ Len(t) = Len(s) + 1 /\ Len(s) \in Nat
      /\ \A i \in 1..Len(s) : t[i] = s[i]
      /\ t[Len(s) + 1] = c
  BY <1>1 DEF t
<1>3. Entered(t) = Entered(s) \cup {c}
  <2>1. ASSUME NEW i \in 1..Len(t) PROVE t[i] \in Entered(s) \cup {c}
    BY <1>2 DEF Entered
  <2>2. c \in Entered(t)
    <3>1. Len(s) + 1 \in 1..Len(t)
      BY <1>2
    <3> QED BY <1>2, <3>1 DEF Entered
  <2>3. ASSUME NEW i \in 1..Len(s) PROVE s[i] \in Entered(t)
    <3>1. i \in 1..Len(t) /\ t[i] = s[i]
      BY <1>2
    <3> QED BY <3>1 DEF Entered
  <2> QED BY <2>1, <2>2, <2>3 DEF Entered
<1> QED BY <1>3 DEF t

LEMMA EnteredTail ==
    ASSUME NEW s \in Seq(Anyone), s # <<>>
    PROVE  Entered(Tail(s)) \subseteq Entered(s)
<1> DEFINE t == Tail(s)
<1>1. /\ Len(t) = Len(s) - 1 /\ Len(s) \in Nat \ {0}
      /\ \A i \in 1..Len(s) - 1 : t[i] = s[i + 1]
  BY TailIs
<1> HIDE DEF t
<1>2. ASSUME NEW i \in 1..Len(t) PROVE t[i] \in Entered(s)
  <2>1. i + 1 \in 1..Len(s) /\ t[i] = s[i + 1]
    BY <1>1
  <2> QED BY <2>1 DEF Entered
<1>3. Entered(t) \subseteq Entered(s)
  BY <1>2 DEF Entered
<1> QED BY <1>3 DEF t

LEMMA StreamLineSend ==
    ASSUME NEW s \in Seq(Anyone), NEW age \in Nat, NEW n \in Nat, NEW now \in BOOLEAN,
           StreamLine(s, age, n, now), NEW c \in Anyone, ByStream(c), CountdownOK(c),
           c.by = "price" => c.made = 0 /\ c.waited = 0
    PROVE  /\ StreamLine(Append(s, c), age, n, now)
           /\ c.by = "price" => StreamLine(Append(s, c), age, n, TRUE)
<1> DEFINE t == Append(s, c)
<1>1. /\ t \in Seq(Anyone) /\ Len(t) = Len(s) + 1 /\ Len(s) \in Nat
      /\ \A i \in 1..Len(s) : t[i] = s[i] /\ s[i] \in Anyone
      /\ t[Len(s) + 1] = c
  BY AppendIs
<1>2. Entered(t) = Entered(s) \cup {c}
  BY EnteredAppend
<1> HIDE DEF t
<1>3. \A e \in Entered(t) : ByStream(e) /\ CountdownOK(e)
  BY <1>2 DEF StreamLine
<1>4. Prices(t, age)
  <2>1. ASSUME NEW i \in 1..Len(t), t[i].by = "price"
        PROVE  t[i].made = t[i].waited /\ t[i].made <= age
    <3>1. CASE i = Len(s) + 1
      BY <1>1, <2>1, <3>1
    <3>2. CASE i \in 1..Len(s)
      BY <1>1, <2>1, <3>2 DEF StreamLine, Prices
    <3> QED BY <1>1, <3>1, <3>2
  <2>2. ASSUME NEW i \in 1..Len(t), NEW j \in 1..Len(t), i < j, t[i].by = "price", t[j].by = "price"
        PROVE  t[j].made <= t[i].made
    <3>1. i \in 1..Len(s) /\ t[i] = s[i] /\ s[i].made \in Nat
      <4>1. i \in 1..Len(s)
        BY <1>1, <2>2
      <4>2. t[i] = s[i] /\ s[i] \in Anyone
        BY <1>1, <4>1
      <4> QED BY <4>1, <4>2 DEF Anyone
    <3>2. CASE j = Len(s) + 1
      BY <1>1, <2>2, <3>1, <3>2
    <3>3. CASE j \in 1..Len(s)
      BY <1>1, <2>2, <3>1, <3>3 DEF StreamLine, Prices
    <3> QED BY <1>1, <3>2, <3>3
  <2> QED BY <2>1, <2>2 DEF Prices
<1>5. ASSUME NEW a \in Nat, Known(s, age, a)
      PROVE  Known(t, age, a)
  <2>1. CASE age <= a
    BY <2>1 DEF Known
  <2>2. CASE ~(age <= a)
    <3>1. PICK i \in 1..Len(s) : s[i].by = "price" /\ s[i].made = a
      BY <1>5, <2>2 DEF Known
    <3>2. i \in 1..Len(t) /\ t[i] = s[i]
      BY <1>1
    <3> QED BY <3>1, <3>2 DEF Known
  <2> QED BY <2>1, <2>2
<1>6. Fed(t, age, n, now)
  BY <1>5 DEF StreamLine, Fed
<1>7. ASSUME c.by = "price"
      PROVE  Fed(t, age, n, TRUE)
  <2>1. Known(t, age, 0)
    <3>1. Len(s) + 1 \in 1..Len(t) /\ t[Len(s) + 1] = c
      BY <1>1
    <3> QED BY <1>7, <3>1 DEF Known
  <2>2. ASSUME NEW a \in Nat, a < n
        PROVE  Known(t, age, a)
    <3>1. CASE a = 0
      BY <2>1, <3>1
    <3>2. CASE a > 0
      BY <1>5, <2>2, <3>2 DEF StreamLine, Fed
    <3> QED BY <3>1, <3>2
  <2> QED BY <2>2 DEF Fed
<1> QED BY <1>3, <1>4, <1>6, <1>7 DEF StreamLine, t

(* age2: the age of what is cached after the first command was answered.    *)
LEMMA StreamLineTail ==
    ASSUME NEW s \in Seq(Anyone), s # <<>>, NEW age \in Nat, NEW n \in Nat, NEW now \in BOOLEAN,
           StreamLine(s, age, n, now), NEW age2 \in Nat,
           age2 = IF s[1].by = "price" THEN s[1].made ELSE age
    PROVE  StreamLine(Tail(s), age2, n, now)
<1> DEFINE t == Tail(s)
<1>1. /\ t \in Seq(Anyone) /\ Len(t) = Len(s) - 1 /\ Len(s) \in Nat \ {0}
      /\ \A i \in 1..Len(s) - 1 : t[i] = s[i + 1]
  BY TailIs
<1>2. Entered(t) \subseteq Entered(s)
  BY EnteredTail
<1>3. 1 \in 1..Len(s) /\ \A i \in 1..Len(s) : s[i] \in Anyone
  BY <1>1
<1> HIDE DEF t
<1>4. \A e \in Entered(t) : ByStream(e) /\ CountdownOK(e)
  BY <1>2 DEF StreamLine
<1>5. ASSUME NEW i \in 1..Len(t)
      PROVE  i + 1 \in 1..Len(s) /\ 1 < i + 1 /\ t[i] = s[i + 1]
  BY <1>1
<1>6. age2 <= age /\ \A i \in 1..Len(t) : t[i].by = "price" => t[i].made <= age2
  <2>1. CASE s[1].by = "price"
    <3>1. age2 = s[1].made
      BY <2>1
    <3>2. age2 <= age
      BY <1>3, <2>1, <3>1 DEF StreamLine, Prices
    <3>3. \A i \in 1..Len(t) : t[i].by = "price" => t[i].made <= age2
      BY <1>3, <1>5, <2>1, <3>1 DEF StreamLine, Prices
    <3> QED BY <3>2, <3>3
  <2>2. CASE s[1].by # "price"
    <3>1. age2 = age
      BY <2>2
    <3> QED BY <1>5, <3>1 DEF StreamLine, Prices
  <2> QED BY <2>1, <2>2
<1>7. Prices(t, age2)
  <2>1. \A i \in 1..Len(t) : t[i].by = "price" => t[i].made = t[i].waited
    BY <1>5 DEF StreamLine, Prices
  <2>2. ASSUME NEW i \in 1..Len(t), NEW j \in 1..Len(t), i < j, t[i].by = "price", t[j].by = "price"
        PROVE  t[j].made <= t[i].made
    <3>1. i + 1 \in 1..Len(s) /\ j + 1 \in 1..Len(s) /\ i + 1 < j + 1
      BY <1>5, <2>2
    <3>2. t[i] = s[i + 1] /\ t[j] = s[j + 1]
      BY <1>5
    <3> QED BY <2>2, <3>1, <3>2 DEF StreamLine, Prices
  <2> QED BY <1>6, <2>1, <2>2 DEF Prices
<1>8. ASSUME NEW a \in Nat, Known(s, age, a)
      PROVE  Known(t, age2, a)
  <2>1. CASE age <= a
    BY <1>6, <2>1 DEF Known
  <2>2. CASE ~(age <= a)
    <3>1. PICK i \in 1..Len(s) : s[i].by = "price" /\ s[i].made = a
      BY <1>8, <2>2 DEF Known
    <3>2. CASE i = 1
      <4>1. age2 = a
        BY <3>1, <3>2
      <4> QED BY <4>1 DEF Known
    <3>3. CASE i # 1
      <4>1. i - 1 \in 1..Len(t) /\ (i - 1) + 1 = i
        BY <1>1, <3>3
      <4>2. t[i - 1] = s[i]
        BY <1>5, <4>1
      <4> QED BY <3>1, <4>1, <4>2 DEF Known
    <3> QED BY <3>2, <3>3
  <2> QED BY <2>1, <2>2
<1>9. Fed(t, age2, n, now)
  BY <1>8 DEF StreamLine, Fed
<1> QED BY <1>4, <1>7, <1>9 DEF StreamLine, t

(* A tick: what waits is older, and so is what is cached.                   *)
LEMMA StreamLineOlder ==
    ASSUME NEW s \in Seq(Anyone), NEW age \in Nat, NEW n \in Nat, NEW now \in BOOLEAN,
           StreamLine(s, age, n, now),
           NEW age2 \in Nat, age2 <= age + 1,
           \A i \in 1..Len(s) : s[i].by = "price" /\ s[i].made <= age => s[i].made + 1 <= age2,
           NEW n2 \in Nat, now => n2 <= n + 1, ~now => n2 = 0
    PROVE  StreamLine(Older(s), age2, n2, FALSE)
<1> DEFINE t == Older(s)
<1>1. /\ t \in Seq(Anyone) /\ Len(t) = Len(s) /\ Len(s) \in Nat
      /\ \A i \in 1..Len(s) :
            /\ s[i] \in Anyone
            /\ t[i].by = s[i].by /\ t[i].nth = s[i].nth
            /\ t[i].waited = s[i].waited + 1 /\ t[i].made = s[i].made + 1
  BY OlderIs
<1> HIDE DEF t
<1>2. ASSUME NEW i \in 1..Len(s)
      PROVE  /\ ByStream(t[i]) /\ CountdownOK(t[i])
             /\ s[i].waited \in Nat /\ s[i].made \in Nat /\ s[i].nth \in Nat
  <2>1. ByStream(s[i]) /\ CountdownOK(s[i])
    BY DEF StreamLine, Entered
  <2>2. s[i].waited \in Nat /\ s[i].made \in Nat /\ s[i].nth \in Nat
    BY <1>1 DEF Anyone
  <2>3. (s[i].nth - 1) * LongestWait(stream) \in Int
    <3>1. LongestWait(stream) \in Int
      BY OwnReadersFinite
    <3>2. \A x, y \in Int : x * y \in Int
      OBVIOUS
    <3>3. s[i].nth - 1 \in Int
      BY <2>2
    <3> QED BY <3>1, <3>2, <3>3, Zenon
  <2>4. CountdownOK(t[i])
    <3> SUFFICES ASSUME t[i].by = "countdown"
                 PROVE  t[i].nth >= 1 /\ t[i].made <= t[i].waited + (t[i].nth - 1) * LongestWait(stream)
      BY DEF CountdownOK
    <3> DEFINE x == (s[i].nth - 1) * LongestWait(stream)
    <3>1. s[i].nth >= 1 /\ s[i].made <= s[i].waited + x
      BY <1>1, <2>1 DEF CountdownOK
    <3>2. x = (t[i].nth - 1) * LongestWait(stream) /\ t[i].nth >= 1
      BY <1>1, <3>1
    <3>3. x \in Int
      BY <2>3
    <3> HIDE DEF x
    <3>4. t[i].made <= t[i].waited + x
      <4>1. t[i].waited = s[i].waited + 1 /\ t[i].made = s[i].made + 1
        BY <1>1
      <4>2. \A a, b \in Nat, y \in Int : a <= b + y => a + 1 <= (b + 1) + y
        OBVIOUS
      <4>3. s[i].made + 1 <= (s[i].waited + 1) + x
        BY <2>2, <3>1, <3>3, <4>2
      <4> QED BY <4>1, <4>3
    <3> QED BY <3>2, <3>4
  <2>5. ByStream(t[i])
    BY <1>1, <2>1 DEF ByStream
  <2> QED BY <2>2, <2>4, <2>5
<1>3. \A e \in Entered(t) : ByStream(e) /\ CountdownOK(e)
  BY <1>1, <1>2 DEF Entered
<1>4. Prices(t, age2)
  <2>1. ASSUME NEW i \in 1..Len(t), t[i].by = "price"
        PROVE  t[i].made = t[i].waited /\ t[i].made <= age2
    <3>1. i \in 1..Len(s) /\ s[i].by = "price" /\ s[i].made \in Nat /\ s[i].waited \in Nat
      BY <1>1, <1>2, <2>1
    <3>2. s[i].made = s[i].waited /\ s[i].made <= age
      BY <3>1 DEF StreamLine, Prices
    <3>3. s[i].made + 1 <= age2
      BY <3>1, <3>2
    <3> QED BY <1>1, <3>1, <3>2, <3>3
  <2>2. ASSUME NEW i \in 1..Len(t), NEW j \in 1..Len(t), i < j, t[i].by = "price", t[j].by = "price"
        PROVE  t[j].made <= t[i].made
    <3>1. s[j].made <= s[i].made
      BY <1>1, <2>2 DEF StreamLine, Prices
    <3>2. /\ s[j].made \in Nat /\ s[i].made \in Nat
          /\ t[j].made = s[j].made + 1 /\ t[i].made = s[i].made + 1
      <4>1. i \in 1..Len(s) /\ j \in 1..Len(s)
        BY <1>1
      <4>2. s[j].made \in Nat /\ s[i].made \in Nat
        BY <1>2, <4>1
      <4>3. t[j].made = s[j].made + 1 /\ t[i].made = s[i].made + 1
        BY <1>1, <4>1
      <4> QED BY <4>2, <4>3
    <3>3. \A x, y \in Nat : x <= y => x + 1 <= y + 1
      OBVIOUS
    <3>4. s[j].made + 1 <= s[i].made + 1
      BY <3>1, <3>2, <3>3, Zenon
    <3> QED BY <3>2, <3>4, Zenon
  <2> QED BY <2>1, <2>2 DEF Prices
<1>5. ASSUME NEW a \in Nat, a < n2, a > 0
      PROVE  Known(t, age2, a)
  <2>1. now /\ a - 1 \in Nat /\ a - 1 < n
    BY <1>5
  <2>2. Known(s, age, a - 1)
    BY <2>1 DEF StreamLine, Fed
  <2>3. CASE age <= a - 1
    BY <2>3 DEF Known
  <2>4. CASE ~(age <= a - 1)
    <3>1. PICK i \in 1..Len(s) : s[i].by = "price" /\ s[i].made = a - 1
      BY <2>2, <2>4 DEF Known
    <3>2. i \in 1..Len(t) /\ t[i].by = "price" /\ t[i].made = a
      BY <1>1, <3>1
    <3> QED BY <3>2 DEF Known
  <2> QED BY <2>3, <2>4
<1>6. Fed(t, age2, n2, FALSE)
  BY <1>5 DEF Fed
<1> QED BY <1>3, <1>4, <1>6 DEF StreamLine, t
-----------------------------------------------------------------------------
(***************************************************************************)
(* What is in line in the API: of the order's request one command at most. *)
(* The price it took has aged since the last one by what this has waited,  *)
(* the time with none in line apart: age is what it has aged without it.   *)
(***************************************************************************)
ByApi(c) == c.by \in OwnReaders(api) \cup {"request"}

Stages3 == {"none", "reading", "stale", "fresh", "checked", "filled"}
Going   == {"fresh", "checked"}

Limit(left) == MaxAge + (Trips - left) * LongestWait(api)

ApiLine(s, stage3, age, left) ==
    /\ \A c \in Entered(s) : ByApi(c)
    /\ \A i, j \in 1..Len(s) : s[i].by = "request" /\ s[j].by = "request" => i = j
    /\ \A i \in 1..Len(s) : s[i].by = "request" => left >= 1
    /\ stage3 \in {"none", "filled"} => Absent("request", s)
    /\ stage3 = "reading" => left = Trips
    /\ stage3 \in {"reading", "stale"} => age <= 0
    /\ stage3 \in Going => \A i \in 1..Len(s) : s[i].by = "request" =>
          age <= Limit(left) + s[i].waited
    /\ stage3 \in Going /\ Absent("request", s) => age <= Limit(left)
    /\ stage3 = "filled" => age <= Limit(0)

LEMMA FeedNumbers ==
    /\ MaxAge \in Nat /\ Trips \in Nat \ {0} /\ ActiveMarkets \in Nat \ {0} /\ MaxAway \in Nat
    /\ LongestWait(api) \in Nat /\ LongestWait(stream) \in Nat
    /\ stream \in Processes /\ api \in Processes /\ stream # api
    /\ \A p \in Processes : p = stream \/ p = api
BY FeedAssumption, OwnReadersFinite

(* Each command up to the fill moves the limit by one longest wait.         *)
LEMMA LimitIs ==
    ASSUME NEW left \in 0..Trips
    PROVE  /\ Limit(left) \in Nat /\ Limit(Trips) = MaxAge
           /\ Limit(left) <= MaxAge + Trips * LongestWait(api)
           /\ left >= 1 => /\ Limit(left - 1) = Limit(left) + LongestWait(api)
                           /\ Limit(left) + LongestWait(api) <= MaxAge + Trips * LongestWait(api)
<1> DEFINE W == LongestWait(api)
<1>1. W \in Nat /\ Trips \in Nat /\ left \in Nat /\ MaxAge \in Nat /\ Trips - left \in Nat
  BY FeedNumbers
<1>2. \A j, k \in Nat : j * k \in Nat
  OBVIOUS
<1>3. (Trips - left) * W \in Nat /\ left * W \in Nat
  BY <1>1, <1>2, Zenon
<1>4. Trips * W = (Trips - left) * W + left * W
  BY <1>1
<1>5. (Trips - Trips) * W = 0
  BY <1>1
<1>6. ASSUME left >= 1
      PROVE  (Trips - (left - 1)) * W = (Trips - left) * W + W /\ W <= left * W
  <2>1. (Trips - (left - 1)) * W = (Trips - left) * W + W
    BY <1>1
  <2>2. left - 1 \in Nat /\ left * W = (left - 1) * W + W
    BY <1>1, <1>6
  <2>3. (left - 1) * W \in Nat
    BY <1>1, <1>2, <2>2, Zenon
  <2> QED BY <1>1, <2>1, <2>2, <2>3
<1> HIDE DEF W
<1>7. Limit(left) = MaxAge + (Trips - left) * W /\ Limit(Trips) = MaxAge + (Trips - Trips) * W
      /\ Limit(left - 1) = MaxAge + (Trips - (left - 1)) * W
  BY DEF Limit, W
<1> DEFINE x == (Trips - left) * W
           y == left * W
           z == Trips * W
           v == (Trips - (left - 1)) * W
<1>8. x \in Nat /\ y \in Nat /\ z = x + y /\ Limit(left) = MaxAge + x
      /\ Limit(left - 1) = MaxAge + v /\ (left >= 1 => v = x + W /\ W <= y)
  BY <1>3, <1>4, <1>6, <1>7
<1>9. Limit(Trips) = MaxAge
  BY <1>1, <1>5, <1>7
<1> HIDE DEF x, y, z, v
<1>10. /\ Limit(left) \in Nat /\ Limit(left) <= MaxAge + z
       /\ left >= 1 => Limit(left - 1) = Limit(left) + W /\ Limit(left) + W <= MaxAge + z
  BY <1>1, <1>8
<1> QED BY <1>9, <1>10 DEF z, W

(* The API's loops leave the request where it is.                           *)
LEMMA ApiLineSend ==
    ASSUME NEW s \in Seq(Anyone), NEW stage3, NEW age, NEW left,
           ApiLine(s, stage3, age, left), NEW c \in Anyone, c.by \in OwnReaders(api)
    PROVE  ApiLine(Append(s, c), stage3, age, left)
<1> DEFINE t == Append(s, c)
<1>1. /\ t \in Seq(Anyone) /\ Len(t) = Len(s) + 1 /\ Len(s) \in Nat
      /\ \A i \in 1..Len(s) : t[i] = s[i]
      /\ t[Len(s) + 1] = c
  BY AppendIs
<1>2. Entered(t) = Entered(s) \cup {c}
  BY EnteredAppend
<1>3. c.by # "request"
  BY OwnAreNoReaders
<1> HIDE DEF t
<1>4. ASSUME NEW i \in 1..Len(t), t[i].by = "request"
      PROVE  i \in 1..Len(s) /\ t[i] = s[i]
  BY <1>1, <1>3, <1>4
<1>5. \A i \in 1..Len(s) : i \in 1..Len(t) /\ t[i] = s[i]
  BY <1>1
<1>6. Absent("request", s) <=> Absent("request", t)
  BY <1>4, <1>5 DEF Absent
<1>7. \A e \in Entered(t) : ByApi(e)
  BY <1>2 DEF ApiLine, ByApi
<1>8. \A i, j \in 1..Len(t) : t[i].by = "request" /\ t[j].by = "request" => i = j
  BY <1>4 DEF ApiLine
<1>9. \A i \in 1..Len(t) : t[i].by = "request" =>
         left >= 1 /\ (stage3 \in Going => age <= Limit(left) + t[i].waited)
  BY <1>4 DEF ApiLine
<1> QED BY <1>6, <1>7, <1>8, <1>9 DEF ApiLine, t

LEMMA ApiLineTail ==
    ASSUME NEW s \in Seq(Anyone), s # <<>>, NEW stage3, NEW age, NEW left,
           ApiLine(s, stage3, age, left), s[1].by \in OwnReaders(api)
    PROVE  ApiLine(Tail(s), stage3, age, left)
<1> DEFINE t == Tail(s)
<1>1. /\ t \in Seq(Anyone) /\ Len(t) = Len(s) - 1 /\ Len(s) \in Nat \ {0}
      /\ \A i \in 1..Len(s) - 1 : t[i] = s[i + 1]
  BY TailIs
<1>2. Entered(t) \subseteq Entered(s)
  BY EnteredTail
<1>3. s[1].by # "request"
  BY OwnAreNoReaders
<1> HIDE DEF t
<1>4. \A i \in 1..Len(t) : i + 1 \in 1..Len(s) /\ t[i] = s[i + 1]
  BY <1>1
<1>5. ASSUME NEW i \in 1..Len(s), s[i].by = "request"
      PROVE  i - 1 \in 1..Len(t) /\ t[i - 1] = s[i]
  <2>1. i # 1 /\ i \in Int
    BY <1>3, <1>5
  <2>2. i - 1 \in 1..Len(s) - 1 /\ (i - 1) + 1 = i
    BY <1>1, <2>1
  <2> QED BY <1>1, <2>2
<1>6. Absent("request", s) <=> Absent("request", t)
  BY <1>4, <1>5 DEF Absent
<1>7. \A e \in Entered(t) : ByApi(e)
  BY <1>2 DEF ApiLine
<1>8. \A i, j \in 1..Len(t) : t[i].by = "request" /\ t[j].by = "request" => i = j
  <2> SUFFICES ASSUME NEW i \in 1..Len(t), NEW j \in 1..Len(t),
                      t[i].by = "request", t[j].by = "request"
               PROVE  i = j
    OBVIOUS
  <2>1. i + 1 = j + 1
    BY <1>4 DEF ApiLine
  <2> QED BY <2>1
<1>9. \A i \in 1..Len(t) : t[i].by = "request" =>
         left >= 1 /\ (stage3 \in Going => age <= Limit(left) + t[i].waited)
  BY <1>4 DEF ApiLine
<1> QED BY <1>6, <1>7, <1>8, <1>9 DEF ApiLine, t

(* The request's own command: with it answered there is none in line,       *)
LEMMA RequestAnswered ==
    ASSUME NEW s \in Seq(Anyone), s # <<>>, s[1].by = "request",
           \A i, j \in 1..Len(s) : s[i].by = "request" /\ s[j].by = "request" => i = j,
           \A c \in Entered(s) : ByApi(c)
    PROVE  Absent("request", Tail(s)) /\ \A c \in Entered(Tail(s)) : ByApi(c)
<1> DEFINE t == Tail(s)
<1>1. /\ Len(t) = Len(s) - 1 /\ Len(s) \in Nat \ {0}
      /\ \A i \in 1..Len(s) - 1 : t[i] = s[i + 1]
  BY TailIs
<1>2. Entered(t) \subseteq Entered(s)
  BY EnteredTail
<1> HIDE DEF t
<1>3. ASSUME NEW i \in 1..Len(t)
      PROVE  t[i].by # "request"
  <2>1. i + 1 \in 1..Len(s) /\ i + 1 # 1 /\ 1 \in 1..Len(s) /\ t[i] = s[i + 1]
    BY <1>1
  <2> QED BY <2>1
<1> QED BY <1>2, <1>3 DEF Absent, t

(* and with one sent there is that one.                                     *)
LEMMA RequestSent ==
    ASSUME NEW s \in Seq(Anyone), Absent("request", s), NEW c \in Anyone, c.by = "request",
           \A e \in Entered(s) : ByApi(e)
    PROVE  /\ ~Absent("request", Append(s, c))
           /\ \A e \in Entered(Append(s, c)) : ByApi(e)
           /\ \A i \in 1..Len(Append(s, c)) : Append(s, c)[i].by = "request" =>
                 i = Len(s) + 1 /\ Append(s, c)[i] = c
<1> DEFINE t == Append(s, c)
<1>1. /\ t \in Seq(Anyone) /\ Len(t) = Len(s) + 1 /\ Len(s) \in Nat
      /\ \A i \in 1..Len(s) : t[i] = s[i]
      /\ t[Len(s) + 1] = c
  BY AppendIs
<1>2. Entered(t) = Entered(s) \cup {c}
  BY EnteredAppend
<1> HIDE DEF t
<1>3. Len(s) + 1 \in 1..Len(t)
  BY <1>1
<1>4. \A i \in 1..Len(t) : t[i].by = "request" => i = Len(s) + 1 /\ t[i] = c
  BY <1>1 DEF Absent
<1> QED BY <1>1, <1>2, <1>3, <1>4 DEF Absent, ByApi, t

LEMMA ApiLineOlder ==
    ASSUME NEW s \in Seq(Anyone), NEW stage3 \in Stages3, NEW age \in Int, NEW left \in 0..Trips,
           ApiLine(s, stage3, age, left), NEW age2 \in Int,
           age2 = IF stage3 \in Going /\ ~Absent("request", s) THEN age + 1 ELSE age
    PROVE  ApiLine(Older(s), stage3, age2, left)
<1> DEFINE t == Older(s)
<1>1. /\ t \in Seq(Anyone) /\ Len(t) = Len(s) /\ Len(s) \in Nat
      /\ \A i \in 1..Len(s) :
            s[i] \in Anyone /\ t[i].by = s[i].by /\ t[i].waited = s[i].waited + 1
  BY OlderIs
<1> HIDE DEF t
<1>2. Absent("request", s) <=> Absent("request", t)
  BY <1>1 DEF Absent
<1>3. \A e \in Entered(t) : ByApi(e)
  <2>1. \A i \in 1..Len(s) : ByApi(s[i])
    BY DEF ApiLine, Entered
  <2> QED BY <1>1, <2>1 DEF Entered, ByApi
<1>4. \A i, j \in 1..Len(t) : t[i].by = "request" /\ t[j].by = "request" => i = j
  BY <1>1 DEF ApiLine
<1>5. ASSUME stage3 \in Going, NEW i \in 1..Len(t), t[i].by = "request"
      PROVE  age2 <= Limit(left) + t[i].waited
  <2>1. i \in 1..Len(s) /\ s[i].by = "request" /\ s[i].waited \in Nat
        /\ t[i].waited = s[i].waited + 1
    <3>1. i \in 1..Len(s)
      BY <1>1
    <3>2. s[i] \in Anyone /\ t[i].by = s[i].by /\ t[i].waited = s[i].waited + 1
      BY <1>1, <3>1
    <3> QED BY <1>5, <3>1, <3>2 DEF Anyone
  <2>2. age <= Limit(left) + s[i].waited
    BY <1>5, <2>1 DEF ApiLine
  <2> QED BY <1>5, <2>1, <2>2, LimitIs
<1>6. Absent("request", s) \/ stage3 \notin Going => age2 = age
  OBVIOUS
<1>7. \A i \in 1..Len(t) : t[i].by = "request" => left >= 1
  BY <1>1 DEF ApiLine
<1>8. "filled" \notin Going /\ "reading" \notin Going /\ "stale" \notin Going
  BY DEF Going
<1>9. stage3 \in Going /\ Absent("request", t) => age2 <= Limit(left)
  BY <1>2, <1>6 DEF ApiLine
<1>10. /\ stage3 \in {"reading", "stale"} => age2 <= 0
       /\ stage3 = "filled" => age2 <= Limit(0)
  BY <1>6, <1>8 DEF ApiLine
<1> QED BY <1>2, <1>3, <1>4, <1>5, <1>7, <1>9, <1>10 DEF ApiLine, t
-----------------------------------------------------------------------------
(***************************************************************************)
(* The two together, and the socket of the prices.                         *)
(***************************************************************************)
FeedTypes ==
    /\ priceSocket \in {"none", "connecting", "open"}
    /\ priceTimer \in BOOLEAN /\ priceConnected \in BOOLEAN /\ heard \in BOOLEAN
    /\ cachedAge \in 0..Forgotten /\ fed \in 0..FedEnough
    /\ request \in Stages3 /\ priceAge \in Nat /\ tripsLeft \in 0..Trips /\ away \in 0..MaxAway

(* The timer is armed when there is no socket, and only then.               *)
FeedInv ==
    /\ FeedTypes /\ FeedNeverGivesUp
    /\ priceTimer <=> priceSocket = "none"
    /\ LinesOK /\ LoopsOK
    /\ StreamLine(line[stream], cachedAge, fed, heard)
    /\ ApiLine(line[api], request, priceAge - away, tripsLeft)

LEMMA FeedBounds ==
    /\ Forgotten \in Nat /\ FedEnough \in Nat /\ LongestWait(stream) + 1 < Forgotten
    /\ FedEnough = LongestWait(stream) + 2
BY FeedNumbers DEF Forgotten, FedEnough, Larger

LEMMA FeedTypesAre ==
    ASSUME FeedTypes
    PROVE  /\ cachedAge \in Nat /\ fed \in Nat /\ heard \in BOOLEAN
           /\ request \in Stages3 /\ priceAge \in Nat /\ tripsLeft \in 0..Trips
           /\ away \in 0..MaxAway /\ priceAge - away \in Int
BY FeedBounds, FeedNumbers DEF FeedTypes

LEMMA StreamLinesAre ==
    ASSUME FeedInv
    PROVE  /\ line[stream] \in Seq(Anyone) /\ line[api] \in Seq(Anyone) /\ LinesOK /\ LoopsOK
           /\ Line(stream, line[stream], blocked[stream]) /\ Line(api, line[api], blocked[api])
BY FeedNumbers, LineIs DEF FeedInv

(* The loops of both processes.                                             *)
LEMMA ReaderKeepsFeed ==
    ASSUME FeedInv, ReaderStep
    PROVE  FeedInv'
<1>1. PICK r \in Readers : Ask(r) \/ Answered(r)
  BY DEF ReaderStep
<1> DEFINE c == Command(r, 0, 0)
<1>2. UNCHANGED <<coinbaseVars, cachedAge, heard, fed, requestVars>>
  BY DEF ReaderStep
<1>3. /\ LinesOK' /\ LoopsOK'
      /\ \A q \in Processes \ {ReaderOf[r]} : line'[q] = line[q]
      /\ \/ line'[ReaderOf[r]] = Append(line[ReaderOf[r]], c)
         \/ /\ line[ReaderOf[r]] # <<>> /\ Head(line[ReaderOf[r]]).by = r
            /\ line'[ReaderOf[r]] = Next1(line[ReaderOf[r]], c)
  BY <1>1, StreamLinesAre, ReaderKeepsLines
<1>4. c \in Anyone /\ c.by = r /\ c.waited = 0 /\ c.made = 0
  BY CommandIs
<1> HIDE DEF c
<1>5. ReaderOf[r] \in Processes /\ r \in OwnReaders(ReaderOf[r])
  BY LinkAssumption DEF OwnReaders
<1>6. r # "price" /\ r # "countdown"
  BY FeedAssumption
<1>7. FeedTypes' /\ FeedNeverGivesUp' /\ (priceTimer <=> priceSocket = "none")'
  BY <1>2 DEF FeedInv, FeedTypes, FeedNeverGivesUp, coinbaseVars, requestVars
<1>8. CASE ReaderOf[r] = stream
  <2> DEFINE s == line[stream]
  <2>1. s \in Seq(Anyone) /\ StreamLine(s, cachedAge, fed, heard)
    BY StreamLinesAre DEF FeedInv
  <2>2. ByStream(c) /\ CountdownOK(c) /\ c.by # "price"
    BY <1>4, <1>5, <1>6, <1>8 DEF ByStream, CountdownOK
  <2>3. cachedAge \in Nat /\ fed \in Nat /\ heard \in BOOLEAN
    BY FeedTypesAre DEF FeedInv
  <2> HIDE DEF s
  <2>4. StreamLine(Append(s, c), cachedAge, fed, heard)
    BY <1>4, <2>1, <2>2, <2>3, StreamLineSend
  <2>5. ASSUME s # <<>>, Head(s).by = r
        PROVE  StreamLine(Next1(s, c), cachedAge, fed, heard)
    <3>1. s[1].by # "price" /\ Tail(s) \in Seq(Anyone)
      BY <1>6, <2>1, <2>5, TailIs
    <3>2. StreamLine(Tail(s), cachedAge, fed, heard)
      BY <2>1, <2>3, <2>5, <3>1, StreamLineTail
    <3> DEFINE u == Tail(s)
    <3> HIDE DEF u
    <3>3. StreamLine(Append(u, c), cachedAge, fed, heard)
      BY <1>4, <2>2, <2>3, <3>1, <3>2, StreamLineSend DEF u
    <3> QED BY <3>3 DEF u, Next1
  <2>6. StreamLine(line'[stream], cachedAge, fed, heard)
    BY <1>3, <1>8, <2>4, <2>5 DEF s
  <2>7. line'[api] = line[api]
    BY <1>3, <1>8, FeedNumbers
  <2>8. StreamLine(line[stream], cachedAge, fed, heard)'
    BY <1>2, <2>6
  <2>9. ApiLine(line[api], request, priceAge - away, tripsLeft)'
    BY <1>2, <2>7 DEF FeedInv, requestVars
  <2> QED BY <1>3, <1>7, <2>8, <2>9 DEF FeedInv
<1>9. CASE ReaderOf[r] = api
  <2> DEFINE s == line[api]
  <2>1. s \in Seq(Anyone) /\ ApiLine(s, request, priceAge - away, tripsLeft)
    BY StreamLinesAre DEF FeedInv
  <2>2. c.by \in OwnReaders(api)
    BY <1>4, <1>5, <1>9
  <2> HIDE DEF s
  <2>4. ApiLine(Append(s, c), request, priceAge - away, tripsLeft)
    BY <1>4, <2>1, <2>2, ApiLineSend
  <2>5. ASSUME s # <<>>, Head(s).by = r
        PROVE  ApiLine(Next1(s, c), request, priceAge - away, tripsLeft)
    <3>1. s[1].by \in OwnReaders(api) /\ Tail(s) \in Seq(Anyone)
      BY <1>4, <2>1, <2>2, <2>5, TailIs
    <3>2. ApiLine(Tail(s), request, priceAge - away, tripsLeft)
      BY <2>1, <2>5, <3>1, ApiLineTail
    <3> DEFINE u == Tail(s)
    <3> HIDE DEF u
    <3>3. ApiLine(Append(u, c), request, priceAge - away, tripsLeft)
      BY <1>4, <2>2, <3>1, <3>2, ApiLineSend DEF u
    <3> QED BY <3>3 DEF u, Next1
  <2>6. ApiLine(line'[api], request, priceAge - away, tripsLeft)
    BY <1>3, <1>9, <2>4, <2>5 DEF s
  <2>7. line'[stream] = line[stream]
    BY <1>3, <1>9, FeedNumbers
  <2>8. ApiLine(line[api], request, priceAge - away, tripsLeft)'
    BY <1>2, <2>6 DEF requestVars
  <2>9. StreamLine(line[stream], cachedAge, fed, heard)'
    BY <1>2, <2>7 DEF FeedInv
  <2> QED BY <1>3, <1>7, <2>8, <2>9 DEF FeedInv
<1> QED BY <1>5, <1>8, <1>9, FeedNumbers

LEMMA CoinbaseKeepsFeed ==
    ASSUME FeedInv, CoinbaseStep
    PROVE  FeedInv'
<1>1. UNCHANGED <<linkVars, cachedAge, heard, fed, requestVars>>
  BY DEF CoinbaseStep, CoinbaseOpened, CoinbaseClosed, CoinbaseRetries
<1>2. FeedTypes' /\ FeedNeverGivesUp' /\ (priceTimer <=> priceSocket = "none")'
  <2>1. FeedTypes /\ FeedNeverGivesUp /\ (priceTimer <=> priceSocket = "none")
    BY DEF FeedInv
  <2>2. CASE CoinbaseOpened
    BY <1>1, <2>1, <2>2 DEF CoinbaseOpened, FeedTypes, FeedNeverGivesUp, requestVars
  <2>3. CASE CoinbaseClosed
    BY <1>1, <2>1, <2>3 DEF CoinbaseClosed, FeedTypes, FeedNeverGivesUp, requestVars
  <2>4. CASE CoinbaseRetries
    BY <1>1, <2>1, <2>4 DEF CoinbaseRetries, FeedTypes, FeedNeverGivesUp, requestVars
  <2> QED BY <2>2, <2>3, <2>4 DEF CoinbaseStep
<1>3. LinesOK' /\ LoopsOK'
  BY <1>1 DEF FeedInv, LinesOK, LoopsOK, linkVars
<1> QED BY <1>1, <1>2, <1>3 DEF FeedInv, linkVars, requestVars

(* The price of a tick comes in;                                            *)
LEMMA ReceivedKeepsFeed ==
    ASSUME FeedInv, PriceReceived
    PROVE  FeedInv'
<1> DEFINE c == Command("price", 0, 0)
<1>1. c \in Anyone /\ c.by = "price" /\ c.waited = 0 /\ c.made = 0
  BY CommandIs DEF Own
<1> HIDE DEF c
<1>2. Send(stream, c) /\ UNCHANGED blocked /\ heard' = TRUE
      /\ UNCHANGED <<loop, coinbaseVars, cachedAge, fed, requestVars>>
  BY DEF PriceReceived, c
<1>3. c.by \notin OwnReaders(stream)
  BY <1>1, OwnAreNoReaders
<1>4. /\ LinesOK' /\ line'[stream] = Append(line[stream], c)
      /\ \A q \in Processes \ {stream} : line'[q] = line[q]
  BY <1>1, <1>2, <1>3, FeedNumbers, StreamLinesAre, SendKeepsLines
<1>5. LoopsOK'
  <2>1. \A r \in Readers : Absent(r, line[stream]) => Absent(r, line'[stream])
    BY <1>1, <1>4, FeedAssumption, StreamLinesAre, AbsentAfter
  <2> QED BY <1>2, <1>4, <2>1, FeedNumbers, StreamLinesAre, OthersKeepLoops
<1>6. StreamLine(line'[stream], cachedAge, fed, TRUE)
  <2>1. ByStream(c) /\ CountdownOK(c)
    BY <1>1 DEF ByStream, CountdownOK
  <2> QED BY <1>1, <1>4, <2>1, FeedTypesAre, StreamLinesAre, StreamLineSend DEF FeedInv
<1>7. StreamLine(line[stream], cachedAge, fed, heard)'
  BY <1>2, <1>6
<1>8. ApiLine(line[api], request, priceAge - away, tripsLeft)'
  BY <1>2, <1>4, FeedNumbers DEF FeedInv, requestVars
<1>9. FeedTypes' /\ FeedNeverGivesUp' /\ (priceTimer <=> priceSocket = "none")'
  BY <1>2 DEF FeedInv, FeedTypes, FeedNeverGivesUp, coinbaseVars, requestVars
<1> QED BY <1>4, <1>5, <1>7, <1>8, <1>9 DEF FeedInv

(* it is written;                                                           *)
LEMMA WrittenKeepsFeed ==
    ASSUME FeedInv, PriceWritten
    PROVE  FeedInv'
<1> DEFINE s == line[stream]
<1>1. /\ s # <<>> /\ Head(s).by = "price" /\ Answer(stream)
      /\ cachedAge' = Smaller(Head(s).made, Forgotten)
      /\ UNCHANGED <<loop, coinbaseVars, heard, fed, requestVars>>
  BY DEF PriceWritten, Turn
<1>2. s \in Seq(Anyone) /\ Line(stream, s, blocked[stream]) /\ StreamLine(s, cachedAge, fed, heard)
  BY StreamLinesAre DEF FeedInv
<1>3. s[1].by = "price" /\ s[1] \in Anyone /\ 1 \in 1..Len(s) /\ Head(s) = s[1]
  <2>1. Head(s) = s[1] /\ Len(s) \in Nat \ {0}
    BY <1>1, <1>2, TailIs
  <2>2. 1 \in 1..Len(s)
    BY <2>1
  <2> QED BY <1>1, <1>2, <2>1, <2>2
<1>4. /\ LinesOK' /\ line'[stream] = Tail(s)
      /\ \A q \in Processes \ {stream} : line'[q] = line[q]
  BY <1>1, FeedNumbers, StreamLinesAre, AnswerKeepsLines
<1>5. LoopsOK'
  <2>1. \A r \in Readers : Absent(r, line[stream]) => Absent(r, line'[stream])
    <3>1. Command("price", 0, 0) \in Anyone /\ Command("price", 0, 0).by = "price"
      BY CommandIs DEF Own
    <3> QED BY <1>1, <1>2, <1>4, <3>1, FeedAssumption, AbsentAfter
  <2> QED BY <1>1, <1>4, <2>1, FeedNumbers, StreamLinesAre, OthersKeepLoops
<1> HIDE DEF s
<1>6. cachedAge' = s[1].made /\ s[1].made \in 0..Forgotten
  <2>1. s[1].waited <= LongestWait(stream)
    BY <1>2, <1>3, WaitOfLine
  <2>2. s[1].made = s[1].waited
    BY <1>2, <1>3 DEF StreamLine, Prices
  <2>3. s[1].made \in Nat
    BY <1>3 DEF Anyone
  <2>4. cachedAge' = Smaller(s[1].made, Forgotten)
    BY <1>1, <1>3
  <2> QED BY <2>1, <2>2, <2>3, <2>4, FeedNumbers, FeedBounds DEF Smaller
<1>7. StreamLine(Tail(s), s[1].made, fed, heard)
  <2>1. s[1].made \in Nat
    BY <1>3 DEF Anyone
  <2>2. cachedAge \in Nat /\ fed \in Nat /\ heard \in BOOLEAN
    BY FeedTypesAre DEF FeedInv
  <2> QED BY <1>1, <1>2, <1>3, <2>1, <2>2, StreamLineTail
<1>8. StreamLine(line[stream], cachedAge, fed, heard)'
  BY <1>1, <1>4, <1>6, <1>7
<1>9. ApiLine(line[api], request, priceAge - away, tripsLeft)'
  BY <1>1, <1>4, FeedNumbers DEF FeedInv, requestVars
<1>10. FeedTypes' /\ FeedNeverGivesUp' /\ (priceTimer <=> priceSocket = "none")'
  BY <1>1, <1>6 DEF FeedInv, FeedTypes, FeedNeverGivesUp, coinbaseVars, requestVars
<1> QED BY <1>4, <1>5, <1>8, <1>9, <1>10 DEF FeedInv

(* and the connection is lost.                                              *)
LEMMA LossKeepsFeed ==
    ASSUME FeedInv, WritesAreLost
    PROVE  FeedInv'
<1>1. /\ Lost(stream) /\ fed' = 0
      /\ UNCHANGED <<coinbaseVars, cachedAge, heard, requestVars>>
  BY DEF WritesAreLost
<1>2. /\ LinesOK' /\ LoopsOK' /\ line'[stream] = <<>>
      /\ \A q \in Processes \ {stream} : line'[q] = line[q]
  BY <1>1, FeedNumbers, StreamLinesAre, LostKeepsLines
<1>3. StreamLine(<<>>, cachedAge, 0, heard)
  BY DEF StreamLine, Entered, Prices, Fed
<1>4. StreamLine(line[stream], cachedAge, fed, heard)'
  BY <1>1, <1>2, <1>3
<1>5. ApiLine(line[api], request, priceAge - away, tripsLeft)'
  BY <1>1, <1>2, FeedNumbers DEF FeedInv, requestVars
<1>6. FeedTypes' /\ FeedNeverGivesUp' /\ (priceTimer <=> priceSocket = "none")'
  BY <1>1, FeedBounds DEF FeedInv, FeedTypes, FeedNeverGivesUp, coinbaseVars, requestVars
<1> QED BY <1>2, <1>4, <1>5, <1>6 DEF FeedInv

(* The countdowns of the markets, one after the other.                      *)
LEMMA CountdownsKeepFeed ==
    ASSUME FeedInv, CountdownsBegin \/ CountdownWritten
    PROVE  FeedInv'
<1> DEFINE s == line[stream]
<1>1. UNCHANGED <<loop, coinbaseVars, cachedAge, heard, fed, requestVars>>
  BY DEF CountdownsBegin, CountdownWritten
<1>2. /\ s \in Seq(Anyone) /\ Line(stream, s, blocked[stream])
      /\ StreamLine(s, cachedAge, fed, heard)
      /\ cachedAge \in Nat /\ fed \in Nat /\ heard \in BOOLEAN
  BY StreamLinesAre, FeedTypesAre DEF FeedInv
<1>3. FeedTypes' /\ FeedNeverGivesUp' /\ (priceTimer <=> priceSocket = "none")'
  BY <1>1 DEF FeedInv, FeedTypes, FeedNeverGivesUp, coinbaseVars, requestVars
<1>4. ASSUME LinesOK', StreamLine(line'[stream], cachedAge, fed, heard),
             \A q \in Processes \ {stream} : line'[q] = line[q],
             \A r \in Readers : Absent(r, line[stream]) => Absent(r, line'[stream])
      PROVE  FeedInv'
  <2>1. LoopsOK'
    BY <1>1, <1>4, FeedNumbers, StreamLinesAre, OthersKeepLoops
  <2>2. ApiLine(line[api], request, priceAge - away, tripsLeft)'
    BY <1>1, <1>4, FeedNumbers DEF FeedInv, requestVars
  <2>3. StreamLine(line[stream], cachedAge, fed, heard)'
    BY <1>1, <1>4
  <2> QED BY <1>3, <1>4, <2>1, <2>2, <2>3 DEF FeedInv
<1>5. CASE CountdownsBegin
  <2> DEFINE c == Command("countdown", 0, 1)
  <2>1. c \in Anyone /\ c.by = "countdown" /\ c.waited = 0 /\ c.made = 0 /\ c.nth = 1
    BY CommandIs DEF Own
  <2>2. Send(stream, c) /\ UNCHANGED blocked
    BY <1>5 DEF CountdownsBegin
  <2> HIDE DEF c, s
  <2>3. c.by \notin OwnReaders(stream)
    BY <2>1, OwnAreNoReaders
  <2>4. /\ LinesOK' /\ line'[stream] = Append(s, c)
        /\ \A q \in Processes \ {stream} : line'[q] = line[q]
    BY <2>1, <2>2, <2>3, FeedNumbers, StreamLinesAre, SendKeepsLines DEF s
  <2>5. ByStream(c) /\ CountdownOK(c)
    BY <2>1, FeedNumbers DEF ByStream, CountdownOK
  <2>6. StreamLine(Append(s, c), cachedAge, fed, heard)
    BY <1>2, <2>1, <2>5, StreamLineSend
  <2>7. \A r \in Readers : Absent(r, s) => Absent(r, Append(s, c))
    BY <1>2, <2>1, FeedAssumption, AbsentAfter
  <2> QED BY <1>4, <2>4, <2>6, <2>7 DEF s
<1>6. CASE CountdownWritten
  <2>1. s # <<>> /\ Head(s).by = "countdown"
    BY <1>6 DEF CountdownWritten, Turn
  <2>2. /\ Head(s) = s[1] /\ s[1] \in Anyone /\ 1 \in 1..Len(s) /\ s[1].by = "countdown"
        /\ Tail(s) \in Seq(Anyone)
    <3>1. Head(s) = s[1] /\ Len(s) \in Nat \ {0} /\ Tail(s) \in Seq(Anyone)
      BY <1>2, <2>1, TailIs
    <3>2. 1 \in 1..Len(s)
      BY <3>1
    <3> QED BY <1>2, <2>1, <3>1, <3>2
  <2>3. StreamLine(Tail(s), cachedAge, fed, heard)
    BY <1>2, <2>1, <2>2, StreamLineTail
  <2>4. CASE Answer(stream)
    <3>1. /\ LinesOK' /\ line'[stream] = Tail(s)
          /\ \A q \in Processes \ {stream} : line'[q] = line[q]
      BY <2>1, <2>4, FeedNumbers, StreamLinesAre, AnswerKeepsLines
    <3>2. \A r \in Readers : Absent(r, s) => Absent(r, Tail(s))
      <4>1. Command("countdown", 0, 0) \in Anyone /\ Command("countdown", 0, 0).by = "countdown"
        BY CommandIs DEF Own
      <4> QED BY <1>2, <2>1, <4>1, FeedAssumption, AbsentAfter
    <3> QED BY <1>4, <2>3, <3>1, <3>2
  <2>5. CASE ~Answer(stream)
    <3> DEFINE c == Command("countdown", s[1].made, s[1].nth + 1)
    <3>1. s[1].made \in Nat /\ s[1].nth \in Nat /\ s[1].waited \in Nat
      BY <2>2 DEF Anyone
    <3>2. /\ c \in Anyone /\ c.by = "countdown" /\ c.waited = 0
          /\ c.made = s[1].made /\ c.nth = s[1].nth + 1
      <4>1. s[1].nth + 1 \in Nat /\ "countdown" \in Readers \cup Own
        BY <3>1 DEF Own
      <4> QED BY <3>1, <4>1, CommandIs
    <3>3. AnswerAndSend(stream, c)
      BY <1>6, <2>2, <2>5 DEF CountdownWritten
    <3> HIDE DEF c, s
    <3>4. c.by \notin OwnReaders(stream)
      BY <3>2, OwnAreNoReaders
    <3>5. /\ LinesOK' /\ line'[stream] = Next1(s, c)
          /\ \A q \in Processes \ {stream} : line'[q] = line[q]
      BY <2>1, <3>2, <3>3, <3>4, FeedNumbers, StreamLinesAre, AnswerAndSendKeepsLines DEF s
    <3>6. CountdownOK(c)
      <4>1. s[1].waited <= LongestWait(stream)
        BY <1>2, <2>2, WaitOfLine
      <4>2. CountdownOK(s[1])
        BY <1>2, <2>2 DEF StreamLine, Entered
      <4> DEFINE x == (s[1].nth - 1) * LongestWait(stream)
                 y == (c.nth - 1) * LongestWait(stream)
      <4>3. s[1].nth >= 1 /\ s[1].made <= s[1].waited + x
        BY <2>2, <4>2 DEF CountdownOK
      <4>4. \A n, l \in Nat : ((n + 1) - 1) * l = (n - 1) * l + l /\ (n - 1) * l \in Int
        OBVIOUS
      <4>5. y = x + LongestWait(stream) /\ x \in Int
        BY <3>1, <3>2, <4>4, FeedNumbers
      <4> HIDE DEF x, y
      <4>6. c.nth >= 1 /\ c.made <= c.waited + y
        BY <3>1, <3>2, <4>1, <4>3, <4>5, FeedNumbers
      <4> QED BY <4>6 DEF CountdownOK, y
    <3>7. ByStream(c)
      BY <3>2 DEF ByStream
    <3>8. StreamLine(Next1(s, c), cachedAge, fed, heard)
      <4> DEFINE u == Tail(s)
      <4> HIDE DEF u
      <4>1. StreamLine(Append(u, c), cachedAge, fed, heard)
        BY <1>2, <2>2, <2>3, <3>2, <3>6, <3>7, StreamLineSend DEF u
      <4> QED BY <4>1 DEF u, Next1
    <3>9. \A r \in Readers : Absent(r, s) => Absent(r, Next1(s, c))
      BY <1>2, <2>1, <3>2, FeedAssumption, AbsentAfter
    <3> QED BY <1>4, <3>5, <3>8, <3>9 DEF s
  <2> QED BY <2>4, <2>5
<1> QED BY <1>5, <1>6

(* A request begins, takes the price, and goes on to the fill.              *)
LEMMA RequestBeginsKeepsFeed ==
    ASSUME FeedInv, RequestBegins
    PROVE  FeedInv'
<1> DEFINE c == Command("request", 0, 0)
           s == line[api]
<1>1. c \in Anyone /\ c.by = "request" /\ c.waited = 0
  BY CommandIs DEF Own
<1> HIDE DEF c
<1>2. /\ Send(api, c) /\ UNCHANGED blocked /\ request' = "reading" /\ priceAge' = 0 /\ tripsLeft' = Trips
      /\ away' = 0
      /\ request \in {"none", "filled"}
      /\ UNCHANGED <<loop, coinbaseVars, cachedAge, heard, fed>>
  BY DEF RequestBegins, c
<1>3. c.by \notin OwnReaders(api)
  BY <1>1, OwnAreNoReaders
<1>4. /\ LinesOK' /\ line'[api] = Append(s, c)
      /\ \A q \in Processes \ {api} : line'[q] = line[q]
  BY <1>1, <1>2, <1>3, FeedNumbers, StreamLinesAre, SendKeepsLines
<1>5. s \in Seq(Anyone) /\ ApiLine(s, request, priceAge - away, tripsLeft)
  BY StreamLinesAre DEF FeedInv
<1> HIDE DEF s
<1>6. LoopsOK'
  <2>1. \A r \in Readers : Absent(r, line[api]) => Absent(r, line'[api])
    BY <1>1, <1>4, <1>5, FeedAssumption, AbsentAfter DEF s
  <2> QED BY <1>2, <1>4, <2>1, FeedNumbers, StreamLinesAre, OthersKeepLoops
<1>7. ApiLine(Append(s, c), "reading", 0, Trips)
  <2>1. Absent("request", s) /\ \A e \in Entered(s) : ByApi(e)
    BY <1>2, <1>5 DEF ApiLine
  <2> DEFINE t == Append(s, c)
  <2>2. /\ ~Absent("request", t) /\ \A e \in Entered(t) : ByApi(e)
        /\ \A i \in 1..Len(t) : t[i].by = "request" => i = Len(s) + 1 /\ t[i] = c
    BY <1>1, <1>5, <2>1, RequestSent
  <2> HIDE DEF t
  <2> QED BY <2>2, FeedNumbers DEF ApiLine, Going, t
<1>8. ApiLine(line[api], request, priceAge - away, tripsLeft)'
  <2>1. priceAge' - away' = 0
    BY <1>2
  <2> QED BY <1>2, <1>4, <1>7, <2>1
<1>9. StreamLine(line[stream], cachedAge, fed, heard)'
  BY <1>2, <1>4, FeedNumbers DEF FeedInv
<1>10. FeedTypes' /\ FeedNeverGivesUp' /\ (priceTimer <=> priceSocket = "none")'
  BY <1>2, FeedNumbers DEF FeedInv, FeedTypes, FeedNeverGivesUp, coinbaseVars, Stages3
<1> QED BY <1>4, <1>6, <1>8, <1>9, <1>10 DEF FeedInv

(* It sends another command;                                                *)
LEMMA RequestSendsKeepsFeed ==
    ASSUME FeedInv, RequestSends
    PROVE  FeedInv'
<1> DEFINE c == Command("request", 0, 0)
           s == line[api]
           age == priceAge - away
<1>1. c \in Anyone /\ c.by = "request" /\ c.waited = 0
  BY CommandIs DEF Own
<1> HIDE DEF c
<1>2. /\ Send(api, c) /\ UNCHANGED blocked /\ UNCHANGED requestVars
      /\ request \in {"stale", "fresh", "checked"} /\ tripsLeft > 0 /\ IsAway
      /\ UNCHANGED <<loop, coinbaseVars, cachedAge, heard, fed>>
  BY DEF RequestSends, c
<1>3. c.by \notin OwnReaders(api)
  BY <1>1, OwnAreNoReaders
<1>4. /\ LinesOK' /\ line'[api] = Append(s, c)
      /\ \A q \in Processes \ {api} : line'[q] = line[q]
  BY <1>1, <1>2, <1>3, FeedNumbers, StreamLinesAre, SendKeepsLines
<1>5. s \in Seq(Anyone) /\ ApiLine(s, request, age, tripsLeft) /\ age \in Int /\ tripsLeft \in 0..Trips
  BY StreamLinesAre, FeedTypesAre DEF FeedInv
<1>6. LoopsOK'
  <2>1. \A r \in Readers : Absent(r, line[api]) => Absent(r, line'[api])
    BY <1>1, <1>4, <1>5, FeedAssumption, AbsentAfter
  <2> QED BY <1>2, <1>4, <2>1, FeedNumbers, StreamLinesAre, OthersKeepLoops
<1>7. ApiLine(Append(s, c), request, age, tripsLeft)
  <2>1. Absent("request", s)
    BY <1>2, <1>5 DEF IsAway, Absent
  <2>2. \A e \in Entered(s) : ByApi(e)
    BY <1>5 DEF ApiLine
  <2> HIDE DEF s, age
  <2> DEFINE t == Append(s, c)
  <2>3. /\ ~Absent("request", t) /\ \A e \in Entered(t) : ByApi(e)
        /\ \A i \in 1..Len(t) : t[i].by = "request" => i = Len(s) + 1 /\ t[i] = c
    BY <1>1, <1>5, <2>1, <2>2, RequestSent
  <2> HIDE DEF t
  <2>4. tripsLeft >= 1
    BY <1>2, <1>5
  <2>5. request \in Going => age <= Limit(tripsLeft) + c.waited
    BY <1>1, <1>5, <2>1, LimitIs DEF ApiLine
  <2>6. request = "stale" => age <= 0
    BY <1>5 DEF ApiLine
  <2> QED BY <1>2, <2>3, <2>4, <2>5, <2>6 DEF ApiLine, t
<1>8. ApiLine(line[api], request, priceAge - away, tripsLeft)'
  BY <1>2, <1>4, <1>7 DEF requestVars
<1>9. StreamLine(line[stream], cachedAge, fed, heard)'
  BY <1>2, <1>4, FeedNumbers DEF FeedInv
<1>10. FeedTypes' /\ FeedNeverGivesUp' /\ (priceTimer <=> priceSocket = "none")'
  BY <1>2 DEF FeedInv, FeedTypes, FeedNeverGivesUp, coinbaseVars, requestVars
<1> QED BY <1>4, <1>6, <1>8, <1>9, <1>10 DEF FeedInv

(* which is answered;                                                       *)
LEMMA RequestTurns ==
    ASSUME FeedInv, Turn(api, "request"),
           NEW stage3 \in {"none", "stale", "fresh", "checked"},
           NEW taken \in Nat, NEW apart \in 0..MaxAway, NEW left \in 0..Trips,
           request' = stage3, priceAge' = taken, away' = apart, tripsLeft' = left, Answer(api),
           UNCHANGED <<loop, coinbaseVars, cachedAge, heard, fed>>,
           stage3 = "stale" => taken - apart <= 0,
           stage3 \in Going => taken - apart <= Limit(left)
    PROVE  FeedInv'
<1> DEFINE s == line[api]
           u == Tail(s)
<1>1. s \in Seq(Anyone) /\ ApiLine(s, request, priceAge - away, tripsLeft)
      /\ s # <<>> /\ s[1].by = "request"
  <2>1. s \in Seq(Anyone) /\ ApiLine(s, request, priceAge - away, tripsLeft)
    BY StreamLinesAre DEF FeedInv
  <2>2. s # <<>> /\ Head(s).by = "request"
    BY DEF Turn
  <2>3. Head(s) = s[1]
    BY <2>1, <2>2, TailIs
  <2> QED BY <2>1, <2>2, <2>3
<1>2. Absent("request", u) /\ \A e \in Entered(u) : ByApi(e)
  BY <1>1, RequestAnswered DEF ApiLine
<1>3. Command("request", 0, 0) \in Anyone /\ Command("request", 0, 0).by = "request"
  BY CommandIs DEF Own
<1>4. \A r \in Readers : Absent(r, s) => Absent(r, u)
  BY <1>1, <1>3, FeedAssumption, AbsentAfter
<1>5. /\ LinesOK' /\ line'[api] = u
      /\ \A q \in Processes \ {api} : line'[q] = line[q]
  BY <1>1, FeedNumbers, StreamLinesAre, AnswerKeepsLines
<1> HIDE DEF s, u
<1>6. ApiLine(u, stage3, taken - apart, left)
  BY <1>2 DEF ApiLine, Absent
<1>7. ApiLine(line[api], request, priceAge - away, tripsLeft)'
  BY <1>5, <1>6
<1>8. LoopsOK'
  BY <1>4, <1>5, FeedNumbers, StreamLinesAre, OthersKeepLoops DEF s
<1>9. StreamLine(line[stream], cachedAge, fed, heard)'
  BY <1>5, FeedNumbers DEF FeedInv
<1>10. FeedTypes' /\ FeedNeverGivesUp' /\ (priceTimer <=> priceSocket = "none")'
  BY DEF FeedInv, FeedTypes, FeedNeverGivesUp, coinbaseVars, Stages3
<1> QED BY <1>5, <1>7, <1>8, <1>9, <1>10 DEF FeedInv

(* the first of them with the price,                                        *)
LEMMA RequestReadsKeepsFeed ==
    ASSUME FeedInv, RequestReads
    PROVE  FeedInv'
<1>1. /\ Turn(api, "request") /\ request = "reading" /\ UNCHANGED <<tripsLeft, away>>
      /\ UNCHANGED <<loop, coinbaseVars, cachedAge, heard, fed>>
      /\ TakePrice(cachedAge) /\ Answer(api)
  BY DEF RequestReads
<1>2. /\ tripsLeft = Trips /\ cachedAge \in Nat /\ Trips \in Nat \ {0} /\ MaxAge \in Nat
      /\ away \in 0..MaxAway /\ MaxAway \in Nat
  BY <1>1, FeedTypesAre, FeedNumbers DEF FeedInv, ApiLine
<1>3. Trips \in 0..Trips /\ 0 \in Nat
  BY <1>2
<1>4. CASE cachedAge <= MaxAge
  <2>1. request' = "fresh" /\ priceAge' = cachedAge
    BY <1>1, <1>4 DEF TakePrice, IsFresh
  <2>2. cachedAge - away <= Limit(Trips)
    BY <1>2, <1>3, <1>4, LimitIs
  <2> QED BY <1>1, <1>2, <1>3, <2>1, <2>2, RequestTurns
<1>5. CASE ~(cachedAge <= MaxAge)
  <2>1. request' = "stale" /\ priceAge' = 0 /\ "stale" \notin Going
    BY <1>1, <1>5 DEF TakePrice, IsFresh, Going
  <2>2. 0 - away <= 0
    BY <1>2
  <2> QED BY <1>1, <1>2, <1>3, <2>1, <2>2, RequestTurns
<1> QED BY <1>4, <1>5

(* the others on the way to the fill.                                       *)
LEMMA RequestGoesOnKeepsFeed ==
    ASSUME FeedInv, RequestGoesOn
    PROVE  FeedInv'
<1> DEFINE s == line[api]
           W == LongestWait(api)
<1>1. /\ Turn(api, "request") /\ request \in {"stale", "fresh", "checked"}
      /\ tripsLeft' = tripsLeft - 1 /\ Answer(api)
      /\ UNCHANGED <<loop, coinbaseVars, cachedAge, heard, fed>>
      /\ \/ request # "stale" /\ request' = "checked" /\ UNCHANGED <<priceAge, away>>
         \/ request' = "none" /\ priceAge' = 0 /\ away' = 0
  BY DEF RequestGoesOn
<1>2. /\ priceAge \in Nat /\ Trips \in Nat \ {0} /\ W \in Nat /\ MaxAge \in Nat
      /\ away \in 0..MaxAway /\ MaxAway \in Nat /\ tripsLeft \in 0..Trips
      /\ Line(api, s, blocked[api]) /\ s \in Seq(Anyone)
      /\ ApiLine(s, request, priceAge - away, tripsLeft)
  BY FeedTypesAre, FeedNumbers, StreamLinesAre DEF FeedInv
<1>3. s # <<>> /\ s[1].by = "request" /\ 1 \in 1..Len(s) /\ s[1] \in Anyone
  <2>1. s # <<>> /\ Head(s).by = "request"
    BY <1>1 DEF Turn
  <2>2. Head(s) = s[1] /\ Len(s) \in Nat \ {0}
    BY <1>2, <2>1, TailIs
  <2>3. 1 \in 1..Len(s)
    BY <2>2
  <2> QED BY <1>2, <2>1, <2>2, <2>3
<1>4. /\ tripsLeft >= 1
      /\ request \in Going => priceAge - away <= Limit(tripsLeft) + s[1].waited
  BY <1>2, <1>3 DEF ApiLine
<1>5. s[1].waited <= W /\ s[1].waited \in Nat
  <2>1. s[1].waited <= LongestWait(api)
    BY <1>2, <1>3, WaitOfLine
  <2> QED BY <1>3, <2>1 DEF Anyone
<1>6. tripsLeft - 1 \in 0..Trips
  BY <1>2, <1>4
<1>7. request \in Going => priceAge - away <= Limit(tripsLeft - 1)
  <2>1. Limit(tripsLeft) \in Nat /\ Limit(tripsLeft - 1) = Limit(tripsLeft) + W
    BY <1>2, <1>4, LimitIs
  <2> DEFINE age == priceAge - away
             w == s[1].waited
  <2>2. age \in Int /\ (request \in Going => age <= Limit(tripsLeft) + w) /\ w <= W /\ w \in Nat
    BY <1>2, <1>4, <1>5
  <2> HIDE DEF age, w, s, W
  <2>3. request \in Going => age <= Limit(tripsLeft - 1)
    BY <1>2, <2>1, <2>2
  <2> QED BY <2>3 DEF age
<1>8. CASE request # "stale" /\ request' = "checked" /\ UNCHANGED <<priceAge, away>>
  <2>1. request \in Going
    BY <1>1, <1>8 DEF Going
  <2> QED BY <1>1, <1>2, <1>6, <1>7, <1>8, <2>1, RequestTurns
<1>9. CASE request' = "none" /\ priceAge' = 0 /\ away' = 0
  <2>1. "none" \notin Going /\ 0 \in 0..MaxAway
    BY <1>2 DEF Going
  <2> QED BY <1>1, <1>6, <1>9, <2>1, RequestTurns
<1> QED BY <1>1, <1>8, <1>9

LEMMA RequestFillsKeepsFeed ==
    ASSUME FeedInv, RequestFills
    PROVE  FeedInv'
<1>1. /\ request = "checked" /\ IsAway /\ tripsLeft = 0 /\ request' = "filled"
      /\ UNCHANGED <<linkVars, coinbaseVars, cachedAge, heard, fed, priceAge, tripsLeft, away>>
  BY DEF RequestFills
<1>2. /\ line[api] \in Seq(Anyone)
      /\ ApiLine(line[api], "checked", priceAge - away, 0)
  BY <1>1, StreamLinesAre DEF FeedInv
<1>3. Absent("request", line[api])
  BY <1>1, <1>2 DEF IsAway, Absent
<1>4. ApiLine(line[api], "filled", priceAge - away, 0)
  BY <1>2, <1>3 DEF ApiLine, Going
<1>5. ApiLine(line[api], request, priceAge - away, tripsLeft)'
  BY <1>1, <1>4 DEF linkVars
<1>6. LinesOK' /\ LoopsOK'
  BY <1>1 DEF FeedInv, LinesOK, LoopsOK, linkVars
<1>7. FeedTypes' /\ FeedNeverGivesUp' /\ (priceTimer <=> priceSocket = "none")'
  BY <1>1 DEF FeedInv, FeedTypes, FeedNeverGivesUp, coinbaseVars, Stages3
<1> QED BY <1>1, <1>5, <1>6, <1>7 DEF FeedInv, linkVars

(* A tick makes all of it older.                                            *)
LEMMA TickKeepsFeed ==
    ASSUME FeedInv, PriceTick
    PROVE  FeedInv'
<1>1. /\ LinkTick /\ heard' = FALSE
      /\ fed' = IF heard THEN Smaller(fed + 1, FedEnough) ELSE 0
      /\ cachedAge' = Smaller(cachedAge + 1, Forgotten)
      /\ UNCHANGED <<coinbaseVars, request, tripsLeft>>
  BY DEF PriceTick
<1>11. IF HoldsPrice
       THEN /\ priceAge' = priceAge + 1
            /\ IF IsAway THEN away < MaxAway /\ away' = away + 1 ELSE UNCHANGED away
       ELSE UNCHANGED <<priceAge, away>>
  BY DEF PriceTick
<1>2. /\ LinesOK' /\ LoopsOK'
      /\ line'[stream] = Older(line[stream]) /\ line'[api] = Older(line[api])
  BY <1>1, FeedNumbers, StreamLinesAre, TickKeepsLines
<1>3. /\ line[stream] \in Seq(Anyone) /\ line[api] \in Seq(Anyone)
      /\ StreamLine(line[stream], cachedAge, fed, heard)
      /\ ApiLine(line[api], request, priceAge - away, tripsLeft)
      /\ cachedAge \in 0..Forgotten /\ fed \in 0..FedEnough /\ heard \in BOOLEAN
      /\ request \in Stages3 /\ priceAge \in Nat /\ tripsLeft \in 0..Trips
      /\ away \in 0..MaxAway /\ MaxAway \in Nat
  BY FeedNumbers, StreamLinesAre, FeedTypesAre DEF FeedInv, FeedTypes
<1>4. /\ cachedAge' \in 0..Forgotten /\ cachedAge' <= cachedAge + 1
      /\ fed' \in 0..FedEnough /\ (heard => fed' <= fed + 1) /\ (~heard => fed' = 0)
  BY <1>1, <1>3, FeedBounds DEF Smaller
<1>12. /\ priceAge' \in Nat /\ away' \in 0..MaxAway
       /\ priceAge' - away' = IF request \in Going /\ ~Absent("request", line[api])
                              THEN (priceAge - away) + 1 ELSE priceAge - away
  <2>1. IsAway <=> Absent("request", line[api])
    BY <1>3 DEF IsAway, Absent
  <2>2. HoldsPrice <=> request \in Going
    BY DEF HoldsPrice, Going
  <2>3. CASE ~HoldsPrice
    BY <1>3, <1>11, <2>2, <2>3
  <2>4. CASE HoldsPrice /\ IsAway
    BY <1>3, <1>11, <2>1, <2>4
  <2>5. CASE HoldsPrice /\ ~IsAway
    BY <1>3, <1>11, <2>1, <2>2, <2>5
  <2> QED BY <2>3, <2>4, <2>5
<1>5. ASSUME NEW i \in 1..Len(line[stream]), line[stream][i].by = "price",
             line[stream][i].made <= cachedAge
      PROVE  line[stream][i].made + 1 <= cachedAge'
  <2> DEFINE s == line[stream]
             t == line'[stream]
  <2>1. Line(stream, t, blocked'[stream])
    BY <1>2, FeedNumbers DEF LinesOK
  <2>2. /\ Len(t) = Len(s) /\ Len(s) \in Nat
        /\ s[i] \in Anyone /\ t[i].waited = s[i].waited + 1
    BY <1>2, <1>3, OlderIs
  <2>3. t[i].waited <= LongestWait(stream)
    BY <2>1, <2>2, WaitOfLine
  <2>4. s[i].made = s[i].waited
    BY <1>3, <1>5 DEF StreamLine, Prices
  <2>5. s[i].made \in Nat /\ s[i].waited \in Nat
    BY <2>2 DEF Anyone
  <2>6. s[i].made + 1 <= LongestWait(stream)
    BY <2>2, <2>3, <2>4
  <2> HIDE DEF s, t
  <2>7. s[i].made <= cachedAge
    BY <1>5 DEF s
  <2>8. s[i].made + 1 <= cachedAge'
    <3> DEFINE m == s[i].made
    <3>1. m \in Nat /\ m + 1 <= LongestWait(stream) /\ m <= cachedAge
      BY <2>5, <2>6, <2>7
    <3>2. LongestWait(stream) \in Nat /\ Forgotten \in Nat /\ LongestWait(stream) + 1 < Forgotten
      BY FeedBounds, FeedNumbers
    <3>3. cachedAge' = IF cachedAge + 1 < Forgotten THEN cachedAge + 1 ELSE Forgotten
      BY <1>1 DEF Smaller
    <3> HIDE DEF m
    <3>4. cachedAge \in Nat
      BY <1>3, <3>2
    <3>5. m + 1 <= cachedAge'
      BY <3>1, <3>2, <3>3, <3>4
    <3> QED BY <3>5 DEF m
  <2> QED BY <2>8 DEF s
<1>6. StreamLine(Older(line[stream]), cachedAge', fed', FALSE)
  <2>1. cachedAge \in Nat /\ fed \in Nat /\ cachedAge' \in Nat /\ fed' \in Nat
    BY <1>3, <1>4
  <2> QED BY <1>3, <1>4, <1>5, <2>1, StreamLineOlder
<1>7. StreamLine(line[stream], cachedAge, fed, heard)'
  BY <1>1, <1>2, <1>6
<1>8. ApiLine(Older(line[api]), request, priceAge' - away', tripsLeft)
  <2>1. priceAge - away \in Int /\ priceAge' - away' \in Int
    BY <1>3, <1>12
  <2> QED BY <1>3, <1>12, <2>1, ApiLineOlder
<1>9. ApiLine(line[api], request, priceAge - away, tripsLeft)'
  BY <1>1, <1>2, <1>8
<1>10. FeedTypes' /\ FeedNeverGivesUp' /\ (priceTimer <=> priceSocket = "none")'
  BY <1>1, <1>4, <1>12 DEF FeedInv, FeedTypes, FeedNeverGivesUp, coinbaseVars
<1> QED BY <1>2, <1>7, <1>9, <1>10 DEF FeedInv

LEMMA FeedUnchanged ==
    ASSUME FeedInv, UNCHANGED priceVars
    PROVE  FeedInv'
<1>1. LinesOK' /\ LoopsOK'
  BY DEF FeedInv, priceVars, linkVars, LinesOK, LoopsOK
<1>2. FeedTypes' /\ FeedNeverGivesUp' /\ (priceTimer <=> priceSocket = "none")'
  BY DEF FeedInv, priceVars, coinbaseVars, requestVars, FeedTypes, FeedNeverGivesUp
<1> QED BY <1>1, <1>2 DEF FeedInv, priceVars, linkVars, requestVars

LEMMA FeedStarts ==
    ASSUME PriceInit
    PROVE  FeedInv
<1>1. LinesOK
  <2>1. <<>> \in Seq(Anyone)
    OBVIOUS
  <2>2. \A p \in Processes : line[p] = <<>> /\ blocked[p] = 0
    BY DEF PriceInit, LinkInit
  <2>3. \A p \in Processes : Line(p, line[p], blocked[p])
    <3>1. ASSUME NEW p PROVE Line(p, <<>>, 0)
      BY <2>1, ZeroBlocked DEF Line, Single, Waits
    <3> QED BY <2>2, <3>1
  <2>4. line \in [Processes -> Seq(Anyone)] /\ blocked \in [Processes -> 0..Block]
    BY <2>1, ZeroBlocked DEF PriceInit, LinkInit
  <2> QED BY <2>3, <2>4 DEF LinesOK
<1>2. line[stream] = <<>> /\ line[api] = <<>> /\ \A p \in Processes : line[p] = <<>>
  BY FeedNumbers DEF PriceInit, LinkInit
<1>3. LoopsOK
  <2>1. \A r \in Readers : ReaderOf[r] \in Processes
    BY LinkAssumption
  <2>2. loop \in [Readers -> {"ready", "reading", "acking", "resting"}]
    BY DEF PriceInit, LinkInit
  <2> QED BY <1>2, <2>1, <2>2 DEF LoopsOK, Absent
<1>4. StreamLine(line[stream], cachedAge, fed, heard)
  <2>1. StreamLine(<<>>, cachedAge, 0, FALSE)
    BY DEF StreamLine, Entered, Prices, Fed
  <2> QED BY <1>2, <2>1 DEF PriceInit
<1>5. ApiLine(line[api], request, priceAge - away, tripsLeft)
  <2>1. ApiLine(<<>>, "none", 0, 0)
    BY DEF ApiLine, Entered, Absent, Going
  <2>2. priceAge - away = 0
    BY DEF PriceInit
  <2> QED BY <1>2, <2>1, <2>2 DEF PriceInit
<1>6. FeedTypes /\ FeedNeverGivesUp /\ (priceTimer <=> priceSocket = "none")
  <2>1. 0 \in 0..Trips /\ 0 \in 0..FedEnough /\ Forgotten \in 0..Forgotten /\ "none" \in Stages3
        /\ 0 \in 0..MaxAway
    BY FeedBounds, FeedNumbers DEF Stages3
  <2> HIDE DEF Forgotten
  <2>2. FeedTypes
    BY <2>1 DEF PriceInit, FeedTypes
  <2> QED BY <2>2 DEF PriceInit, FeedNeverGivesUp
<1> QED BY <1>1, <1>3, <1>4, <1>5, <1>6 DEF FeedInv

LEMMA FeedStep ==
    ASSUME FeedInv, [PriceNext]_priceVars
    PROVE  FeedInv'
<1>1. CASE ReaderStep
  BY <1>1, ReaderKeepsFeed
<1>2. CASE CoinbaseStep
  BY <1>2, CoinbaseKeepsFeed
<1>3. CASE PriceTick
  BY <1>3, TickKeepsFeed
<1>4. CASE PriceReceived
  BY <1>4, ReceivedKeepsFeed
<1>5. CASE PriceWritten
  BY <1>5, WrittenKeepsFeed
<1>6. CASE CountdownsBegin \/ CountdownWritten
  BY <1>6, CountdownsKeepFeed
<1>7. CASE RequestBegins
  BY <1>7, RequestBeginsKeepsFeed
<1>8. CASE RequestReads
  BY <1>8, RequestReadsKeepsFeed
<1>9. CASE RequestGoesOn
  BY <1>9, RequestGoesOnKeepsFeed
<1>12. CASE RequestSends
  BY <1>12, RequestSendsKeepsFeed
<1>13. CASE RequestFills
  BY <1>13, RequestFillsKeepsFeed
<1>10. CASE WritesAreLost
  BY <1>10, LossKeepsFeed
<1>11. CASE UNCHANGED priceVars
  BY <1>11, FeedUnchanged
<1> QED BY <1>1, <1>2, <1>3, <1>4, <1>5, <1>6, <1>7, <1>8, <1>9, <1>10, <1>11, <1>12, <1>13
        DEF PriceNext

LEMMA FeedInvHolds == PriceSpec => []FeedInv
<1>1. FeedInv /\ [PriceNext]_priceVars => FeedInv'
  BY FeedStep
<1> QED BY FeedStarts, <1>1, PTL DEF PriceSpec

-----------------------------------------------------------------------------
(* What the invariant says of the waits, the cache and the countdowns: no   *)
(* command waits for longer than one read of each loop of its process; the  *)
(* cache fed in every tick is no older than that and a tick; the n-th       *)
(* market's countdown is at most n waits old; and the socket of the prices  *)
(* or the timer that opens another is always there.                         *)
LEMMA FeedInvSays ==
    ASSUME FeedInv
    PROVE  PriceInv
<1> DEFINE W == LongestWait(stream)
           s == line[stream]
<1>1. /\ line \in [Processes -> Seq(Anyone)] /\ blocked \in [Processes -> 0..Block]
      /\ \A p \in Processes : Line(p, line[p], blocked[p])
  BY DEF FeedInv, LinesOK
<1>2. \A p \in Processes : Len(line[p]) \in Nat /\ DOMAIN line[p] = 1..Len(line[p])
  BY <1>1
<1>3. WaitIsBounded
  BY <1>1, <1>2, WaitOfLine DEF WaitIsBounded
<1>4. /\ StreamLine(s, cachedAge, fed, heard) /\ ApiLine(line[api], request, priceAge - away, tripsLeft)
      /\ cachedAge \in Nat /\ fed \in Nat /\ W \in Nat /\ FedEnough = W + 2
  BY FeedTypesAre, FeedBounds, FeedNumbers DEF FeedInv
<1>5. \A i \in 1..Len(s) : s[i].waited <= W /\ s[i] \in Anyone
  <2>1. Line(stream, s, blocked[stream]) /\ s \in Seq(Anyone)
    BY <1>1, FeedNumbers
  <2> QED BY <2>1, WaitOfLine
<1>6. PriceTypeOK
  <2>1. ASSUME NEW p \in Processes, NEW i \in DOMAIN line[p]
        PROVE  /\ line[p][i].by \in OwnReaders(p) \cup (IF p = stream THEN {"price", "countdown"} ELSE {"request"})
               /\ line[p][i].waited \in Nat /\ line[p][i].made \in Nat
    <3>1. i \in 1..Len(line[p]) /\ line[p][i] \in Anyone /\ line[p][i] \in Entered(line[p])
      BY <1>1, <1>2, <2>1 DEF Entered
    <3>2. line[p][i].waited \in Nat /\ line[p][i].made \in Nat
      BY <3>1 DEF Anyone
    <3>3. CASE p = stream
      BY <1>4, <3>1, <3>2, <3>3 DEF StreamLine, ByStream
    <3>4. CASE p = api
      BY <1>4, <3>1, <3>2, <3>4, FeedNumbers DEF ApiLine, ByApi
    <3> QED BY <3>3, <3>4, FeedNumbers
  <2>2. loop \in [Readers -> {"ready", "reading", "acking", "resting"}]
    BY DEF FeedInv, LoopsOK
  <2> QED BY <1>1, <2>1, <2>2 DEF FeedInv, FeedTypes, PriceTypeOK, Stages3
<1>7. CacheIsFed
  <2> SUFFICES ASSUME fed = FedEnough PROVE cachedAge <= W + 1
    BY DEF CacheIsFed
  <2>1. W + 1 \in Nat /\ W + 1 < fed /\ W + 1 > 0
    BY <1>4
  <2>2. Known(s, cachedAge, W + 1)
    BY <1>4, <2>1 DEF StreamLine, Fed
  <2>3. ASSUME NEW i \in 1..Len(s), s[i].by = "price", s[i].made = W + 1
        PROVE  FALSE
    <3>1. s[i].made = s[i].waited
      BY <1>4, <2>3 DEF StreamLine, Prices
    <3>2. s[i].waited <= W /\ s[i].waited \in Nat
      BY <1>5 DEF Anyone
    <3> HIDE DEF s, W
    <3> QED BY <1>4, <2>3, <3>1, <3>2
  <2> QED BY <2>2, <2>3 DEF Known
<1>8. CountdownAge
  <2> SUFFICES ASSUME NEW i \in DOMAIN s, s[i].by = "countdown"
               PROVE  s[i].made <= s[i].nth * W
    BY DEF CountdownAge
  <2>1. i \in 1..Len(s) /\ s[i] \in Anyone /\ s[i].waited <= W
    BY <1>2, <1>5, FeedNumbers
  <2>2. CountdownOK(s[i])
    BY <1>4, <2>1 DEF StreamLine, Entered
  <2> DEFINE x == (s[i].nth - 1) * W
             y == s[i].nth * W
  <2>3. s[i].made <= s[i].waited + x
    BY <2>2 DEF CountdownOK
  <2>4. s[i].nth \in Nat /\ s[i].made \in Nat /\ s[i].waited \in Nat
    BY <2>1 DEF Anyone
  <2>5. \A n, l \in Nat : n * l = (n - 1) * l + l /\ (n - 1) * l \in Int
    OBVIOUS
  <2>6. y = x + W /\ x \in Int
    BY <1>4, <2>4, <2>5
  <2> HIDE DEF x, y
  <2>7. s[i].made <= y
    <3> HIDE DEF s, W
    <3> QED BY <1>4, <2>1, <2>3, <2>4, <2>6
  <2> QED BY <2>7 DEF y
<1> QED BY <1>3, <1>6, <1>7, <1>8 DEF PriceInv, FeedInv

(* However the reads of one connection get in each other's way, whatever is *)
(* lost and whenever sockets come and go, for any number of loops, any block*)
(* time and any number of markets: no command waits for longer than one read*)
(* of each loop, the cache that is fed is no older than that and a tick, and*)
(* the countdowns no older than the waits before them.                      *)
THEOREM PriceInvHolds == PriceSpec => []PriceInv
<1>1. FeedInv => PriceInv
  BY FeedInvSays
<1> QED BY <1>1, FeedInvHolds, PTL

(* An order is filled on a price that was fresh at the answer, older by one *)
(* longest wait for each command after it, and by the time that the request *)
(* spent with no command in line, which nothing bounds.                     *)
THEOREM FilledOnRecentPriceHolds == PriceSpec => []FilledOnRecentPrice
<1>1. ASSUME FeedInv PROVE FilledOnRecentPrice
  <2> DEFINE s == line[api]
             W == LongestWait(api)
             age == priceAge - away
             y == Trips * W
  <2>1. /\ ApiLine(s, request, age, tripsLeft) /\ s \in Seq(Anyone)
        /\ Line(api, s, blocked[api]) /\ request \in Stages3 /\ tripsLeft \in 0..Trips
        /\ W \in Nat /\ MaxAge \in Nat /\ Trips \in Nat /\ priceAge \in Nat
        /\ away \in 0..MaxAway /\ MaxAway \in Nat
    BY <1>1, FeedTypesAre, FeedNumbers, StreamLinesAre DEF FeedInv
  <2>2. /\ Limit(tripsLeft) \in Nat /\ Limit(tripsLeft) <= MaxAge + y
        /\ tripsLeft >= 1 => Limit(tripsLeft) + W <= MaxAge + y
    BY <2>1, LimitIs
  <2>3. y \in Nat /\ Limit(0) <= MaxAge + y
    <3>1. 0 \in 0..Trips
      BY <2>1
    <3>2. Limit(0) <= MaxAge + y
      BY <3>1, LimitIs
    <3>3. \A j, k \in Nat : j * k \in Nat
      OBVIOUS
    <3>4. y \in Nat
      BY <2>1, <3>3, Zenon
    <3> QED BY <3>2, <3>4
  <2> HIDE DEF y
  <2>4. request # "none" => age <= MaxAge + y
    <3>1. CASE request \in {"reading", "stale"}
      <4>1. age <= 0
        BY <2>1, <3>1 DEF ApiLine
      <4> QED BY <2>1, <2>3, <4>1
    <3>2. CASE request \in Going /\ Absent("request", s)
      <4>1. age <= Limit(tripsLeft)
        BY <2>1, <3>2 DEF ApiLine
      <4> QED BY <2>1, <2>2, <2>3, <4>1
    <3>3. CASE request \in Going /\ ~Absent("request", s)
      <4>1. PICK i \in 1..Len(s) : s[i].by = "request"
        BY <3>3 DEF Absent
      <4>2. tripsLeft >= 1 /\ age <= Limit(tripsLeft) + s[i].waited
        BY <2>1, <3>3, <4>1 DEF ApiLine
      <4>3. s[i].waited <= W /\ s[i].waited \in Nat
        <5>1. s[i].waited <= W
          BY <2>1, <4>1, WaitOfLine
        <5>2. s[i] \in Anyone
          BY <2>1, <4>1
        <5> QED BY <5>1, <5>2 DEF Anyone
      <4> DEFINE w == s[i].waited
      <4>4. age \in Int /\ w \in Nat /\ w <= W /\ age <= Limit(tripsLeft) + w
        BY <2>1, <4>2, <4>3
      <4> HIDE DEF age, w, s, W
      <4> QED BY <2>1, <2>2, <2>3, <4>2, <4>4
    <3>4. CASE request = "filled"
      <4>1. age <= Limit(0)
        BY <2>1, <3>4 DEF ApiLine
      <4>2. 0 \in 0..Trips
        BY <2>1
      <4>3. Limit(0) \in Nat
        BY <4>2, LimitIs
      <4> QED BY <2>1, <2>3, <4>1, <4>3
    <3> QED BY <2>1, <3>1, <3>2, <3>3, <3>4 DEF Stages3, Going
  <2>5. request # "none" => priceAge <= MaxAge + y + away
    BY <2>1, <2>3, <2>4
  <2> QED BY <2>5 DEF FilledOnRecentPrice, y
<1> QED BY <1>1, FeedInvHolds, PTL
-----------------------------------------------------------------------------
(***************************************************************************)
(* The registry and the rows.  Read is the last event that was handled, or *)
(* that a group which goes on will not be given again.                     *)
(***************************************************************************)
Read == IF up = "down" THEN (IF group = None THEN Len(log) ELSE group) ELSE handled

LastOf(i) == \A j \in i + 1 .. Len(log) : log[j].market # log[i].market

Unread(m) == \E i \in Read + 1 .. Len(log) : log[i].market = m

ReaderOK ==
    /\ up \in {"down", "boot", "on"}
    /\ group \in 0..Len(log) \cup {None}
    /\ handled \in 0..Len(log)
    /\ up # "down" => group \in 0..Len(log) /\ handled <= group
    /\ up = "boot" => handled = group
    /\ up # "on" => tracked = Untracked
    /\ tracked \in [Markets -> {"known", "epoch", None}]
    /\ silent \subseteq Markets /\ unheard \subseteq Markets

(* Discovered first.                                                        *)
FirstsOK ==
    /\ \A m \in Markets : live[m] = None =>
          /\ tracked[m] = None
          /\ \A i \in 1..Len(log) : log[i].market # m
          /\ news # None => news.market # m
    /\ news # None /\ news.type = "MARKET_DISCOVERED" =>
          /\ \A i \in 1..Len(log) : log[i].market # news.market
          /\ ~news.active => tracked[news.market] = None
    /\ news # None /\ ~news.active => live[news.market] = FALSE
    /\ \A i, j \in 1..Len(log) :
          log[i].type = "MARKET_DISCOVERED" /\ j < i => log[j].market # log[i].market

(* What is unread of a market ends with its row, if its last turn was told. *)
NewsOK ==
    /\ news # None /\ news.active # live[news.market] => news.market \in silent
    /\ \A i \in 1..Len(log) :
          i > Read /\ LastOf(i) /\ log[i].market \notin silent =>
              /\ log[i].active = live[log[i].market]
              /\ log[i].type = "MARKET_DISCOVERED" /\ ~log[i].active => tracked[log[i].market] = None

RegistryOK ==
    up = "on" => \A m \in Markets :
        m \notin silent \cup unheard /\ ~Unread(m) => (tracked[m] # None) = (live[m] = TRUE)

RowsInv == EventsTypeOK /\ ReaderOK /\ FirstsOK /\ NewsOK /\ RegistryOK

LEMMA NoneIsNoRecord == None # "known" /\ None # "epoch" /\ None # "old" /\ None # "new"
BY StreamAssumption

LEMMA NoneIsNoBoolean == None # TRUE /\ None # FALSE
BY EventsAssumption

LEMMA EventIs ==
    ASSUME NEW e \in MarketEvent
    PROVE  /\ e.market \in Markets /\ e.active \in BOOLEAN
           /\ e.type \in {"MARKET_DISCOVERED", "MARKET_LIFECYCLE_CHANGED"}
BY DEF MarketEvent

LEMMA LogIs ==
    ASSUME EventsTypeOK
    PROVE  /\ Len(log) \in Nat /\ \A i \in 1..Len(log) : log[i] \in MarketEvent
           /\ \A i \in 1..Len(log) : log[i].market \in Markets /\ log[i].active \in BOOLEAN
<1>1. Len(log) \in Nat /\ \A i \in 1..Len(log) : log[i] \in MarketEvent
  BY DEF EventsTypeOK
<1> QED BY <1>1, EventIs

LEMMA ReadIs ==
    ASSUME EventsTypeOK, ReaderOK
    PROVE  /\ Read \in 0..Len(log) /\ Len(log) \in Nat
           /\ up # "down" => Read = handled /\ group \in 0..Len(log) /\ handled <= group
<1>1. Len(log) \in Nat
  BY LogIs
<1> QED BY <1>1 DEF ReaderOK, Read

(* What leaves the rows, the log and the registry alone.                    *)
LEMMA ElsewhereKeepsRows ==
    ASSUME RowsInv, UNCHANGED <<eventVars, up, handled, tracked, unheard, silent>>,
           group' = group \/ (up = "on" /\ group' = Len(log))
    PROVE  RowsInv'
<1>1. /\ EventsTypeOK /\ ReaderOK /\ FirstsOK /\ NewsOK /\ RegistryOK
      /\ live' = live /\ news' = news /\ log' = log
      /\ up' = up /\ handled' = handled /\ tracked' = tracked /\ unheard' = unheard /\ silent' = silent
  BY DEF RowsInv, eventVars
<1>2. Read' = Read
  BY <1>1 DEF Read
<1>3. Len(log) \in Nat /\ Len(log) \in 0..Len(log) /\ handled \in 0..Len(log)
  BY <1>1, LogIs DEF ReaderOK
<1>4. EventsTypeOK'
  BY <1>1 DEF EventsTypeOK
<1>5. ReaderOK'
  <2>1. CASE group' = group
    BY <1>1, <2>1 DEF ReaderOK
  <2>2. CASE up = "on" /\ group' = Len(log)
    BY <1>1, <1>3, <2>2 DEF ReaderOK
  <2> QED BY <2>1, <2>2
<1>6. FirstsOK'
  BY <1>1 DEF FirstsOK
<1>7. NewsOK'
  BY <1>1, <1>2 DEF NewsOK, LastOf
<1>8. RegistryOK'
  BY <1>1, <1>2 DEF RegistryOK, Unread
<1> QED BY <1>4, <1>5, <1>6, <1>7, <1>8 DEF RowsInv

LEMMA BootKeepsRows ==
    ASSUME RowsInv, Boot
    PROVE  RowsInv'
<1>1. /\ EventsTypeOK /\ ReaderOK /\ FirstsOK /\ NewsOK
      /\ live' = live /\ news' = news /\ log' = log
      /\ up = "down" /\ up' = "boot" /\ handled' = group'
      /\ group' = IF group = None THEN Len(log) ELSE group
      /\ tracked' = tracked /\ unheard' = unheard /\ silent' = silent
  BY DEF RowsInv, eventVars, Boot, history
<1>2. Len(log) \in Nat
  BY <1>1, LogIs
<1>3. Read' = Read
  BY <1>1 DEF Read
<1>4. ReaderOK'
  BY <1>1, <1>2 DEF ReaderOK
<1>5. EventsTypeOK' /\ FirstsOK' /\ NewsOK'
  BY <1>1, <1>3 DEF EventsTypeOK, FirstsOK, NewsOK, LastOf
<1>6. RegistryOK'
  BY <1>1 DEF RegistryOK
<1> QED BY <1>4, <1>5, <1>6 DEF RowsInv

LEMMA RestartKeepsRows ==
    ASSUME RowsInv, Restart
    PROVE  RowsInv'
<1>1. /\ EventsTypeOK /\ ReaderOK /\ FirstsOK /\ NewsOK
      /\ live' = live /\ news' = news /\ log' = log
      /\ up # "down" /\ up' = "down" /\ handled' = 0 /\ group' = group
      /\ tracked' = Untracked /\ unheard' = {} /\ silent' = silent
  BY DEF RowsInv, eventVars, Restart
<1>2. /\ Len(log) \in Nat /\ group \in 0..Len(log) /\ handled <= group /\ Read = handled
      /\ handled \in 0..Len(log)
  BY <1>1, LogIs DEF ReaderOK, Read
<1>3. Read' \in 0..Len(log) /\ Read <= Read'
  BY <1>1, <1>2 DEF Read
<1>4. ReaderOK'
  BY <1>1, <1>2 DEF ReaderOK, Untracked
<1>5. \A m \in Markets : tracked'[m] = None
  BY <1>1 DEF Untracked
<1>6. FirstsOK'
  <2>1. news # None => news.market \in Markets
    BY <1>1, EventIs DEF EventsTypeOK
  <2> QED BY <1>1, <1>5, <2>1 DEF FirstsOK
<1>7. NewsOK'
  <2>1. ASSUME NEW i \in 1..Len(log), i > Read', LastOf(i), log[i].market \notin silent
        PROVE  log[i].active = live[log[i].market] /\ tracked'[log[i].market] = None
    <3>1. i > Read
      BY <1>2, <1>3, <2>1
    <3>2. log[i].market \in Markets
      BY <1>1, LogIs
    <3> QED BY <1>1, <1>5, <2>1, <3>1, <3>2 DEF NewsOK
  <2>2. \A i \in 1..Len(log) : LastOf(i)' <=> LastOf(i)
    BY <1>1 DEF LastOf
  <2> QED BY <1>1, <2>1, <2>2 DEF NewsOK
<1>8. EventsTypeOK' /\ RegistryOK'
  BY <1>1 DEF EventsTypeOK, RegistryOK
<1> QED BY <1>4, <1>6, <1>7, <1>8 DEF RowsInv

(* The bootstrap takes the rows as they are.                                *)
LEMMA StartKeepsRows ==
    ASSUME RowsInv, Start
    PROVE  RowsInv'
<1> DEFINE later(m) == \/ \E i \in group + 1 .. Len(log) : log[i].market = m
                       \/ news # None /\ news.market = m
<1>1. /\ EventsTypeOK /\ ReaderOK /\ FirstsOK /\ NewsOK
      /\ live' = live /\ news' = news /\ log' = log
      /\ up = "boot" /\ up' = "on" /\ handled' = handled /\ group' = group
      /\ tracked' = [m \in Markets |-> IF live[m] = TRUE THEN "known" ELSE None]
      /\ unheard' = unheard
      /\ silent' = {m \in silent : later(m)}
  BY DEF RowsInv, eventVars, Start
<1>2. Len(log) \in Nat /\ group = handled /\ Read = handled /\ Read' = Read /\ handled \in 0..Len(log)
  BY <1>1, LogIs DEF ReaderOK, Read
<1>3. \A m \in Markets : tracked'[m] = IF live[m] = TRUE THEN "known" ELSE None
  BY <1>1
<1>4. ReaderOK'
  BY <1>1, <1>2 DEF ReaderOK
<1>5. FirstsOK'
  <2>1. news # None => news.market \in Markets
    BY <1>1, EventIs DEF EventsTypeOK
  <2>2. \A m \in Markets : live[m] = None => tracked'[m] = None
    BY <1>3, NoneIsNoBoolean
  <2>3. news # None /\ news.type = "MARKET_DISCOVERED" /\ ~news.active => tracked'[news.market] = None
    BY <1>1, <1>3, <2>1 DEF FirstsOK
  <2> QED BY <1>1, <2>2, <2>3 DEF FirstsOK
<1>6. NewsOK'
  <2>1. ASSUME news # None, news.active # live[news.market]
        PROVE  news.market \in silent'
    BY <1>1, <2>1 DEF NewsOK
  <2>2. ASSUME NEW i \in 1..Len(log), i > Read, LastOf(i), log[i].market \notin silent'
        PROVE  /\ log[i].active = live[log[i].market]
               /\ ~log[i].active => tracked'[log[i].market] = None
    <3>1. i \in group + 1 .. Len(log)
      BY <1>2, <2>2
    <3>2. log[i].market \notin silent
      BY <1>1, <2>2, <3>1
    <3>3. log[i].active = live[log[i].market] /\ log[i].market \in Markets /\ log[i].active \in BOOLEAN
      BY <1>1, <2>2, <3>2, LogIs DEF NewsOK
    <3> QED BY <1>3, <3>3
  <2>3. \A i \in 1..Len(log) : LastOf(i)' <=> LastOf(i)
    BY <1>1 DEF LastOf
  <2> QED BY <1>1, <1>2, <2>1, <2>2, <2>3 DEF NewsOK
<1>7. RegistryOK'
  BY <1>1, <1>3, NoneIsNoRecord DEF RegistryOK
<1>8. EventsTypeOK'
  BY <1>1 DEF EventsTypeOK
<1> QED BY <1>4, <1>5, <1>6, <1>7, <1>8 DEF RowsInv

(* An answer is lost.                                                       *)
LEMMA LostReadKeepsRows ==
    ASSUME RowsInv, ReadLost
    PROVE  RowsInv'
<1>1. /\ EventsTypeOK /\ ReaderOK /\ FirstsOK /\ NewsOK /\ RegistryOK
      /\ live' = live /\ news' = news /\ log' = log
      /\ up = "on" /\ up' = "on" /\ handled = group /\ group' = Len(log) /\ handled' = Len(log)
      /\ tracked' = tracked /\ silent' = silent
      /\ unheard' = unheard \cup {log[i].market : i \in group + 1 .. Len(log)}
  BY DEF RowsInv, eventVars, ReadLost
<1>2. Len(log) \in Nat /\ handled \in 0..Len(log) /\ Read = handled /\ Read' = Len(log)
  BY <1>1, LogIs DEF ReaderOK, Read
<1>3. ReaderOK'
  <2>1. \A i \in group + 1 .. Len(log) : log[i].market \in Markets
    BY <1>1, <1>2, LogIs
  <2>2. unheard' \subseteq Markets
    BY <1>1, <2>1 DEF ReaderOK
  <2> QED BY <1>1, <1>2, <2>2 DEF ReaderOK
<1>4. EventsTypeOK' /\ FirstsOK'
  BY <1>1 DEF EventsTypeOK, FirstsOK
<1>5. NewsOK'
  <2>1. \A i \in 1..Len(log) : ~(i > Read')
    BY <1>2
  <2> QED BY <1>1, <2>1 DEF NewsOK
<1>6. RegistryOK'
  <2> SUFFICES ASSUME NEW m \in Markets, m \notin silent, m \notin unheard'
               PROVE  (tracked[m] # None) = (live[m] = TRUE)
    BY <1>1 DEF RegistryOK
  <2>1. ~Unread(m)
    BY <1>1, <1>2 DEF Unread
  <2> QED BY <1>1, <2>1 DEF RegistryOK
<1> QED BY <1>3, <1>4, <1>5, <1>6 DEF RowsInv

(* What an event does to the registry.                                      *)
LEMMA EventHandled ==
    ASSUME NEW e \in MarketEvent, tracked \in [Markets -> {"known", "epoch", None}],
           HandleScannerEvent(e)
    PROVE  /\ tracked' \in [Markets -> {"known", "epoch", None}]
           /\ \A m \in Markets : m # e.market => tracked'[m] = tracked[m]
           /\ e.active => tracked'[e.market] # None
           /\ ~e.active /\ e.type # "MARKET_DISCOVERED" => tracked'[e.market] = None
           /\ ~e.active /\ e.type = "MARKET_DISCOVERED" => tracked' = tracked
<1>1. e.market \in Markets /\ e.active \in BOOLEAN
  BY EventIs
<1> DEFINE m0 == e.market
<1>2. CASE e.active /\ e.type = "MARKET_DISCOVERED"
  <2>1. tracked' = [tracked EXCEPT ![m0] = "known"]
    BY <1>2 DEF HandleScannerEvent, Register
  <2> QED BY <1>1, <1>2, <2>1, NoneIsNoRecord
<1>3. CASE e.active /\ e.type # "MARKET_DISCOVERED"
  <2>1. IF tracked[m0] = None THEN tracked' = [tracked EXCEPT ![m0] = "epoch"] ELSE tracked' = tracked
    BY <1>3 DEF HandleScannerEvent, Reactivate
  <2> QED BY <1>1, <1>3, <2>1, NoneIsNoRecord
<1>4. CASE ~e.active /\ e.type = "MARKET_DISCOVERED"
  <2>1. tracked' = tracked
    BY <1>4 DEF HandleScannerEvent
  <2> QED BY <1>1, <1>4, <2>1
<1>5. CASE ~e.active /\ e.type # "MARKET_DISCOVERED"
  <2>1. tracked' = [tracked EXCEPT ![m0] = None]
    BY <1>5 DEF HandleScannerEvent, Drop
  <2> QED BY <1>1, <1>5, <2>1
<1> QED BY <1>1, <1>2, <1>3, <1>4, <1>5

LEMMA HandleKeepsRows ==
    ASSUME RowsInv, Handle
    PROVE  RowsInv'
<1> DEFINE h == handled + 1
           e == log[h]
<1>1. /\ EventsTypeOK /\ ReaderOK /\ FirstsOK /\ NewsOK /\ RegistryOK
      /\ live' = live /\ news' = news /\ log' = log
      /\ up = "on" /\ up' = "on" /\ handled < group /\ group' = group /\ handled' = h
      /\ silent' = silent /\ unheard' = unheard
      /\ HandleScannerEvent(e)
  BY DEF RowsInv, eventVars, Handle
<1>2. /\ Len(log) \in Nat /\ handled \in 0..Len(log) /\ group \in 0..Len(log)
      /\ Read = handled /\ Read' = h
      /\ tracked \in [Markets -> {"known", "epoch", None}]
  BY <1>1, LogIs DEF ReaderOK, Read
<1>3. h \in 1..Len(log) /\ h > handled /\ h <= group
  BY <1>1, <1>2
<1>4. e \in MarketEvent /\ e.market \in Markets /\ e.active \in BOOLEAN
  BY <1>1, <1>3, LogIs, EventIs
<1>5. /\ tracked' \in [Markets -> {"known", "epoch", None}]
      /\ \A m \in Markets : m # e.market => tracked'[m] = tracked[m]
      /\ e.active => tracked'[e.market] # None
      /\ ~e.active /\ e.type # "MARKET_DISCOVERED" => tracked'[e.market] = None
      /\ ~e.active /\ e.type = "MARKET_DISCOVERED" => tracked' = tracked
  BY <1>1, <1>2, <1>4, EventHandled
<1>6. ReaderOK'
  <2>1. h \in 0..Len(log) /\ h <= group
    BY <1>2, <1>3
  <2> QED BY <1>1, <1>2, <1>5, <2>1 DEF ReaderOK
<1> HIDE DEF h, e
(* The market of the event is one that was discovered before.               *)
<1>7. FirstsOK'
  <2>1. ASSUME NEW m \in Markets, live[m] = None
        PROVE  tracked'[m] = None
    <3>1. m # e.market
      BY <1>1, <1>3, <2>1 DEF FirstsOK, e
    <3> QED BY <1>1, <1>5, <2>1, <3>1 DEF FirstsOK
  <2>2. ASSUME news # None, news.type = "MARKET_DISCOVERED", ~news.active
        PROVE  tracked'[news.market] = None
    <3>1. news.market # e.market /\ tracked[news.market] = None
      BY <1>1, <1>3, <2>2 DEF FirstsOK, e
    <3>2. news.market \in Markets
      BY <1>1, <2>2, EventIs DEF EventsTypeOK
    <3> QED BY <1>5, <3>1, <3>2
  <2> QED BY <1>1, <2>1, <2>2 DEF FirstsOK
<1>8. NewsOK'
  <2>1. ASSUME NEW i \in 1..Len(log), i > h, LastOf(i), log[i].market \notin silent
        PROVE  /\ log[i].active = live[log[i].market]
               /\ log[i].type = "MARKET_DISCOVERED" /\ ~log[i].active => tracked'[log[i].market] = None
    <3>1. i > Read /\ h < i
      BY <1>2, <1>3, <2>1
    <3>2. /\ log[i].active = live[log[i].market]
          /\ log[i].type = "MARKET_DISCOVERED" /\ ~log[i].active => tracked[log[i].market] = None
      BY <1>1, <2>1, <3>1 DEF NewsOK
    <3>3. ASSUME log[i].type = "MARKET_DISCOVERED"
          PROVE  log[i].market # e.market
      BY <1>1, <1>3, <2>1, <3>1, <3>3 DEF FirstsOK, e
    <3>4. log[i].market \in Markets
      BY <1>1, LogIs
    <3> QED BY <1>5, <3>2, <3>3, <3>4
  <2>2. \A i \in 1..Len(log) : LastOf(i)' <=> LastOf(i)
    BY <1>1 DEF LastOf
  <2> QED BY <1>1, <1>2, <2>1, <2>2 DEF NewsOK
<1>9. RegistryOK'
  <2> SUFFICES ASSUME NEW m \in Markets, m \notin silent \cup unheard, ~Unread(m)'
               PROVE  (tracked'[m] # None) = (live[m] = TRUE)
    BY <1>1 DEF RegistryOK
  <2>1. \A i \in h + 1 .. Len(log) : log[i].market # m
    BY <1>1, <1>2 DEF Unread
  <2>2. CASE m # e.market
    <3>1. ASSUME NEW i \in handled + 1 .. Len(log)
          PROVE  log[i].market # m
      <4>1. i = h \/ i \in h + 1 .. Len(log)
        BY <1>2, <3>1 DEF h
      <4> QED BY <2>1, <2>2, <4>1 DEF e
    <3>2. ~Unread(m)
      BY <1>2, <3>1 DEF Unread
    <3>3. (tracked[m] # None) = (live[m] = TRUE)
      BY <1>1, <3>2 DEF RegistryOK
    <3> QED BY <1>5, <2>2, <3>3
  <2>3. CASE m = e.market
    <3>1. LastOf(h)
      BY <2>1, <2>3 DEF LastOf, e
    <3>2. h > Read
      BY <1>2, <1>3
    <3>3. /\ e.active = live[m]
          /\ e.type = "MARKET_DISCOVERED" /\ ~e.active => tracked[m] = None
      BY <1>1, <1>3, <2>3, <3>1, <3>2 DEF NewsOK, e
    <3>4. CASE e.active
      <4>1. live[m] = TRUE
        BY <1>4, <3>3, <3>4
      <4>2. tracked'[m] # None
        BY <1>5, <2>3, <3>4
      <4> QED BY <4>1, <4>2
    <3>5. CASE ~e.active
      <4>1. live[m] = FALSE
        BY <1>4, <3>3, <3>5
      <4>2. tracked'[m] = None
        BY <1>5, <2>3, <3>3, <3>5
      <4> QED BY <4>1, <4>2
    <3> QED BY <3>4, <3>5
  <2> QED BY <2>2, <2>3
<1>10. EventsTypeOK'
  BY <1>1 DEF EventsTypeOK
<1> QED BY <1>6, <1>7, <1>8, <1>9, <1>10 DEF RowsInv

(* An event is published;                                                   *)
LEMMA PublishKeepsRows ==
    ASSUME RowsInv, PublishNews, EventsStep
    PROVE  RowsInv'
<1> DEFINE n == news.market
<1>1. /\ EventsTypeOK /\ ReaderOK /\ FirstsOK /\ NewsOK /\ RegistryOK
      /\ news # None /\ log' = Append(log, news) /\ news' = None /\ live' = live
      /\ up' = up /\ group' = group /\ handled' = handled /\ tracked' = tracked /\ unheard' = unheard
      /\ silent' = {m \in Markets : ~Told(m) /\ (m \in silent \/ live'[m] # live[m])}
  BY DEF RowsInv, PublishNews, EventsStep, listener
<1>2. /\ news \in MarketEvent /\ n \in Markets /\ news.active \in BOOLEAN
      /\ log \in Seq(MarketEvent) /\ live \in [Markets -> BOOLEAN \cup {None}]
      /\ silent \subseteq Markets
  <2>1. news \in MarketEvent
    BY <1>1 DEF EventsTypeOK
  <2> QED BY <1>1, <2>1, EventIs DEF EventsTypeOK, ReaderOK
<1> DEFINE L == Len(log)
           g == log'
<1>3. /\ g \in Seq(MarketEvent) /\ Len(g) = L + 1 /\ L \in Nat
      /\ \A i \in 1..L : g[i] = log[i]
      /\ g[L + 1] = news
  BY <1>1, <1>2, AppendIs
<1>4. \A m \in Markets : Told(m) <=> (n = m /\ news.active = live[m])
  BY <1>1, <1>3 DEF Told
<1>5. \A m \in Markets : m \in silent' <=> m \in silent /\ ~(n = m /\ news.active = live[m])
  BY <1>1, <1>4
<1> HIDE DEF g, L, n
<1>6. Read \in 0..L /\ Read' \in 0..L + 1 /\ Read' >= Read /\ (up # "down" => Read' = Read)
      /\ (Read' > Read => Read' = L + 1)
  <2>1. Read \in 0..L
    BY <1>1, ReadIs DEF L
  <2>2. CASE up # "down" \/ group # None
    <3>1. Read' = Read
      BY <1>1, <2>2 DEF Read
    <3> QED BY <1>3, <2>1, <3>1
  <2>3. CASE up = "down" /\ group = None
    <3>1. Read' = L + 1 /\ Read = L
      BY <1>1, <1>3, <2>3 DEF Read, g, L
    <3> QED BY <1>3, <2>1, <2>3, <3>1
  <2> QED BY <2>2, <2>3
<1>7. ReaderOK'
  <2>1. silent' \subseteq Markets
    BY <1>1
  <2>2. \A x : x \in 0..L => x \in 0..Len(g)
    BY <1>3
  <2>3. group \in 0..Len(g) \cup {None} /\ handled \in 0..Len(g)
        /\ (up # "down" => group \in 0..Len(g))
    BY <1>1, <2>2 DEF ReaderOK, L
  <2> QED BY <1>1, <2>1, <2>3 DEF ReaderOK, g
<1>8. EventsTypeOK'
  BY <1>1, <1>2, <1>3 DEF EventsTypeOK, g
<1>9. ASSUME NEW i \in 1..Len(g)
      PROVE  (i \in 1..L /\ g[i] = log[i]) \/ (i = L + 1 /\ g[i] = news)
  BY <1>3
<1>10. live[n] # None
  BY <1>1, <1>2 DEF FirstsOK, n
<1>11. FirstsOK'
  <2>1. ASSUME NEW m \in Markets, live[m] = None, NEW i \in 1..Len(g)
        PROVE  g[i].market # m
    BY <1>1, <1>9, <1>10, <2>1 DEF FirstsOK, L, n
  <2>2. ASSUME NEW i \in 1..Len(g), NEW j \in 1..Len(g), g[i].type = "MARKET_DISCOVERED", j < i
        PROVE  g[j].market # g[i].market
    <3>1. j \in 1..L /\ g[j] = log[j]
      BY <1>3, <2>2
    <3>2. CASE i \in 1..L /\ g[i] = log[i]
      BY <1>1, <2>2, <3>1, <3>2 DEF FirstsOK, L
    <3>3. CASE i = L + 1 /\ g[i] = news
      BY <1>1, <2>2, <3>1, <3>3 DEF FirstsOK, L
    <3> QED BY <1>9, <3>2, <3>3
  <2>3. \A m \in Markets : live[m] = None => tracked[m] = None
    BY <1>1 DEF FirstsOK
  <2> QED BY <1>1, <2>1, <2>2, <2>3 DEF FirstsOK, g
<1>12. NewsOK'
  <2>1. ASSUME NEW i \in 1..Len(g), i > Read', LastOf(i)', g[i].market \notin silent'
        PROVE  /\ g[i].active = live[g[i].market]
               /\ g[i].type = "MARKET_DISCOVERED" /\ ~g[i].active => tracked[g[i].market] = None
    <3>1. CASE i = L + 1 /\ g[i] = news
      <4>1. news.active = live[n]
        <5>1. ASSUME news.active # live[n]
              PROVE  FALSE
          <6>1. n \in silent
            BY <1>1, <5>1 DEF NewsOK, n
          <6> QED BY <1>2, <1>5, <2>1, <3>1, <5>1, <6>1 DEF n
        <5> QED BY <5>1
      <4>2. news.type = "MARKET_DISCOVERED" /\ ~news.active => tracked[n] = None
        BY <1>1 DEF FirstsOK, n
      <4> QED BY <3>1, <4>1, <4>2 DEF n
    <3>2. CASE i \in 1..L /\ g[i] = log[i]
      <4>1. \A j \in i + 1 .. Len(g) : g[j].market # log[i].market
        BY <2>1, <3>2 DEF LastOf, g
      <4>2. LastOf(i)
        <5> SUFFICES ASSUME NEW j \in i + 1 .. L PROVE log[j].market # log[i].market
          BY DEF LastOf, L
        <5>1. j \in i + 1 .. Len(g) /\ g[j] = log[j]
          BY <1>3, <3>2
        <5> QED BY <4>1, <5>1
      <4>3. n # log[i].market
        <5>1. L + 1 \in i + 1 .. Len(g)
          BY <1>3, <3>2
        <5> QED BY <1>3, <4>1, <5>1 DEF n
      <4>4. log[i].market \in Markets
        BY <1>1, <3>2, LogIs DEF L
      <4>5. log[i].market \notin silent
        BY <1>5, <2>1, <3>2, <4>3, <4>4
      <4>6. i > Read
        BY <1>3, <1>6, <2>1, <3>2
      <4> QED BY <1>1, <3>2, <4>2, <4>5, <4>6 DEF NewsOK, L
    <3> QED BY <1>9, <3>1, <3>2
  <2> QED BY <1>1, <2>1 DEF NewsOK, g
<1>13. RegistryOK'
  <2> SUFFICES ASSUME up = "on", NEW m \in Markets, m \notin silent' \cup unheard, ~Unread(m)'
               PROVE  (tracked[m] # None) = (live[m] = TRUE)
    BY <1>1 DEF RegistryOK
  <2>1. \A i \in Read + 1 .. Len(g) : g[i].market # m
    BY <1>6 DEF Unread, g
  <2>2. n # m
    <3>1. L + 1 \in Read + 1 .. Len(g)
      BY <1>3, <1>6
    <3> QED BY <1>3, <2>1, <3>1 DEF n
  <2>3. ASSUME NEW i \in Read + 1 .. L
        PROVE  log[i].market # m
    <3>1. i \in Read + 1 .. Len(g) /\ g[i] = log[i]
      BY <1>3, <1>6, <2>3
    <3> QED BY <2>1, <3>1
  <2>4. m \notin silent /\ ~Unread(m)
    BY <1>5, <2>2, <2>3 DEF Unread, L
  <2> QED BY <1>1, <2>4 DEF RegistryOK
<1> QED BY <1>7, <1>8, <1>11, <1>12, <1>13 DEF RowsInv

(* or a row is written, or an event lost.                                   *)
LEMMA RowsChange ==
    ASSUME RowsInv, EventsStep, ~PublishNews
    PROVE  RowsInv'
<1>1. /\ EventsTypeOK /\ ReaderOK /\ FirstsOK /\ NewsOK /\ RegistryOK
      /\ EventsNext /\ log' = log
      /\ up' = up /\ group' = group /\ handled' = handled /\ tracked' = tracked /\ unheard' = unheard
      /\ silent' = {m \in Markets : ~Told(m) /\ (m \in silent \/ live'[m] # live[m])}
  <2>1. log' = log
    BY DEF EventsStep, EventsNext, LoseNews, MarkResolved, WriteRow
  <2> QED BY <2>1 DEF RowsInv, EventsStep, listener
<1>2. /\ live \in [Markets -> BOOLEAN \cup {None}] /\ news \in MarketEvent \cup {None}
      /\ log \in Seq(MarketEvent) /\ silent \subseteq Markets /\ Len(log) \in Nat
  BY <1>1 DEF EventsTypeOK, ReaderOK
<1>3. \A m \in Markets : ~Told(m)
  BY <1>1, <1>2 DEF Told
<1>4. \A m \in Markets : m \in silent' <=> (m \in silent \/ live'[m] # live[m])
  BY <1>1, <1>3
<1>5. Read' = Read
  BY <1>1 DEF Read
<1>6. ReaderOK'
  BY <1>1 DEF ReaderOK
<1>7. news # None => news \in MarketEvent /\ news.market \in Markets
  BY <1>2, EventIs
(* One row at most is another, of a market with no event on its way or one  *)
(* that says it is inactive now.                                            *)
<1>8. ASSUME EventsTypeOK', FirstsOK',
             news' # None /\ news'.active # live'[news'.market] => news'.market \in silent'
      PROVE  RowsInv'
  <2>1. ASSUME NEW i \in 1..Len(log), i > Read, LastOf(i), log[i].market \notin silent'
        PROVE  /\ log[i].active = live'[log[i].market]
               /\ log[i].type = "MARKET_DISCOVERED" /\ ~log[i].active => tracked[log[i].market] = None
    <3>1. log[i].market \in Markets
      BY <1>1, LogIs
    <3>2. log[i].market \notin silent /\ live'[log[i].market] = live[log[i].market]
      BY <1>4, <2>1, <3>1
    <3> QED BY <1>1, <2>1, <3>2 DEF NewsOK
  <2>2. NewsOK'
    <3>1. \A i \in 1..Len(log) : LastOf(i)' <=> LastOf(i)
      BY <1>1 DEF LastOf
    <3> QED BY <1>1, <1>5, <1>8, <2>1, <3>1 DEF NewsOK
  <2>3. RegistryOK'
    <3> SUFFICES ASSUME up = "on", NEW m \in Markets, m \notin silent' \cup unheard, ~Unread(m)'
                 PROVE  (tracked[m] # None) = (live'[m] = TRUE)
      BY <1>1 DEF RegistryOK
    <3>1. ~Unread(m)
      BY <1>1, <1>5 DEF Unread
    <3>2. m \notin silent /\ live'[m] = live[m]
      BY <1>4
    <3>3. (tracked[m] # None) = (live[m] = TRUE)
      BY <1>1, <3>1, <3>2 DEF RegistryOK
    <3> QED BY <3>2, <3>3
  <2> QED BY <1>6, <1>8, <2>2, <2>3 DEF RowsInv
<1>9. CASE LoseNews
  <2>1. news' = None /\ live' = live
    BY <1>9 DEF LoseNews
  <2> QED BY <1>1, <1>2, <1>8, <2>1 DEF EventsTypeOK, FirstsOK
<1>10. ASSUME NEW m \in Markets, MarkResolved(m)
       PROVE  RowsInv'
  <2>1. live' = [live EXCEPT ![m] = FALSE] /\ news' = news /\ live[m] # None
    BY <1>10 DEF MarkResolved
  <2>2. /\ live'[m] = FALSE /\ live' \in [Markets -> BOOLEAN \cup {None}]
        /\ \A o \in Markets : o # m => live'[o] = live[o]
    BY <1>2, <1>10, <2>1
  <2>3. EventsTypeOK'
    BY <1>1, <1>2, <2>1, <2>2 DEF EventsTypeOK
  <2>4. FirstsOK'
    <3>1. \A o \in Markets : live'[o] = None => live[o] = None
      BY <1>10, <2>2, NoneIsNoBoolean
    <3>2. news # None /\ ~news.active => live'[news.market] = FALSE
      BY <1>1, <1>7, <2>2 DEF FirstsOK
    <3> QED BY <1>1, <2>1, <3>1, <3>2 DEF FirstsOK
  <2>5. news # None /\ news.active # live'[news.market] => news.market \in silent'
    <3> SUFFICES ASSUME news # None, news.active # live'[news.market]
                 PROVE  news.market \in silent'
      OBVIOUS
    <3>1. news.market \in Markets
      BY <1>7
    <3>2. CASE live'[news.market] # live[news.market]
      BY <1>4, <3>1, <3>2
    <3>3. CASE live'[news.market] = live[news.market]
      <4>1. news.market \in silent
        BY <1>1, <3>3 DEF NewsOK
      <4> QED BY <1>4, <3>1, <4>1
    <3> QED BY <3>2, <3>3
  <2> QED BY <1>8, <2>1, <2>3, <2>4, <2>5
<1>11. ASSUME NEW m \in Markets, NEW active \in BOOLEAN, WriteRow(m, active)
       PROVE  RowsInv'
  <2> DEFINE kind == IF live[m] = None THEN "MARKET_DISCOVERED" ELSE "MARKET_LIFECYCLE_CHANGED"
             e == [type |-> kind, market |-> m, active |-> active]
  <2>1. news = None /\ live' = [live EXCEPT ![m] = active] /\ news' \in {None, e}
    BY <1>11 DEF WriteRow
  <2>2. /\ live'[m] = active /\ live' \in [Markets -> BOOLEAN \cup {None}]
        /\ \A o \in Markets : o # m => live'[o] = live[o]
    BY <1>2, <1>11, <2>1
  <2>3. e \in MarketEvent /\ e.market = m /\ e.active = active /\ e.type = kind
    BY DEF MarketEvent
  <2>4. kind = "MARKET_DISCOVERED" => live[m] = None
    OBVIOUS
  <2> HIDE DEF kind, e
  <2>5. EventsTypeOK'
    BY <1>1, <1>2, <2>1, <2>2, <2>3 DEF EventsTypeOK
  <2>6. live'[m] # None
    BY <2>2, NoneIsNoBoolean
  <2>7. FirstsOK'
    <3>1. ASSUME NEW o \in Markets, live'[o] = None
          PROVE  o # m /\ live[o] = None
      BY <2>2, <2>6, <3>1
    <3>2. ASSUME news' # None
          PROVE  news' = e
      BY <2>1, <3>2
    <3>3. ASSUME news' # None, e.type = "MARKET_DISCOVERED"
          PROVE  live[m] = None /\ tracked[m] = None /\ \A i \in 1..Len(log) : log[i].market # m
      BY <1>1, <2>3, <2>4, <3>3 DEF FirstsOK
    <3>4. \A o \in Markets : live'[o] = None =>
             tracked[o] = None /\ (\A i \in 1..Len(log) : log[i].market # o)
             /\ (news' # None => news'.market # o)
      BY <1>1, <2>3, <3>1, <3>2 DEF FirstsOK
    <3>5. news' # None /\ news'.type = "MARKET_DISCOVERED" =>
             (\A i \in 1..Len(log) : log[i].market # news'.market)
             /\ (~news'.active => tracked[news'.market] = None)
      BY <2>3, <3>2, <3>3
    <3>6. news' # None /\ ~news'.active => live'[news'.market] = FALSE
      BY <2>2, <2>3, <3>2
    <3>7. \A i, j \in 1..Len(log) :
             log[i].type = "MARKET_DISCOVERED" /\ j < i => log[j].market # log[i].market
      BY <1>1 DEF FirstsOK
    <3> QED BY <1>1, <3>4, <3>5, <3>6, <3>7 DEF FirstsOK
  <2>8. news' # None => news'.active = live'[news'.market]
    BY <2>1, <2>2, <2>3
  <2> QED BY <1>8, <2>5, <2>7, <2>8
<1> QED BY <1>1, <1>9, <1>10, <1>11 DEF EventsNext
-----------------------------------------------------------------------------
(***************************************************************************)
(* The rows' theorem.                                                      *)
(***************************************************************************)
LEMMA RowsStart ==
    ASSUME Init
    PROVE  RowsInv
<1>1. /\ live = [m \in Markets |-> None] /\ news = None /\ log = <<>>
      /\ up = "down" /\ group = None /\ handled = 0 /\ tracked = Untracked
      /\ unheard = {} /\ silent = {}
  BY DEF Init, EventsInit
<1>2. Len(log) = 0 /\ log \in Seq(MarketEvent)
  BY <1>1
<1>3. EventsTypeOK
  BY <1>1, <1>2 DEF EventsTypeOK
<1>4. ReaderOK
  BY <1>1, <1>2 DEF ReaderOK, Untracked
<1>5. FirstsOK
  BY <1>1, <1>2 DEF FirstsOK, Untracked
<1>6. NewsOK /\ RegistryOK
  BY <1>1, <1>2 DEF NewsOK, RegistryOK
<1> QED BY <1>3, <1>4, <1>5, <1>6 DEF RowsInv

LEMMA RowsStep ==
    ASSUME RowsInv, [Next]_vars
    PROVE  RowsInv'
<1>1. CASE Boot
  BY <1>1, BootKeepsRows
<1>2. CASE Start
  BY <1>2, StartKeepsRows
<1>3. CASE ReadNext
  <2>1. UNCHANGED <<eventVars, up, handled, tracked, unheard, silent>>
        /\ up = "on" /\ group' = Len(log)
    BY <1>3 DEF ReadNext, history
  <2> QED BY <2>1, ElsewhereKeepsRows
<1>4. CASE Handle
  BY <1>4, HandleKeepsRows
<1>5. CASE ReadLost
  BY <1>5, LostReadKeepsRows
<1>6. CASE Restart
  BY <1>6, RestartKeepsRows
<1>7. CASE EventsStep
  BY <1>7, PublishKeepsRows, RowsChange
<1>8. CASE SocketStep \/ UNCHANGED vars
  <2>1. UNCHANGED <<eventVars, up, handled, tracked, unheard, silent, group>>
    BY <1>8 DEF SocketStep, vars, streamVars, listener, history
  <2> QED BY <2>1, ElsewhereKeepsRows
<1>9. CASE \E i \in DOMAIN updates : UpdateStep(i)
  <2>1. UNCHANGED <<eventVars, up, handled, tracked, unheard, silent, group>>
    BY <1>9 DEF UpdateStep, Published, TickInserted, TickFails, listener, history
  <2> QED BY <2>1, ElsewhereKeepsRows
<1>10. CASE \E m \in Markets :
              \/ \E side \in Sides : BookArrives(m, side)
              \/ TradeArrives(m) \/ Interval(m)
  <2>1. UNCHANGED <<eventVars, up, handled, tracked, unheard, silent, group>>
    BY <1>10 DEF BookArrives, TradeArrives, Interval, listener, history
  <2> QED BY <2>1, ElsewhereKeepsRows
<1> QED
  BY <1>1, <1>2, <1>3, <1>4, <1>5, <1>6, <1>7, <1>8, <1>9, <1>10 DEF Next, StreamStep

LEMMA RowsInvHolds == Spec => []RowsInv
<1>1. RowsInv /\ [Next]_vars => RowsInv'
  BY RowsStep
<1> QED BY RowsStart, <1>1, PTL DEF Spec

(* For any number of markets, events, lost answers and restarts: once the   *)
(* events are handled, a market is tracked exactly while its row is active, *)
(* unless the row's last turn was never told or an event of it went unheard.*)
THEOREM TrackedFollowsRowsHolds == Spec => []TrackedFollowsRows
<1>1. ASSUME RowsInv PROVE TrackedFollowsRows
  <2> SUFFICES ASSUME up = "on", handled = Len(log), NEW m \in Markets, m \notin silent \cup unheard
               PROVE  (tracked[m] # None) = (live[m] = TRUE)
    BY DEF TrackedFollowsRows, CaughtUp
  <2>1. Len(log) \in Nat
    BY <1>1, LogIs DEF RowsInv
  <2>2. ~Unread(m)
    BY <2>1 DEF Unread, Read
  <2> QED BY <1>1, <2>2 DEF RowsInv, RegistryOK
<1> QED BY <1>1, RowsInvHolds, PTL

-----------------------------------------------------------------------------
(***************************************************************************)
(* The socket.  There is one, or a timer, or neither; and of the registry's*)
(* markets it has been asked for all or, until it is open, for none.       *)
(***************************************************************************)
SocketInv ==
    /\ WsTypeOK /\ connected \in BOOLEAN /\ up \in {"down", "boot", "on"}
    /\ tracked \in [Markets -> {"known", "epoch", None}]
    /\ live \in [Markets -> BOOLEAN \cup {None}]
    /\ wanted = {m \in Markets : tracked[m] # None}
    /\ OneSocket
    /\ current # 0 => sockets[current] # "free"
    /\ connected => \E s \in Slots : sockets[s] = "open"
    /\ \A s \in Slots : served[s] = IF sockets[s] = "open" THEN wanted ELSE {}
    /\ up # "on" => current = 0 /\ ~timer /\ wanted = {}
    /\ up = "on" => ~closedByCaller

LEMMA SlotsAre == 0 \notin Slots /\ \A s \in Slots : s \in Nat
BY WsAssumption DEF Slots

(* What leaves sockets, registry and rows alone;                            *)
LEMMA ElsewhereKeepsSocket ==
    ASSUME SocketInv, UNCHANGED <<wsVars, tracked>>, live' \in [Markets -> BOOLEAN \cup {None}],
           up' = up \/ (up = "down" /\ up' = "boot"),
           connected' = connected \/ (connected' = TRUE /\ \E s \in Slots : sockets[s] = "open")
    PROVE  SocketInv'
<1>1. /\ sockets' = sockets /\ current' = current /\ timer' = timer /\ retrying' = retrying
      /\ closedByCaller' = closedByCaller /\ wanted' = wanted /\ served' = served /\ tracked' = tracked
  BY DEF wsVars
<1>2. WsTypeOK' /\ OneSocket'
  BY <1>1 DEF SocketInv, WsTypeOK, OneSocket
<1>3. connected' \in BOOLEAN /\ (connected' => \E s \in Slots : sockets'[s] = "open")
  <2>1. connected \in BOOLEAN /\ (connected => \E s \in Slots : sockets[s] = "open")
    BY DEF SocketInv
  <2>2. CASE connected' = connected
    BY <1>1, <2>1, <2>2
  <2>3. CASE connected' = TRUE /\ \E s \in Slots : sockets[s] = "open"
    BY <1>1, <2>3
  <2> QED BY <2>2, <2>3
<1> QED BY <1>1, <1>2, <1>3 DEF SocketInv

LEMMA StartKeepsSocket ==
    ASSUME SocketInv, Start
    PROVE  SocketInv'
<1>1. /\ WsTypeOK /\ OneSocket /\ up = "boot" /\ current = 0 /\ ~timer /\ wanted = {}
      /\ live' = live /\ up' = "on" /\ connected' = connected
      /\ tracked' = [m \in Markets |-> IF live[m] = TRUE THEN "known" ELSE None]
      /\ wanted' = {m \in Markets : live[m] = TRUE}
      /\ OpenSocket /\ closedByCaller' = FALSE /\ retrying' = FALSE /\ timer' = timer /\ served' = served
  BY DEF Start, SocketInv, eventVars
<1>2. \A s \in Slots : sockets[s] = "free" /\ served[s] = {}
  BY <1>1, SlotsAre DEF OneSocket, SocketInv
<1>3. ~connected
  BY <1>2 DEF SocketInv
<1>4. PICK s \in Slots : sockets' = [sockets EXCEPT ![s] = "connecting"] /\ current' = s
  BY <1>1 DEF OpenSocket
<1>5. /\ sockets'[s] = "connecting" /\ \A r \in Slots : r # s => sockets'[r] = "free"
      /\ sockets' \in [Slots -> {"free", "connecting", "open", "closing"}]
  BY <1>1, <1>2, <1>4 DEF WsTypeOK
<1>6. WsTypeOK'
  BY <1>1, <1>4, <1>5, StreamAssumption DEF WsTypeOK
<1>7. wanted' = {m \in Markets : tracked'[m] # None}
  BY <1>1, NoneIsNoRecord
<1>8. OneSocket' /\ sockets'[current'] # "free"
  BY <1>1, <1>4, <1>5 DEF OneSocket
<1>9. \A r \in Slots : sockets'[r] # "open" /\ served'[r] = {}
  BY <1>1, <1>2, <1>5
<1>10. tracked' \in [Markets -> {"known", "epoch", None}]
  BY <1>1
<1> QED BY <1>1, <1>3, <1>6, <1>7, <1>8, <1>9, <1>10 DEF SocketInv

LEMMA RestartKeepsSocket ==
    ASSUME SocketInv, Restart
    PROVE  SocketInv'
<1>1. /\ live' = live /\ up' = "down" /\ connected' = FALSE
      /\ tracked' = [m \in Markets |-> None]
      /\ sockets' = [s \in Slots |-> "free"] /\ served' = [s \in Slots |-> {}]
      /\ current' = 0 /\ timer' = FALSE /\ retrying' = FALSE /\ closedByCaller' = TRUE
      /\ wanted' = {}
  BY DEF Restart, Vanished, Untracked, eventVars
<1>2. WsTypeOK' /\ OneSocket'
  BY <1>1 DEF WsTypeOK, OneSocket
<1>3. wanted' = {m \in Markets : tracked'[m] # None}
  BY <1>1
<1>4. tracked' \in [Markets -> {"known", "epoch", None}]
  BY <1>1
<1>5. \A s \in Slots : sockets'[s] = "free" /\ served'[s] = {}
  BY <1>1
<1> QED BY <1>1, <1>2, <1>3, <1>4, <1>5 DEF SocketInv

(* A market is registered or dropped.                                       *)
LEMMA AskedKeepsSocket ==
    ASSUME SocketInv, up = "on", NEW m \in Markets, NEW value \in {"known", "epoch", None},
           tracked' = [tracked EXCEPT ![m] = value],
           IF (tracked[m] = None) = (value = None) THEN UNCHANGED wsVars
           ELSE IF value = None THEN Unsubscribe({m}) ELSE Subscribe({m}),
           UNCHANGED <<live, up, connected>>
    PROVE  SocketInv'
<1>1. /\ WsTypeOK /\ OneSocket /\ tracked \in [Markets -> {"known", "epoch", None}]
      /\ wanted = {o \in Markets : tracked[o] # None}
      /\ current # 0 => sockets[current] # "free"
      /\ \A s \in Slots : served[s] = IF sockets[s] = "open" THEN wanted ELSE {}
  BY DEF SocketInv
<1>2. /\ tracked' \in [Markets -> {"known", "epoch", None}]
      /\ tracked'[m] = value /\ \A o \in Markets : o # m => tracked'[o] = tracked[o]
  BY <1>1
<1> DEFINE next == {o \in Markets : tracked'[o] # None}
<1>3. /\ (tracked[m] = None) = (value = None) => next = wanted
      /\ value # None => next = wanted \cup {m}
      /\ value = None => next = wanted \ {m}
  BY <1>1, <1>2
<1>4. next \subseteq Tokens
  BY StreamAssumption
<1> HIDE DEF next
<1>5. CASE (tracked[m] = None) = (value = None)
  <2>1. UNCHANGED wsVars /\ wanted' = next
    BY <1>3, <1>5 DEF wsVars
  <2>2. WsTypeOK' /\ OneSocket'
    BY <1>1, <2>1 DEF WsTypeOK, OneSocket, wsVars
  <2> QED BY <1>1, <1>2, <1>3, <1>5, <2>1, <2>2 DEF SocketInv, wsVars, next
<1>6. CASE (tracked[m] = None) # (value = None)
  <2>1. /\ wanted' = next
        /\ UNCHANGED <<sockets, current, timer, retrying, closedByCaller>>
        /\ served' = IF current # 0 /\ sockets[current] = "open"
                     THEN [served EXCEPT ![current] = next] ELSE served
    <3>1. CASE value = None
      <4>1. Unsubscribe({m})
        BY <1>6, <3>1
      <4>2. current # 0 /\ sockets[current] = "open" => served[current] \ {m} = next
        BY <1>1, <1>3, <3>1 DEF WsTypeOK
      <4> QED BY <1>3, <3>1, <4>1, <4>2 DEF Unsubscribe, Sent
    <3>2. CASE value # None
      <4>1. Subscribe({m})
        BY <1>6, <3>2
      <4>2. current # 0 /\ sockets[current] = "open" => served[current] \cup ({m} \ wanted) = next
        BY <1>1, <1>3, <3>2 DEF WsTypeOK
      <4> QED BY <1>3, <3>2, <4>1, <4>2 DEF Subscribe, Sent
    <3> QED BY <3>1, <3>2
  <2>2. /\ served' \in [Slots -> SUBSET Tokens]
        /\ \A s \in Slots : served'[s] = IF sockets[s] = "open" THEN next ELSE {}
    <3>1. served \in [Slots -> SUBSET Tokens] /\ current \in Slots \cup {0}
      BY <1>1 DEF WsTypeOK
    <3>2. CASE current # 0 /\ sockets[current] = "open"
      <4>1. served' = [served EXCEPT ![current] = next] /\ current \in Slots
        BY <2>1, <3>1, <3>2
      <4>2. \A s \in Slots : s # current => sockets[s] = "free"
        BY <1>1 DEF OneSocket
      <4>3. served'[current] = next /\ \A s \in Slots : s # current => served'[s] = served[s]
        BY <3>1, <4>1
      <4>4. served' \in [Slots -> SUBSET Tokens]
        BY <1>4, <3>1, <4>1
      <4>5. ASSUME NEW s \in Slots
            PROVE  served'[s] = IF sockets[s] = "open" THEN next ELSE {}
        <5>1. CASE s = current
          BY <3>2, <4>3, <5>1
        <5>2. CASE s # current
          BY <1>1, <4>2, <4>3, <5>2
        <5> QED BY <5>1, <5>2
      <4> QED BY <4>4, <4>5
    <3>3. CASE ~(current # 0 /\ sockets[current] = "open")
      <4>1. served' = served
        BY <2>1, <3>3
      <4>2. \A s \in Slots : sockets[s] # "open"
        BY <1>1, <3>3, SlotsAre DEF OneSocket
      <4> QED BY <1>1, <3>1, <4>1, <4>2
    <3> QED BY <3>2, <3>3
  <2>3. WsTypeOK'
    BY <1>1, <1>4, <2>1, <2>2 DEF WsTypeOK
  <2>4. OneSocket'
    BY <1>1, <2>1 DEF OneSocket
  <2>5. \A s \in Slots : served'[s] = IF sockets'[s] = "open" THEN wanted' ELSE {}
    BY <2>1, <2>2
  <2> QED BY <1>1, <1>2, <2>1, <2>3, <2>4, <2>5 DEF SocketInv, next
<1> QED BY <1>5, <1>6

LEMMA HandleKeepsSocket ==
    ASSUME SocketInv, EventsTypeOK, ReaderOK, Handle
    PROVE  SocketInv'
<1> DEFINE e == log[handled + 1]
           m == e.market
<1>1. /\ up = "on" /\ up' = up /\ live' = live /\ connected' = connected
      /\ HandleScannerEvent(e)
  BY DEF Handle, eventVars
<1>2. e \in MarketEvent
  <2>1. handled + 1 \in 1..Len(log)
    <3>1. Len(log) \in Nat /\ handled < group
      BY LogIs DEF Handle
    <3> QED BY <1>1, <3>1 DEF ReaderOK
  <2> QED BY <2>1, LogIs
<1>3. m \in Markets /\ e.active \in BOOLEAN
  BY <1>2, EventIs
<1>4. tracked \in [Markets -> {"known", "epoch", None}]
  BY DEF SocketInv
<1> HIDE DEF e
<1>5. CASE e.active /\ e.type = "MARKET_DISCOVERED"
  <2>1. tracked' = [tracked EXCEPT ![m] = "known"]
        /\ IF tracked[m] = None THEN Subscribe({m}) ELSE UNCHANGED wsVars
    BY <1>1, <1>5 DEF HandleScannerEvent, Register
  <2> QED BY <1>1, <1>3, <2>1, NoneIsNoRecord, AskedKeepsSocket
<1>6. CASE e.active /\ e.type # "MARKET_DISCOVERED"
  <2>1. CASE tracked[m] = None
    <3>1. tracked' = [tracked EXCEPT ![m] = "epoch"] /\ Subscribe({m})
      BY <1>1, <1>6, <2>1 DEF HandleScannerEvent, Reactivate
    <3> QED BY <1>1, <1>3, <2>1, <3>1, NoneIsNoRecord, AskedKeepsSocket
  <2>2. CASE tracked[m] # None
    <3>1. UNCHANGED <<tracked, wsVars>>
      BY <1>1, <1>6, <2>2 DEF HandleScannerEvent, Reactivate
    <3> QED BY <1>1, <3>1, ElsewhereKeepsSocket DEF SocketInv
  <2> QED BY <2>1, <2>2
<1>7. CASE ~e.active /\ e.type = "MARKET_DISCOVERED"
  <2>1. UNCHANGED <<tracked, wsVars>>
    BY <1>1, <1>7 DEF HandleScannerEvent
  <2> QED BY <1>1, <2>1, ElsewhereKeepsSocket DEF SocketInv
<1>8. CASE ~e.active /\ e.type # "MARKET_DISCOVERED"
  <2>1. tracked' = [tracked EXCEPT ![m] = None]
        /\ IF tracked[m] = None THEN UNCHANGED wsVars ELSE Unsubscribe({m})
    BY <1>1, <1>8 DEF HandleScannerEvent, Drop
  <2> QED BY <1>1, <1>3, <2>1, AskedKeepsSocket
<1> QED BY <1>3, <1>5, <1>6, <1>7, <1>8

(* The socket opens, closes, or is replaced.                                *)
LEMMA SocketKeepsSocket ==
    ASSUME SocketInv, SocketStep
    PROVE  SocketInv'
<1>1. /\ up = "on" /\ up' = up /\ live' = live /\ tracked' = tracked
      /\ WsTypeOK /\ OneSocket /\ ~closedByCaller /\ wanted = {m \in Markets : tracked[m] # None}
      /\ current # 0 => sockets[current] # "free"
      /\ \A s \in Slots : served[s] = IF sockets[s] = "open" THEN wanted ELSE {}
      /\ sockets \in [Slots -> {"free", "connecting", "open", "closing"}]
      /\ served \in [Slots -> SUBSET Tokens] /\ wanted \subseteq Tokens
      /\ current \in Slots \cup {0} /\ connected \in BOOLEAN /\ retrying \in BOOLEAN
  BY DEF SocketStep, SocketInv, eventVars, listener, WsTypeOK
<1>2. CASE ReconnectTimer /\ UNCHANGED connected
  <2>1. /\ current = 0 /\ timer' = FALSE /\ OpenSocket
        /\ retrying' = retrying /\ closedByCaller' = closedByCaller /\ wanted' = wanted /\ served' = served
        /\ connected' = connected
    BY <1>1, <1>2 DEF ReconnectTimer, OneSocket
  <2>2. \A s \in Slots : sockets[s] = "free" /\ served[s] = {}
    BY <1>1, <2>1, SlotsAre DEF OneSocket
  <2>3. ~connected
    BY <2>2 DEF SocketInv
  <2>4. PICK s \in Slots : sockets' = [sockets EXCEPT ![s] = "connecting"] /\ current' = s
    BY <2>1 DEF OpenSocket
  <2>5. /\ sockets'[s] = "connecting" /\ \A r \in Slots : r # s => sockets'[r] = "free"
        /\ sockets' \in [Slots -> {"free", "connecting", "open", "closing"}]
    BY <1>1, <2>2, <2>4
  <2>6. WsTypeOK'
    BY <1>1, <2>1, <2>4, <2>5 DEF WsTypeOK
  <2>7. OneSocket' /\ sockets'[current'] # "free"
    BY <2>1, <2>4, <2>5 DEF OneSocket
  <2>8. \A r \in Slots : sockets'[r] # "open" /\ served'[r] = {}
    BY <2>1, <2>2, <2>5
  <2> QED BY <1>1, <2>1, <2>3, <2>6, <2>7, <2>8 DEF SocketInv
<1>3. ASSUME NEW s \in Slots, Opened(s), connected' = (connected \/ retrying)
      PROVE  SocketInv'
  <2>1. /\ sockets[s] = "connecting" /\ s = current /\ current # 0
        /\ sockets' = [sockets EXCEPT ![s] = "open"]
        /\ retrying' = FALSE /\ current' = current /\ timer' = timer
        /\ closedByCaller' = closedByCaller /\ wanted' = wanted
    BY <1>1, <1>3, SlotsAre DEF Opened, OneSocket
  <2>2. /\ sockets'[s] = "open" /\ \A r \in Slots : r # s => sockets'[r] = sockets[r] /\ sockets[r] = "free"
        /\ sockets' \in [Slots -> {"free", "connecting", "open", "closing"}]
    BY <1>1, <2>1 DEF OneSocket
  <2>3. served' = [served EXCEPT ![s] = @ \cup wanted] /\ served[s] = {}
    BY <1>1, <1>3, <2>1, <2>2 DEF Opened
  <2>4. /\ served'[s] = wanted /\ \A r \in Slots : r # s => served'[r] = served[r]
        /\ served' \in [Slots -> SUBSET Tokens]
    BY <1>1, <2>3
  <2>5. WsTypeOK'
    BY <1>1, <2>1, <2>2, <2>4 DEF WsTypeOK
  <2>6. OneSocket'
    BY <1>1, <2>1, <2>2 DEF OneSocket
  <2>7. \A r \in Slots : served'[r] = IF sockets'[r] = "open" THEN wanted' ELSE {}
    <3> SUFFICES ASSUME NEW r \in Slots
                 PROVE  served'[r] = IF sockets'[r] = "open" THEN wanted' ELSE {}
      OBVIOUS
    <3>1. CASE r = s
      BY <2>1, <2>2, <2>4, <3>1
    <3>2. CASE r # s
      BY <1>1, <2>1, <2>2, <2>4, <3>2
    <3> QED BY <3>1, <3>2
  <2>8. connected' \in BOOLEAN
    BY <1>1, <1>3
  <2> QED BY <1>1, <2>1, <2>2, <2>5, <2>6, <2>7, <2>8 DEF SocketInv
<1>4. ASSUME NEW s \in Slots, SocketClosed(s), connected' = FALSE
      PROVE  SocketInv'
  <2>1. /\ s = current
        /\ sockets' = [sockets EXCEPT ![s] = "free"] /\ served' = [served EXCEPT ![s] = {}]
        /\ current' = 0 /\ timer' = TRUE /\ retrying' = TRUE
        /\ closedByCaller' = closedByCaller /\ wanted' = wanted
    BY <1>1, <1>4 DEF SocketClosed, OneSocket, ScheduleReconnect
  <2>2. /\ \A r \in Slots : sockets'[r] = "free"
        /\ sockets' \in [Slots -> {"free", "connecting", "open", "closing"}]
    BY <1>1, <2>1 DEF OneSocket
  <2>3. /\ \A r \in Slots : served'[r] = {}
        /\ served' \in [Slots -> SUBSET Tokens]
    <3>1. \A r \in Slots : r # s => served[r] = {}
      BY <1>1, <2>1 DEF OneSocket
    <3> QED BY <1>1, <2>1, <3>1
  <2>4. WsTypeOK' /\ OneSocket'
    BY <1>1, <2>1, <2>2, <2>3 DEF WsTypeOK, OneSocket
  <2> QED BY <1>1, <1>4, <2>1, <2>2, <2>3, <2>4 DEF SocketInv
<1> QED BY <1>2, <1>3, <1>4 DEF SocketStep

LEMMA ArrivesIs ==
    ASSUME NEW m, Arrives(m)
    PROVE  connected' = TRUE /\ \E s \in Slots : sockets[s] = "open"
BY DEF Arrives

LEMMA SocketStarts ==
    ASSUME Init
    PROVE  SocketInv
<1>1. /\ sockets = [s \in Slots |-> "free"] /\ current = 0 /\ timer = FALSE /\ retrying = FALSE
      /\ closedByCaller = TRUE /\ wanted = {} /\ served = [s \in Slots |-> {}]
      /\ live = [m \in Markets |-> None] /\ up = "down" /\ tracked = [m \in Markets |-> None]
      /\ connected = FALSE
  BY DEF Init, WsInit, EventsInit, Untracked
<1>2. WsTypeOK /\ OneSocket
  BY <1>1 DEF WsTypeOK, OneSocket
<1>3. wanted = {m \in Markets : tracked[m] # None}
  BY <1>1
<1>4. tracked \in [Markets -> {"known", "epoch", None}] /\ live \in [Markets -> BOOLEAN \cup {None}]
  BY <1>1
<1>5. \A s \in Slots : served[s] = {} /\ sockets[s] = "free"
  BY <1>1
<1> QED BY <1>1, <1>2, <1>3, <1>4, <1>5 DEF SocketInv

LEMMA SocketInvStep ==
    ASSUME SocketInv, RowsInv, RowsInv', [Next]_vars
    PROVE  SocketInv'
<1>1. live' \in [Markets -> BOOLEAN \cup {None}]
  BY DEF RowsInv, EventsTypeOK
<1>2. CASE Boot
  <2>1. UNCHANGED <<wsVars, tracked, connected>> /\ up = "down" /\ up' = "boot"
    BY <1>2 DEF Boot
  <2> QED BY <1>1, <2>1, ElsewhereKeepsSocket
<1>3. CASE Start
  BY <1>3, StartKeepsSocket
<1>4. CASE ReadNext \/ ReadLost \/ EventsStep \/ UNCHANGED vars
  <2>1. UNCHANGED <<wsVars, tracked, connected, up>>
    BY <1>4 DEF ReadNext, ReadLost, EventsStep, vars, streamVars, listener
  <2> QED BY <1>1, <2>1, ElsewhereKeepsSocket
<1>5. CASE Handle
  BY <1>5, HandleKeepsSocket DEF RowsInv
<1>6. CASE Restart
  BY <1>6, RestartKeepsSocket
<1>7. CASE SocketStep
  BY <1>7, SocketKeepsSocket
<1>8. CASE \E i \in DOMAIN updates : UpdateStep(i)
  <2>1. UNCHANGED <<wsVars, tracked, connected, up>>
    BY <1>8 DEF UpdateStep, Published, TickInserted, TickFails, listener
  <2> QED BY <1>1, <2>1, ElsewhereKeepsSocket
<1>9. ASSUME NEW m \in Markets,
             (\E side \in Sides : BookArrives(m, side)) \/ TradeArrives(m)
      PROVE  SocketInv'
  <2>1. UNCHANGED <<wsVars, tracked, up>> /\ Arrives(m)
    BY <1>9 DEF BookArrives, TradeArrives, listener
  <2>2. connected' = TRUE /\ \E s \in Slots : sockets[s] = "open"
    BY <2>1, ArrivesIs
  <2> QED BY <1>1, <2>1, <2>2, ElsewhereKeepsSocket
<1>10. ASSUME NEW m \in Markets, Interval(m)
       PROVE  SocketInv'
  <2>1. UNCHANGED <<wsVars, tracked, connected, up>>
    BY <1>10 DEF Interval, listener
  <2> QED BY <1>1, <2>1, ElsewhereKeepsSocket
<1> QED
  BY <1>2, <1>3, <1>4, <1>5, <1>6, <1>7, <1>8, <1>9, <1>10 DEF Next, StreamStep

LEMMA SocketInvHolds == Spec => []SocketInv
<1>1. SocketInv /\ RowsInv /\ RowsInv' /\ [Next]_vars => SocketInv'
  BY SocketInvStep
<1> QED BY SocketStarts, <1>1, RowsInvHolds, PTL DEF Spec

(* For any number of markets and sockets, however often the socket fails and*)
(* the service restarts: what is asked of Polymarket is what is tracked, on *)
(* one socket, which is never beside another or a timer that will open one. *)
THEOREM FeedFollowsTrackedHolds == Spec => []FeedFollowsTracked
<1>1. SocketInv => FeedFollowsTracked
  BY DEF SocketInv, FeedFollowsTracked, ServedIsWanted
<1> QED BY <1>1, SocketInvHolds, PTL
-----------------------------------------------------------------------------
(***************************************************************************)
(* The volume in ticks.  Volume is what an update carries of a market, and *)
(* f has the sums of it over the first updates of s.                       *)
(***************************************************************************)
Update == [market : Markets, side : Sides, old : BOOLEAN, volume : Nat,
           mixed : BOOLEAN, pc : {"publish", "tick"}]

Volume(u, m) == IF u.market = m /\ u.pc = "tick" THEN u.volume ELSE 0

IsTotal(s, m, g) == g = [i \in 0..Len(s) |-> IF i = 0 THEN 0 ELSE g[i - 1] + Volume(s[i], m)]

Total(s, m) == (CHOOSE g : IsTotal(s, m, g))[Len(s)]

Sums(s, m, f) ==
    /\ f \in [0..Len(s) -> Nat] /\ f[0] = 0
    /\ \A i \in 1..Len(s) : f[i] = f[i - 1] + Volume(s[i], m)

LEMMA InTicksIs ==
    ASSUME NEW m PROVE InTicks(m) = Total(updates, m)
BY DEF InTicks, Total, IsTotal, Volume

LEMMA UpdateIs ==
    ASSUME NEW u \in Update, NEW m
    PROVE  /\ u.market \in Markets /\ u.side \in Sides /\ u.old \in BOOLEAN /\ u.volume \in Nat
           /\ u.mixed \in BOOLEAN /\ u.pc \in {"publish", "tick"} /\ Volume(u, m) \in Nat
<1>1. /\ u.market \in Markets /\ u.side \in Sides /\ u.old \in BOOLEAN /\ u.volume \in Nat
      /\ u.mixed \in BOOLEAN /\ u.pc \in {"publish", "tick"}
  BY DEF Update
<1>2. Volume(u, m) = u.volume \/ Volume(u, m) = 0
  BY DEF Volume
<1> QED BY <1>1, <1>2

(* Induction: of the intervals that end outside P one would be minimal.     *)
LEMMA EveryNumber ==
    ASSUME NEW P \in SUBSET Nat, 0 \in P, \A k \in P : k + 1 \in P
    PROVE  P = Nat
<1> SUFFICES ASSUME NEW n \in Nat, n \notin P PROVE FALSE
  OBVIOUS
<1> DEFINE Q == {k \in 1..n : k \notin P}
           T == {1..k : k \in Q}
           R == StrictSubsetOrdering(1..n)
           S == FiniteSubsetsOf(1..n)
<1>1. T \subseteq S /\ T # {}
  <2>1. ASSUME NEW k \in Q
        PROVE  1..k \in S
    <3>1. k \in Int /\ 1..k \subseteq 1..n
      OBVIOUS
    <3>2. IsFiniteSet(1..k)
      BY <3>1, FS_Interval
    <3> QED BY <3>1, <3>2 DEF FiniteSubsetsOf
  <2>2. n \in Q
    <3>1. n # 0 /\ n \in 1..n
      OBVIOUS
    <3> QED BY <3>1
  <2> QED BY <2>1, <2>2
<1>2. IsWellFoundedOn(R, S)
  BY FS_StrictSubsetOrderingWellFounded
<1>3. PICK t \in T : \A u \in T : ~(<<u, t>> \in R)
  <2> HIDE DEF T, R, S
  <2> QED BY <1>1, <1>2, WFMin
<1>4. PICK q \in Q : t = 1..q
  OBVIOUS
<1>5. q - 1 \in Nat /\ q - 1 \notin P
  OBVIOUS
<1>6. q - 1 # 0 /\ q - 1 \in Q
  BY <1>5
<1>7. 1..(q - 1) \in T /\ 1..(q - 1) \subseteq 1..q /\ 1..(q - 1) # 1..q
  BY <1>5, <1>6
<1>8. 1..(q - 1) \in SUBSET (1..n) /\ 1..q \in SUBSET (1..n)
  BY <1>6
<1>9. <<1..(q - 1), 1..q>> \in R
  BY <1>7, <1>8 DEF StrictSubsetOrdering
<1> QED BY <1>3, <1>4, <1>7, <1>9

LEMMA SumsExist ==
    ASSUME NEW s \in Seq(Update), NEW m
    PROVE  \E f : Sums(s, m, f)
<1> DEFINE Upto(f, k) == /\ f \in [0..Len(s) -> Nat] /\ f[0] = 0
                         /\ \A i \in 1..Len(s) : i <= k => f[i] = f[i - 1] + Volume(s[i], m)
           P == {k \in Nat : \E f : Upto(f, k)}
<1>1. Len(s) \in Nat /\ \A i \in 1..Len(s) : Volume(s[i], m) \in Nat
  BY UpdateIs
<1>2. 0 \in P
  <2> DEFINE f == [i \in 0..Len(s) |-> 0]
  <2>1. f \in [0..Len(s) -> Nat] /\ f[0] = 0
    BY <1>1
  <2>2. \A i \in 1..Len(s) : ~(i <= 0)
    BY <1>1
  <2>3. Upto(f, 0)
    BY <2>1, <2>2
  <2> QED BY <2>3
<1>3. ASSUME NEW k \in P
      PROVE  k + 1 \in P
  <2>1. PICK f : Upto(f, k)
    OBVIOUS
  <2>2. CASE k + 1 \in 1..Len(s)
    <3> DEFINE v == f[k] + Volume(s[k + 1], m)
               g == [i \in 0..Len(s) |-> IF i = k + 1 THEN v ELSE f[i]]
    <3>1. v \in Nat
      <4>1. f[k] \in Nat
        BY <1>1, <2>1, <2>2
      <4>2. Volume(s[k + 1], m) \in Nat
        BY <1>1, <2>2
      <4> QED BY <4>1, <4>2
    <3> HIDE DEF v
    <3>2. /\ g \in [0..Len(s) -> Nat]
          /\ g[k + 1] = v /\ \A i \in 0..Len(s) : i # k + 1 => g[i] = f[i]
      BY <1>1, <2>1, <2>2, <3>1
    <3> HIDE DEF g
    <3>3. g[0] = 0
      BY <1>1, <2>1, <3>2
    <3>4. ASSUME NEW i \in 1..Len(s), i <= k + 1
          PROVE  g[i] = g[i - 1] + Volume(s[i], m)
      <4>1. i - 1 \in 0..Len(s) /\ i - 1 # k + 1 /\ i \in 0..Len(s)
        BY <1>1, <3>4
      <4>2. g[i - 1] = f[i - 1]
        BY <3>2, <4>1
      <4>3. CASE i = k + 1
        BY <3>2, <4>2, <4>3 DEF v
      <4>4. CASE i # k + 1
        <5>1. i <= k /\ g[i] = f[i]
          BY <1>1, <3>2, <3>4, <4>1, <4>4
        <5> QED BY <2>1, <4>2, <5>1
      <4> QED BY <4>3, <4>4
    <3>5. Upto(g, k + 1)
      BY <3>2, <3>3, <3>4
    <3> QED BY <3>5
  <2>3. CASE ~(k + 1 \in 1..Len(s))
    <3>1. \A i \in 1..Len(s) : i <= k
      BY <1>1, <2>3
    <3>2. Upto(f, k + 1)
      BY <2>1, <3>1
    <3> QED BY <3>2
  <2> QED BY <2>2, <2>3
<1>4. P = Nat
  <2>1. P \in SUBSET Nat
    OBVIOUS
  <2> HIDE DEF P
  <2> QED BY <1>2, <1>3, <2>1, EveryNumber
<1>5. PICK f : Upto(f, Len(s))
  <2>1. Len(s) \in P
    BY <1>1, <1>4
  <2> QED BY <2>1
<1>6. Sums(s, m, f)
  BY <1>1, <1>5 DEF Sums
<1> QED BY <1>6

LEMMA SumsAgree ==
    ASSUME NEW s \in Seq(Update), NEW m, NEW f, Sums(s, m, f), NEW g, g[0] = 0,
           \A i \in 1..Len(s) : g[i] = g[i - 1] + Volume(s[i], m)
    PROVE  g[Len(s)] = f[Len(s)]
<1> DEFINE P == {k \in Nat : k <= Len(s) => g[k] = f[k]}
<1>1. Len(s) \in Nat
  OBVIOUS
<1>2. 0 \in P
  BY DEF Sums
<1>3. ASSUME NEW k \in P
      PROVE  k + 1 \in P
  <2> SUFFICES ASSUME k + 1 <= Len(s) PROVE g[k + 1] = f[k + 1]
    OBVIOUS
  <2>1. k + 1 \in 1..Len(s) /\ k <= Len(s) /\ (k + 1) - 1 = k
    BY <1>1
  <2>2. g[k + 1] = g[k] + Volume(s[k + 1], m) /\ f[k + 1] = f[k] + Volume(s[k + 1], m)
    BY <2>1 DEF Sums
  <2> QED BY <2>1, <2>2
<1>4. P = Nat
  <2>1. P \in SUBSET Nat
    OBVIOUS
  <2> HIDE DEF P
  <2> QED BY <1>2, <1>3, <2>1, EveryNumber
<1> QED BY <1>1, <1>4

LEMMA TotalIs ==
    ASSUME NEW s \in Seq(Update), NEW m, NEW f, Sums(s, m, f)
    PROVE  Total(s, m) = f[Len(s)] /\ f[Len(s)] \in Nat
<1>1. Len(s) \in Nat /\ f \in [0..Len(s) -> Nat] /\ f[0] = 0
      /\ \A i \in 1..Len(s) : f[i] = f[i - 1] + Volume(s[i], m)
  BY DEF Sums
<1>2. IsTotal(s, m, f)
  <2> DEFINE h == [i \in 0..Len(s) |-> IF i = 0 THEN 0 ELSE f[i - 1] + Volume(s[i], m)]
  <2>1. ASSUME NEW i \in 0..Len(s) PROVE f[i] = h[i]
    <3>1. i = 0 \/ i \in 1..Len(s)
      BY <1>1
    <3> QED BY <1>1, <3>1
  <2>2. f = h
    BY <1>1, <2>1
  <2> QED BY <2>2 DEF IsTotal
<1> DEFINE g == CHOOSE e : IsTotal(s, m, e)
<1>3. IsTotal(s, m, g)
  BY <1>2
<1> HIDE DEF g
<1>4. g[0] = 0 /\ \A i \in 1..Len(s) : g[i] = g[i - 1] + Volume(s[i], m)
  <2>1. \A i \in 0..Len(s) : g[i] = IF i = 0 THEN 0 ELSE g[i - 1] + Volume(s[i], m)
    <3> DEFINE h == [i \in 0..Len(s) |-> IF i = 0 THEN 0 ELSE g[i - 1] + Volume(s[i], m)]
    <3>1. \A i \in 0..Len(s) : h[i] = IF i = 0 THEN 0 ELSE g[i - 1] + Volume(s[i], m)
      OBVIOUS
    <3>2. g = h
      BY <1>3 DEF IsTotal
    <3> HIDE DEF h
    <3> QED BY <3>1, <3>2
  <2>2. \A i \in 1..Len(s) : i \in 0..Len(s) /\ i # 0
    BY <1>1
  <2> QED BY <1>1, <2>1, <2>2
<1>5. g[Len(s)] = f[Len(s)]
  BY <1>4, SumsAgree
<1> QED BY <1>1, <1>5 DEF Total, g

LEMMA TotalIsNatural ==
    ASSUME NEW s \in Seq(Update), NEW m
    PROVE  Total(s, m) \in Nat
BY SumsExist, TotalIs

(* What of the updates the total depends on.                                *)
LEMMA TotalSame ==
    ASSUME NEW s \in Seq(Update), NEW t \in Seq(Update), NEW m, Len(t) = Len(s),
           \A i \in 1..Len(s) : Volume(t[i], m) = Volume(s[i], m)
    PROVE  Total(t, m) = Total(s, m)
<1>1. PICK f : Sums(s, m, f)
  BY SumsExist
<1>2. Sums(t, m, f)
  BY <1>1 DEF Sums
<1> QED BY <1>1, <1>2, TotalIs

LEMMA TotalAppend ==
    ASSUME NEW s \in Seq(Update), NEW u \in Update, NEW m, Volume(u, m) = 0
    PROVE  Total(Append(s, u), m) = Total(s, m)
<1> DEFINE t == Append(s, u)
<1>1. /\ t \in Seq(Update) /\ Len(t) = Len(s) + 1 /\ Len(s) \in Nat
      /\ \A i \in 1..Len(s) : t[i] = s[i]
      /\ t[Len(s) + 1] = u
  BY AppendIs
<1> HIDE DEF t
<1>2. PICK f : Sums(s, m, f)
  BY SumsExist
<1> DEFINE g == [i \in 0..Len(t) |-> IF i <= Len(s) THEN f[i] ELSE f[Len(s)]]
<1>3. f \in [0..Len(s) -> Nat] /\ f[0] = 0
  BY <1>2 DEF Sums
<1>4. /\ g \in [0..Len(t) -> Nat] /\ g[0] = 0 /\ g[Len(s) + 1] = f[Len(s)]
      /\ \A i \in 0..Len(s) : g[i] = f[i]
  BY <1>1, <1>3
<1> HIDE DEF g
<1>5. ASSUME NEW i \in 1..Len(t)
      PROVE  g[i] = g[i - 1] + Volume(t[i], m)
  <2>1. CASE i = Len(s) + 1
    <3>1. g[i - 1] = f[Len(s)] /\ f[Len(s)] \in Nat
      BY <1>1, <1>3, <1>4, <2>1
    <3> QED BY <1>1, <1>4, <2>1, <3>1
  <2>2. CASE i # Len(s) + 1
    <3>1. i \in 1..Len(s) /\ i \in 0..Len(s) /\ i - 1 \in 0..Len(s)
      BY <1>1, <2>2
    <3>2. g[i] = f[i] /\ g[i - 1] = f[i - 1] /\ t[i] = s[i]
      BY <1>1, <1>4, <3>1
    <3> QED BY <1>2, <3>1, <3>2 DEF Sums
  <2> QED BY <2>1, <2>2
<1>6. Sums(t, m, g)
  BY <1>4, <1>5 DEF Sums
<1>7. Total(t, m) = g[Len(t)]
  BY <1>1, <1>6, TotalIs
<1> QED BY <1>1, <1>2, <1>4, <1>7, TotalIs DEF t

(* A tick is made of an update that carried none.                           *)
LEMMA TotalChange ==
    ASSUME NEW s \in Seq(Update), NEW t \in Seq(Update), NEW m, Len(t) = Len(s), NEW k \in 1..Len(s),
           \A i \in 1..Len(s) : i # k => Volume(t[i], m) = Volume(s[i], m),
           Volume(s[k], m) = 0
    PROVE  Total(t, m) = Total(s, m) + Volume(t[k], m)
<1> DEFINE v == Volume(t[k], m)
<1>1. Len(s) \in Nat /\ v \in Nat
  <2>1. t[k] \in Update
    OBVIOUS
  <2> QED BY <2>1, UpdateIs
<1> HIDE DEF v
<1>2. PICK f : Sums(s, m, f)
  BY SumsExist
<1>3. f \in [0..Len(s) -> Nat] /\ f[0] = 0
  BY <1>2 DEF Sums
<1> DEFINE g == [i \in 0..Len(s) |-> IF i < k THEN f[i] ELSE f[i] + v]
<1>4. /\ g \in [0..Len(s) -> Nat] /\ g[0] = 0 /\ g[Len(s)] = f[Len(s)] + v
      /\ \A i \in 0..Len(s) : g[i] = IF i < k THEN f[i] ELSE f[i] + v
  BY <1>1, <1>3
<1> HIDE DEF g
<1>5. ASSUME NEW i \in 1..Len(t)
      PROVE  g[i] = g[i - 1] + Volume(t[i], m)
  <2>1. i \in 1..Len(s) /\ i \in 0..Len(s) /\ i - 1 \in 0..Len(s)
    BY <1>1
  <2>2. f[i] = f[i - 1] + Volume(s[i], m) /\ f[i] \in Nat /\ f[i - 1] \in Nat /\ Volume(s[i], m) \in Nat
    <3>1. s[i] \in Update
      BY <2>1
    <3> QED BY <1>2, <1>3, <2>1, <3>1, UpdateIs DEF Sums
  <2>3. CASE i < k
    <3>1. g[i] = f[i] /\ g[i - 1] = f[i - 1] /\ Volume(t[i], m) = Volume(s[i], m)
      BY <1>4, <2>1, <2>3
    <3> QED BY <2>2, <3>1
  <2>4. CASE i = k
    <3>1. g[i] = f[i] + v /\ g[i - 1] = f[i - 1] /\ Volume(t[i], m) = v /\ Volume(s[i], m) = 0
      BY <1>4, <2>1, <2>4 DEF v
    <3> QED BY <1>1, <2>2, <3>1
  <2>5. CASE i > k
    <3>1. g[i] = f[i] + v /\ g[i - 1] = f[i - 1] + v /\ Volume(t[i], m) = Volume(s[i], m)
      BY <1>4, <2>1, <2>5
    <3> QED BY <1>1, <2>2, <3>1
  <2> QED BY <2>1, <2>3, <2>4, <2>5
<1>6. Sums(t, m, g)
  BY <1>4, <1>5 DEF Sums
<1>7. Total(t, m) = g[Len(t)]
  BY <1>6, TotalIs
<1> QED BY <1>2, <1>4, <1>7, TotalIs DEF v

(* An update is done with.                                                  *)
Without(s, k) == SubSeq(s, 1, k - 1) \o SubSeq(s, k + 1, Len(s))

LEMMA WithoutIs ==
    ASSUME NEW s \in Seq(Update), NEW k \in 1..Len(s)
    PROVE  /\ Without(s, k) \in Seq(Update) /\ Len(Without(s, k)) = Len(s) - 1 /\ Len(s) \in Nat \ {0}
           /\ \A i \in 1..Len(s) - 1 : Without(s, k)[i] = IF i < k THEN s[i] ELSE s[i + 1]
<1> DEFINE a == SubSeq(s, 1, k - 1)
           b == SubSeq(s, k + 1, Len(s))
<1>1. a \in Seq(Update) /\ Len(a) = k - 1 /\ \A i \in 1..k - 1 : a[i] = s[i]
  OBVIOUS
<1>2. b \in Seq(Update) /\ Len(b) = Len(s) - k /\ \A i \in 1..Len(s) - k : b[i] = s[k + i]
  OBVIOUS
<1> HIDE DEF a, b
<1> DEFINE t == a \o b
<1>3. t \in Seq(Update) /\ Len(t) = Len(a) + Len(b)
      /\ \A i \in 1..Len(t) : t[i] = IF i <= Len(a) THEN a[i] ELSE b[i - Len(a)]
  <2>1. a \in Seq(Update) /\ b \in Seq(Update)
    BY <1>1, <1>2
  <2> QED BY <2>1
<1> HIDE DEF t
<1>4. Len(t) = Len(s) - 1 /\ Len(s) \in Nat \ {0}
  BY <1>1, <1>2, <1>3
<1>5. ASSUME NEW i \in 1..Len(s) - 1
      PROVE  t[i] = IF i < k THEN s[i] ELSE s[i + 1]
  <2>1. CASE i < k
    BY <1>1, <1>3, <1>4, <2>1
  <2>2. CASE ~(i < k)
    <3>1. i - Len(a) \in 1..Len(s) - k /\ k + (i - Len(a)) = i + 1 /\ ~(i <= Len(a))
      BY <1>1, <1>4, <2>2
    <3> QED BY <1>2, <1>3, <1>4, <2>2, <3>1
  <2> QED BY <2>1, <2>2
<1> QED BY <1>3, <1>4, <1>5 DEF t, a, b, Without

LEMMA TotalWithout ==
    ASSUME NEW s \in Seq(Update), NEW k \in 1..Len(s), NEW m
    PROVE  /\ Total(s, m) = Total(Without(s, k), m) + Volume(s[k], m)
           /\ Total(Without(s, k), m) \in Nat /\ Volume(s[k], m) \in Nat
<1> DEFINE t == Without(s, k)
           v == Volume(s[k], m)
<1>1. /\ t \in Seq(Update) /\ Len(t) = Len(s) - 1 /\ Len(s) \in Nat \ {0}
      /\ \A i \in 1..Len(s) - 1 : t[i] = IF i < k THEN s[i] ELSE s[i + 1]
  BY WithoutIs
<1>2. v \in Nat
  <2>1. s[k] \in Update
    OBVIOUS
  <2> QED BY <2>1, UpdateIs
<1> HIDE DEF t, v
<1>3. PICK f : Sums(t, m, f)
  BY <1>1, SumsExist
<1>4. f \in [0..Len(s) - 1 -> Nat] /\ f[0] = 0
  BY <1>1, <1>3 DEF Sums
<1> DEFINE g == [i \in 0..Len(s) |-> IF i < k THEN f[i] ELSE f[i - 1] + v]
<1>5. /\ g \in [0..Len(s) -> Nat] /\ g[0] = 0 /\ g[Len(s)] = f[Len(s) - 1] + v
      /\ \A i \in 0..Len(s) : g[i] = IF i < k THEN f[i] ELSE f[i - 1] + v
  BY <1>1, <1>2, <1>4
<1> HIDE DEF g
<1>6. ASSUME NEW i \in 1..Len(s)
      PROVE  g[i] = g[i - 1] + Volume(s[i], m)
  <2>1. i \in 0..Len(s) /\ i - 1 \in 0..Len(s) /\ s[i] \in Update /\ Volume(s[i], m) \in Nat
    BY <1>1, UpdateIs
  <2>2. CASE i < k
    <3>1. i \in 1..Len(t) /\ t[i] = s[i]
      BY <1>1, <2>2
    <3>2. g[i] = f[i] /\ g[i - 1] = f[i - 1]
      BY <1>5, <2>1, <2>2
    <3> QED BY <1>3, <3>1, <3>2 DEF Sums
  <2>3. CASE i = k
    <3>1. g[i] = f[i - 1] + v /\ g[i - 1] = f[i - 1]
      BY <1>5, <2>1, <2>3
    <3> QED BY <2>3, <3>1 DEF v
  <2>4. CASE i > k
    <3>1. i - 1 \in 1..Len(t) /\ t[i - 1] = s[i]
      BY <1>1, <2>4
    <3>2. g[i] = f[i - 1] + v /\ g[i - 1] = f[i - 1 - 1] + v
      BY <1>5, <2>1, <2>4
    <3>3. f[i - 1] = f[i - 1 - 1] + Volume(s[i], m)
      BY <1>3, <3>1 DEF Sums
    <3>4. f[i - 1 - 1] \in Nat
      <4>1. i - 1 - 1 \in 0..Len(s) - 1
        BY <1>1, <3>1
      <4> QED BY <1>4, <4>1
    <3> QED BY <1>2, <2>1, <3>2, <3>3, <3>4
  <2> QED BY <2>1, <2>2, <2>3, <2>4
<1>7. Sums(s, m, g)
  BY <1>5, <1>6 DEF Sums
<1>8. Total(s, m) = g[Len(s)]
  BY <1>7, TotalIs
<1>9. Total(t, m) = f[Len(s) - 1] /\ Total(t, m) \in Nat
  BY <1>1, <1>3, TotalIs
<1> QED BY <1>2, <1>5, <1>8, <1>9 DEF t, v
-----------------------------------------------------------------------------
(***************************************************************************)
(* Books, updates and the volume in them.  A book that is old, and a tick  *)
(* that has one, is of a market that was dropped under an update; and the  *)
(* volume inserted, in ticks and pending is what the trades brought, if    *)
(* none was lost, and no more if some was.                                 *)
(***************************************************************************)
BookTypes ==
    /\ books \in [Markets -> [Sides -> {"old", "new", None}]]
    /\ due \in [Markets -> BOOLEAN]
    /\ pendingVolume \in [Markets -> Nat]
    /\ persisted \in [Markets -> Nat] /\ traded \in [Markets -> Nat]
    /\ updates \in Seq(Update) /\ Len(updates) <= MaxBooks
    /\ trades \in 0..MaxTrades /\ restarts \in 0..MaxRestarts
    /\ spoiled \subseteq Markets /\ revived \subseteq Markets /\ straddled \subseteq Markets

Lives ==
    /\ \A m \in Markets : tracked[m] = "epoch" => m \in revived
    /\ \A m \in Markets : \A side \in Sides : books[m][side] = "old" => m \in straddled
    /\ \A i \in 1..Len(updates) :
          updates[i].old \/ (updates[i].pc = "tick" /\ updates[i].mixed) => updates[i].market \in straddled

Accounted(m) ==
    /\ traded[m] <= trades
    /\ persisted[m] + Total(updates, m) + pendingVolume[m] <= traded[m]
    /\ m \notin spoiled => persisted[m] + Total(updates, m) + pendingVolume[m] = traded[m]

Volumes ==
    /\ \A m \in Markets : Accounted(m)
    /\ \A i \in 1..Len(updates) : updates[i].volume <= MaxTrades

TicksInv == BookTypes /\ Lives /\ Volumes

LEMMA TicksElsewhere ==
    ASSUME TicksInv, UNCHANGED <<feed, trades, restarts, persisted, traded, spoiled, straddled, revived>>,
           \A m \in Markets : tracked'[m] = "epoch" => m \in revived
    PROVE  TicksInv'
<1>1. /\ books' = books /\ due' = due /\ pendingVolume' = pendingVolume /\ updates' = updates
      /\ trades' = trades /\ restarts' = restarts /\ persisted' = persisted /\ traded' = traded
      /\ spoiled' = spoiled /\ straddled' = straddled /\ revived' = revived
  BY DEF feed
<1>2. BookTypes'
  BY <1>1 DEF TicksInv, BookTypes
<1>3. Lives'
  BY <1>1 DEF TicksInv, Lives
<1>4. Volumes'
  BY <1>1 DEF TicksInv, Volumes, Accounted
<1> QED BY <1>2, <1>3, <1>4 DEF TicksInv

LEMMA TicksStart ==
    ASSUME Init
    PROVE  TicksInv
<1>1. /\ books = [m \in Markets |-> [side \in Sides |-> None]] /\ due = [m \in Markets |-> TRUE]
      /\ pendingVolume = [m \in Markets |-> 0] /\ updates = <<>> /\ trades = 0 /\ restarts = 0
      /\ persisted = [m \in Markets |-> 0] /\ traded = [m \in Markets |-> 0]
      /\ spoiled = {} /\ revived = {} /\ straddled = {} /\ tracked = [m \in Markets |-> None]
  BY DEF Init, NoBooks, Zero, Untracked
<1>2. updates \in Seq(Update) /\ Len(updates) = 0
  BY <1>1
<1>3. BookTypes
  BY <1>1, <1>2, StreamAssumption DEF BookTypes
<1>4. Lives
  BY <1>1, <1>2, NoneIsNoRecord DEF Lives
<1>5. \A m \in Markets : Total(updates, m) = 0
  <2> SUFFICES ASSUME NEW m \in Markets PROVE Total(updates, m) = 0
    OBVIOUS
  <2>1. PICK f : Sums(updates, m, f)
    BY <1>2, SumsExist
  <2> QED BY <1>2, <2>1, TotalIs DEF Sums
<1>6. Volumes
  BY <1>1, <1>2, <1>5 DEF Volumes, Accounted
<1> QED BY <1>3, <1>4, <1>6 DEF TicksInv

LEMMA RestartKeepsTicks ==
    ASSUME TicksInv, Restart
    PROVE  TicksInv'
<1>1. /\ books' = [m \in Markets |-> [side \in Sides |-> None]] /\ due' = [m \in Markets |-> TRUE]
      /\ pendingVolume' = [m \in Markets |-> 0] /\ updates' = <<>> /\ trades' = trades
      /\ restarts < MaxRestarts /\ restarts' = restarts + 1
      /\ persisted' = persisted /\ traded' = traded
      /\ spoiled' = spoiled \cup {m \in Markets : traded[m] > 0}
      /\ revived' = {} /\ straddled' = {} /\ tracked' = [m \in Markets |-> None]
  BY DEF Restart, NoBooks, Zero, Untracked
<1>2. BookTypes
  BY DEF TicksInv
<1>3. updates' \in Seq(Update) /\ Len(updates') = 0
  BY <1>1
<1>4. BookTypes'
  <2>1. restarts' \in 0..MaxRestarts
    BY <1>1, <1>2, StreamAssumption DEF BookTypes
  <2>2. books' \in [Markets -> [Sides -> {"old", "new", None}]]
    BY <1>1
  <2>3. pendingVolume' \in [Markets -> Nat] /\ due' \in [Markets -> BOOLEAN]
    BY <1>1
  <2>4. spoiled' \subseteq Markets
    BY <1>1, <1>2 DEF BookTypes
  <2> QED BY <1>1, <1>2, <1>3, <2>1, <2>2, <2>3, <2>4, StreamAssumption DEF BookTypes
<1>5. Lives'
  BY <1>1, <1>3, NoneIsNoRecord DEF Lives
<1>6. \A m \in Markets : Total(updates', m) = 0
  <2> SUFFICES ASSUME NEW m \in Markets PROVE Total(updates', m) = 0
    OBVIOUS
  <2>1. PICK f : Sums(updates', m, f)
    BY <1>3, SumsExist
  <2> QED BY <1>3, <2>1, TotalIs DEF Sums
<1>7. ASSUME NEW m \in Markets
      PROVE  Accounted(m)'
  <2>1. /\ traded[m] \in Nat /\ persisted[m] \in Nat /\ pendingVolume[m] \in Nat /\ trades \in Nat
        /\ Total(updates, m) \in Nat
    BY <1>2, TotalIsNatural, StreamAssumption DEF BookTypes
  <2>2. traded[m] <= trades /\ persisted[m] + Total(updates, m) + pendingVolume[m] <= traded[m]
    BY DEF TicksInv, Volumes, Accounted
  <2>3. persisted[m] <= traded[m]
    <3> HIDE DEF Total
    <3> QED BY <2>1, <2>2
  <2>4. m \notin spoiled' => traded[m] = 0
    BY <1>1, <2>1
  <2>5. pendingVolume'[m] = 0 /\ Total(updates', m) = 0
    BY <1>1, <1>6
  <2>6. persisted[m] + 0 + 0 = persisted[m] /\ (m \notin spoiled' => persisted[m] = 0)
    BY <2>1, <2>3, <2>4
  <2> QED BY <1>1, <2>2, <2>3, <2>4, <2>5, <2>6 DEF Accounted
<1>8. Volumes'
  BY <1>3, <1>7 DEF Volumes
<1> QED BY <1>4, <1>5, <1>8 DEF TicksInv

(* The scanner's events.                                                    *)
LEMMA DropKeepsTicks ==
    ASSUME TicksInv, NEW m0 \in Markets, Drop(m0), tracked \in [Markets -> {"known", "epoch", None}],
           UNCHANGED <<counts, persisted, traded>>
    PROVE  TicksInv'
<1> DEFINE throws == tracked[m0] # None /\ SendThrows({m0})
<1>1. /\ tracked' = [tracked EXCEPT ![m0] = None]
      /\ IF throws
         THEN due' = due /\ pendingVolume' = pendingVolume
         ELSE due' = [due EXCEPT ![m0] = TRUE] /\ pendingVolume' = [pendingVolume EXCEPT ![m0] = 0]
      /\ books' = [books EXCEPT ![m0] = [side \in Sides |->
                        IF throws /\ @[side] # None THEN "old" ELSE None]]
      /\ updates' = Aged(m0)
      /\ spoiled' = IF pendingVolume[m0] > 0 THEN spoiled \cup {m0} ELSE spoiled
      /\ straddled' = IF throws \/ InUpdate(m0) THEN straddled \cup {m0} ELSE straddled
      /\ revived' = revived /\ trades' = trades /\ restarts' = restarts
      /\ persisted' = persisted /\ traded' = traded
  BY DEF Drop, counts
<1> HIDE DEF throws
<1>2. BookTypes /\ Lives /\ Volumes
  BY DEF TicksInv
<1>3. updates \in Seq(Update) /\ Len(updates) \in Nat /\ DOMAIN updates = 1..Len(updates)
      /\ \A i \in 1..Len(updates) : updates[i] \in Update
  BY <1>2 DEF BookTypes
<1>4. ASSUME NEW u \in Update
      PROVE  LET w == [u EXCEPT !.old = TRUE]
             IN  /\ w \in Update /\ w.market = u.market /\ w.pc = u.pc /\ w.volume = u.volume
                 /\ w.mixed = u.mixed
  BY DEF Update
<1>5. ASSUME NEW i \in 1..Len(updates)
      PROVE  /\ updates'[i] \in Update /\ updates'[i].market = updates[i].market
             /\ updates'[i].pc = updates[i].pc /\ updates'[i].volume = updates[i].volume
             /\ updates'[i].mixed = updates[i].mixed
             /\ updates[i].market # m0 => updates'[i] = updates[i]
  <2>1. updates'[i] = IF updates[i].market = m0 THEN [updates[i] EXCEPT !.old = TRUE] ELSE updates[i]
    BY <1>1, <1>3 DEF Aged
  <2>2. CASE updates[i].market = m0
    <3>1. updates[i] \in Update
      BY <1>3
    <3> QED BY <1>4, <2>1, <2>2, <3>1
  <2>3. CASE updates[i].market # m0
    BY <1>3, <2>1, <2>3
  <2> QED BY <2>2, <2>3
<1>6. updates' \in Seq(Update) /\ Len(updates') = Len(updates)
  <2>1. DOMAIN updates' = 1..Len(updates) /\ updates' = [i \in 1..Len(updates) |-> updates'[i]]
    BY <1>1, <1>3 DEF Aged
  <2>2. updates' \in [1..Len(updates) -> Update]
    BY <1>5, <2>1
  <2> QED BY <1>3, <2>2
<1>7. InUpdate(m0) <=> \E i \in 1..Len(updates) : updates[i].market = m0
  BY <1>3 DEF InUpdate
<1>8. /\ \A side \in Sides : books'[m0][side] = IF throws /\ books[m0][side] # None THEN "old" ELSE None
      /\ books' \in [Markets -> [Sides -> {"old", "new", None}]]
      /\ \A m \in Markets : m # m0 => books'[m] = books[m]
  <2>1. books \in [Markets -> [Sides -> {"old", "new", None}]]
    BY <1>2 DEF BookTypes
  <2> DEFINE b == [side \in Sides |-> IF throws /\ books[m0][side] # None THEN "old" ELSE None]
  <2>2. books' = [books EXCEPT ![m0] = b]
    BY <1>1, <2>1
  <2>3. /\ b \in [Sides -> {"old", "new", None}]
        /\ \A side \in Sides : b[side] = IF throws /\ books[m0][side] # None THEN "old" ELSE None
    OBVIOUS
  <2> HIDE DEF b
  <2>4. books'[m0] = b /\ \A m \in Markets : m # m0 => books'[m] = books[m]
    BY <2>1, <2>2
  <2>5. books' \in [Markets -> [Sides -> {"old", "new", None}]]
    BY <2>1, <2>2, <2>3
  <2> QED BY <2>3, <2>4, <2>5
<1>9. /\ due' \in [Markets -> BOOLEAN] /\ pendingVolume' \in [Markets -> Nat]
      /\ \A m \in Markets : pendingVolume'[m] = IF m = m0 /\ ~throws THEN 0 ELSE pendingVolume[m]
  <2>1. due \in [Markets -> BOOLEAN] /\ pendingVolume \in [Markets -> Nat]
    BY <1>2 DEF BookTypes
  <2>2. CASE throws
    <3>1. due' = due /\ pendingVolume' = pendingVolume
      BY <1>1, <2>2
    <3> QED BY <2>1, <2>2, <3>1
  <2>3. CASE ~throws
    <3>1. due' = [due EXCEPT ![m0] = TRUE] /\ pendingVolume' = [pendingVolume EXCEPT ![m0] = 0]
      BY <1>1, <2>3
    <3>2. due' \in [Markets -> BOOLEAN]
      BY <2>1, <3>1
    <3>3. pendingVolume' \in [Markets -> Nat]
          /\ \A m \in Markets : pendingVolume'[m] = IF m = m0 THEN 0 ELSE pendingVolume[m]
      BY <2>1, <3>1
    <3> QED BY <2>3, <3>2, <3>3
  <2> QED BY <2>2, <2>3
<1>10. BookTypes'
  <2>1. spoiled' \subseteq Markets /\ straddled' \subseteq Markets
    BY <1>1, <1>2 DEF BookTypes
  <2> QED BY <1>1, <1>2, <1>6, <1>8, <1>9, <2>1 DEF BookTypes
<1>11. Lives'
  <2>1. \A m \in Markets : tracked'[m] = "epoch" => m \in revived'
    BY <1>1, <1>2, NoneIsNoRecord DEF Lives
  <2>2. ASSUME NEW m \in Markets, NEW side \in Sides, books'[m][side] = "old"
        PROVE  m \in straddled'
    <3>1. CASE m = m0
      BY <1>1, <1>8, <2>2, <3>1, NoneIsNoRecord
    <3>2. CASE m # m0
      BY <1>1, <1>2, <1>8, <2>2, <3>2 DEF Lives
    <3> QED BY <3>1, <3>2
  <2>3. ASSUME NEW i \in 1..Len(updates),
               updates'[i].old \/ (updates'[i].pc = "tick" /\ updates'[i].mixed)
        PROVE  updates'[i].market \in straddled'
    <3>1. CASE updates[i].market = m0
      BY <1>1, <1>5, <1>7, <3>1
    <3>2. CASE updates[i].market # m0
      BY <1>1, <1>2, <1>5, <2>3, <3>2 DEF Lives
    <3> QED BY <3>1, <3>2
  <2> QED BY <1>6, <2>1, <2>2, <2>3 DEF Lives
<1>12. ASSUME NEW m \in Markets
       PROVE  Accounted(m)'
  <2>1. Total(updates', m) = Total(updates, m)
    <3>1. \A i \in 1..Len(updates) : Volume(updates'[i], m) = Volume(updates[i], m)
      BY <1>5 DEF Volume
    <3> QED BY <1>3, <1>6, <3>1, TotalSame
  <2>2. /\ traded[m] \in Nat /\ persisted[m] \in Nat /\ pendingVolume[m] \in Nat
        /\ Total(updates, m) \in Nat
    BY <1>2, TotalIsNatural DEF BookTypes
  <2>3. Accounted(m)
    BY <1>2 DEF Volumes
  <2>4. CASE m = m0 /\ ~throws
    <3>1. pendingVolume'[m] = 0
      BY <1>9, <2>4
    <3>2. pendingVolume[m] = 0 \/ m \in spoiled'
      BY <1>1, <2>2, <2>4
    <3>3. m \notin spoiled' => m \notin spoiled
      BY <1>1
    <3> QED BY <1>1, <2>1, <2>2, <2>3, <3>1, <3>2, <3>3 DEF Accounted
  <2>5. CASE ~(m = m0 /\ ~throws)
    <3>1. pendingVolume'[m] = pendingVolume[m]
      BY <1>9, <2>5
    <3>2. m \notin spoiled' => m \notin spoiled
      BY <1>1
    <3> QED BY <1>1, <2>1, <2>3, <3>1, <3>2 DEF Accounted
  <2> QED BY <2>4, <2>5
<1>13. \A i \in 1..Len(updates') : updates'[i].volume <= MaxTrades
  BY <1>2, <1>5, <1>6 DEF Volumes
<1> QED BY <1>10, <1>11, <1>12, <1>13 DEF TicksInv, Volumes

LEMMA HandleKeepsTicks ==
    ASSUME TicksInv, SocketInv, EventsTypeOK, ReaderOK, Handle
    PROVE  TicksInv'
<1> DEFINE e == log[handled + 1]
           m == e.market
<1>1. /\ UNCHANGED <<counts, persisted, traded>>
      /\ HandleScannerEvent(e)
  BY DEF Handle
<1>2. e \in MarketEvent
  <2>1. handled + 1 \in 1..Len(log)
    <3>1. Len(log) \in Nat /\ handled < group /\ up = "on"
      BY LogIs DEF Handle
    <3> QED BY <3>1 DEF ReaderOK
  <2> QED BY <2>1, LogIs
<1>3. m \in Markets /\ e.active \in BOOLEAN
  BY <1>2, EventIs
<1>4. tracked \in [Markets -> {"known", "epoch", None}]
  BY DEF SocketInv
<1>5. \A o \in Markets : tracked[o] = "epoch" => o \in revived
  BY DEF TicksInv, Lives
<1> HIDE DEF e
<1>6. CASE e.active /\ e.type = "MARKET_DISCOVERED"
  <2>1. tracked' = [tracked EXCEPT ![m] = "known"]
        /\ UNCHANGED <<feed, spoiled, revived, straddled>>
    BY <1>1, <1>6 DEF HandleScannerEvent, Register, feed
  <2>2. \A o \in Markets : tracked'[o] = "epoch" => o \in revived
    BY <1>3, <1>4, <1>5, <2>1
  <2> QED BY <1>1, <2>1, <2>2, TicksElsewhere DEF counts
<1>7. CASE e.active /\ e.type # "MARKET_DISCOVERED"
  <2>1. /\ tracked' = [tracked EXCEPT ![m] = "epoch"] \/ tracked' = tracked
        /\ revived' = revived \cup {m} /\ UNCHANGED <<feed, spoiled, straddled>>
    BY <1>1, <1>7 DEF HandleScannerEvent, Reactivate, feed
  <2>2. \A o \in Markets : tracked'[o] = "epoch" => o \in revived'
    BY <1>3, <1>4, <1>5, <2>1
  <2>3. /\ books' = books /\ due' = due /\ pendingVolume' = pendingVolume /\ updates' = updates
        /\ trades' = trades /\ restarts' = restarts /\ persisted' = persisted /\ traded' = traded
        /\ spoiled' = spoiled /\ straddled' = straddled
    BY <1>1, <2>1 DEF counts, feed
  <2>4. BookTypes'
    BY <1>3, <2>1, <2>3 DEF TicksInv, BookTypes
  <2>5. Lives'
    BY <2>2, <2>3 DEF TicksInv, Lives
  <2>6. Volumes'
    BY <2>3 DEF TicksInv, Volumes, Accounted
  <2> QED BY <2>4, <2>5, <2>6 DEF TicksInv
<1>8. CASE ~e.active /\ e.type = "MARKET_DISCOVERED"
  <2>1. UNCHANGED <<tracked, feed, spoiled, revived, straddled>>
    BY <1>1, <1>8 DEF HandleScannerEvent, feed
  <2> QED BY <1>1, <1>5, <2>1, TicksElsewhere DEF counts
<1>9. CASE ~e.active /\ e.type # "MARKET_DISCOVERED"
  <2>1. Drop(m)
    BY <1>1, <1>9 DEF HandleScannerEvent
  <2> QED BY <1>1, <1>3, <1>4, <2>1, DropKeepsTicks
<1> QED BY <1>3, <1>6, <1>7, <1>8, <1>9

(***************************************************************************)
(* A book: what one step of an update does.                                *)
(***************************************************************************)
LEMMA BookKeepsTicks ==
    ASSUME TicksInv, NEW m0 \in Markets, NEW side \in Sides, BookArrives(m0, side)
    PROVE  TicksInv'
<1> DEFINE u == [market |-> m0, side |-> side, old |-> FALSE, volume |-> 0, mixed |-> FALSE, pc |-> "publish"]
<1>1. /\ Len(updates) < MaxBooks /\ updates' = Append(updates, u)
      /\ UNCHANGED <<tracked, books, due, pendingVolume, trades, restarts, persisted, traded, spoiled, revived,
                     straddled>>
  BY DEF BookArrives, counts, history
<1>2. u \in Update /\ u.old = FALSE /\ u.pc = "publish" /\ u.volume = 0 /\ \A m : Volume(u, m) = 0
  BY DEF Update, Volume
<1> HIDE DEF u
<1>3. BookTypes /\ Lives /\ Volumes
  BY DEF TicksInv
<1>4. updates \in Seq(Update) /\ Len(updates) \in Nat
  BY <1>3 DEF BookTypes
<1>5. /\ updates' \in Seq(Update) /\ Len(updates') = Len(updates) + 1
      /\ \A i \in 1..Len(updates) : updates'[i] = updates[i]
      /\ updates'[Len(updates) + 1] = u
  BY <1>1, <1>2, <1>4, AppendIs
<1>6. BookTypes'
  <2>1. Len(updates') <= MaxBooks
    BY <1>1, <1>4, <1>5, StreamAssumption
  <2> QED BY <1>1, <1>3, <1>5, <2>1 DEF BookTypes
<1>7. \A i \in 1..Len(updates') : i \in 1..Len(updates) \/ i = Len(updates) + 1
  BY <1>4, <1>5
<1>8. Lives'
  <2>1. ASSUME NEW i \in 1..Len(updates'),
               updates'[i].old \/ (updates'[i].pc = "tick" /\ updates'[i].mixed)
        PROVE  updates'[i].market \in straddled
    BY <1>2, <1>3, <1>5, <1>7, <2>1 DEF Lives
  <2> QED BY <1>1, <1>3, <2>1 DEF Lives
<1>9. Volumes'
  <2>1. \A m \in Markets : Total(updates', m) = Total(updates, m)
    BY <1>1, <1>2, <1>4, TotalAppend
  <2>2. \A i \in 1..Len(updates') : updates'[i].volume <= MaxTrades
    BY <1>2, <1>3, <1>5, <1>7, StreamAssumption DEF Volumes
  <2> QED BY <1>1, <1>3, <2>1, <2>2 DEF Volumes, Accounted
<1> QED BY <1>6, <1>8, <1>9 DEF TicksInv

(* An update that is over leaves the list.                                  *)
LEMMA GoneKeeps ==
    ASSUME BookTypes, Lives, \A i \in 1..Len(updates) : updates[i].volume <= MaxTrades,
           NEW k \in 1..Len(updates), Gone(k), straddled' = straddled
    PROVE  /\ updates' = Without(updates, k) /\ updates' \in Seq(Update) /\ Len(updates') <= MaxBooks
           /\ \A i \in 1..Len(updates') : updates'[i].volume <= MaxTrades
           /\ \A i \in 1..Len(updates') :
                 updates'[i].old \/ (updates'[i].pc = "tick" /\ updates'[i].mixed)
                     => updates'[i].market \in straddled'
<1>1. updates \in Seq(Update) /\ updates' = Without(updates, k)
  BY DEF BookTypes, Gone, Without
<1>2. /\ updates' \in Seq(Update) /\ Len(updates') = Len(updates) - 1 /\ Len(updates) \in Nat \ {0}
      /\ \A i \in 1..Len(updates) - 1 : updates'[i] = IF i < k THEN updates[i] ELSE updates[i + 1]
  BY <1>1, WithoutIs
<1>3. ASSUME NEW i \in 1..Len(updates')
      PROVE  \E j \in 1..Len(updates) : updates'[i] = updates[j]
  <2>1. i \in 1..Len(updates) /\ i + 1 \in 1..Len(updates) /\ i \in 1..Len(updates) - 1
    BY <1>2
  <2> QED BY <1>2, <2>1
<1>4. Len(updates') <= MaxBooks
  <2>1. Len(updates) <= MaxBooks
    BY DEF BookTypes
  <2> QED BY <1>2, <2>1, StreamAssumption
<1> QED BY <1>1, <1>2, <1>3, <1>4 DEF Lives

LEMMA InsertKeepsTicks ==
    ASSUME TicksInv, NEW k \in 1..Len(updates), TickInserted(k)
    PROVE  TicksInv'
<1> DEFINE m0 == updates[k].market
           v == updates[k].volume
<1>1. /\ updates[k].pc = "tick" /\ Gone(k) /\ persisted' = [persisted EXCEPT ![m0] = @ + v]
      /\ UNCHANGED <<tracked, books, due, pendingVolume, trades, restarts, traded, spoiled, revived,
                     straddled>>
  BY DEF TickInserted, counts
<1>2. BookTypes /\ Lives /\ Volumes
  BY DEF TicksInv
<1>3. updates \in Seq(Update) /\ updates[k] \in Update /\ persisted \in [Markets -> Nat]
  BY <1>2 DEF BookTypes
<1>4. m0 \in Markets /\ v \in Nat
  BY <1>3, UpdateIs
<1>5. /\ updates' = Without(updates, k) /\ updates' \in Seq(Update) /\ Len(updates') <= MaxBooks
      /\ \A i \in 1..Len(updates') : updates'[i].volume <= MaxTrades
      /\ \A i \in 1..Len(updates') :
            updates'[i].old \/ (updates'[i].pc = "tick" /\ updates'[i].mixed)
                => updates'[i].market \in straddled'
  BY <1>1, <1>2, GoneKeeps DEF Volumes
<1>6. /\ persisted' \in [Markets -> Nat]
      /\ \A m \in Markets : persisted'[m] = persisted[m] + Volume(updates[k], m)
  <2>1. persisted' \in [Markets -> Nat]
    BY <1>1, <1>3, <1>4
  <2>2. ASSUME NEW m \in Markets
        PROVE  persisted'[m] = persisted[m] + Volume(updates[k], m)
    <3>1. Volume(updates[k], m) = IF m = m0 THEN v ELSE 0
      BY <1>1 DEF Volume
    <3> HIDE DEF m0, v
    <3>2. persisted[m] \in Nat
      BY <1>3
    <3> QED BY <1>1, <1>3, <1>4, <3>1, <3>2
  <2> QED BY <2>1, <2>2
<1>7. BookTypes'
  BY <1>1, <1>2, <1>5, <1>6 DEF BookTypes
<1>8. Lives'
  BY <1>1, <1>2, <1>5 DEF Lives
<1>9. ASSUME NEW m \in Markets
      PROVE  Accounted(m)'
  <2>1. /\ Total(updates, m) = Total(updates', m) + Volume(updates[k], m)
        /\ Total(updates', m) \in Nat /\ Volume(updates[k], m) \in Nat
    BY <1>3, <1>5, TotalWithout
  <2>2. persisted[m] \in Nat /\ pendingVolume[m] \in Nat /\ traded[m] \in Nat
    BY <1>2 DEF BookTypes
  <2>3. persisted'[m] + Total(updates', m) + pendingVolume[m]
          = persisted[m] + Total(updates, m) + pendingVolume[m]
    BY <1>6, <2>1, <2>2
  <2>4. Accounted(m)
    BY <1>2 DEF Volumes
  <2> QED BY <1>1, <2>3, <2>4 DEF Accounted
<1> QED BY <1>5, <1>7, <1>8, <1>9 DEF TicksInv, Volumes

LEMMA FailKeepsTicks ==
    ASSUME TicksInv, NEW k \in 1..Len(updates), TickFails(k)
    PROVE  TicksInv'
<1> DEFINE m0 == updates[k].market
<1>1. /\ updates[k].pc = "tick" /\ Gone(k) /\ spoiled' = spoiled \cup {m0}
      /\ UNCHANGED <<tracked, books, due, pendingVolume, trades, restarts, traded, persisted, revived,
                     straddled>>
  BY DEF TickFails, counts
<1>2. BookTypes /\ Lives /\ Volumes
  BY DEF TicksInv
<1>3. updates \in Seq(Update) /\ updates[k] \in Update
  BY <1>2 DEF BookTypes
<1>4. m0 \in Markets
  BY <1>3, UpdateIs
<1>5. /\ updates' = Without(updates, k) /\ updates' \in Seq(Update) /\ Len(updates') <= MaxBooks
      /\ \A i \in 1..Len(updates') : updates'[i].volume <= MaxTrades
      /\ \A i \in 1..Len(updates') :
            updates'[i].old \/ (updates'[i].pc = "tick" /\ updates'[i].mixed)
                => updates'[i].market \in straddled'
  BY <1>1, <1>2, GoneKeeps DEF Volumes
<1>6. BookTypes'
  BY <1>1, <1>2, <1>4, <1>5 DEF BookTypes
<1>7. Lives'
  BY <1>1, <1>2, <1>5 DEF Lives
<1>8. ASSUME NEW m \in Markets
      PROVE  Accounted(m)'
  <2>1. /\ Total(updates, m) = Total(updates', m) + Volume(updates[k], m)
        /\ Total(updates', m) \in Nat /\ Volume(updates[k], m) \in Nat
    BY <1>3, <1>5, TotalWithout
  <2>2. persisted[m] \in Nat /\ pendingVolume[m] \in Nat /\ traded[m] \in Nat
    BY <1>2 DEF BookTypes
  <2>3. Volume(updates[k], m) = 0 \/ m \in spoiled'
    BY <1>1 DEF Volume
  <2>4. Accounted(m)
    BY <1>2 DEF Volumes
  <2>5. persisted[m] + Total(updates', m) + pendingVolume[m]
          <= persisted[m] + Total(updates, m) + pendingVolume[m]
    <3>1. \A p, q, t, v \in Nat : p + t + q <= p + (t + v) + q
      OBVIOUS
    <3> QED BY <2>1, <2>2, <3>1
  <2>6. m \notin spoiled' => m \notin spoiled /\ Total(updates', m) = Total(updates, m)
    BY <1>1, <2>1, <2>3
  <2>7. /\ persisted[m] + Total(updates', m) + pendingVolume[m] \in Nat
        /\ persisted[m] + Total(updates, m) + pendingVolume[m] \in Nat
    <3>1. \A p, q, t \in Nat : p + t + q \in Nat
      OBVIOUS
    <3>2. Total(updates, m) \in Nat
      BY <1>3, TotalIsNatural
    <3> QED BY <2>1, <2>2, <3>1, <3>2
  <2>8. /\ persisted' = persisted /\ pendingVolume' = pendingVolume /\ traded' = traded /\ trades' = trades
    BY <1>1
  <2>9. persisted[m] + Total(updates', m) + pendingVolume[m] <= traded[m]
    BY <2>2, <2>4, <2>5, <2>7 DEF Accounted
  <2> QED BY <2>4, <2>6, <2>8, <2>9 DEF Accounted
<1> QED BY <1>5, <1>6, <1>7, <1>8 DEF TicksInv, Volumes

(* Published: the book is kept, and the tick it makes takes what is pending.*)
LEMMA PublishKeepsTicks ==
    ASSUME TicksInv, NEW k \in 1..Len(updates), Published(k)
    PROVE  TicksInv'
<1> DEFINE u == updates[k]
           m0 == u.market
           s0 == u.side
           mixed == \E side \in Sides : books'[m0][side] = "old"
           w == [u EXCEPT !.pc = "tick", !.volume = pendingVolume[m0], !.mixed = mixed]
           builds == BuildsTick(m0, books')
<1>1. /\ u.pc = "publish"
      /\ books' = [books EXCEPT ![m0][s0] = IF u.old THEN "old" ELSE "new"]
      /\ IF builds
         THEN /\ due' = [due EXCEPT ![m0] = FALSE] /\ updates' = [updates EXCEPT ![k] = w]
              /\ pendingVolume' = [pendingVolume EXCEPT ![m0] = 0]
         ELSE Gone(k) /\ due' = due /\ pendingVolume' = pendingVolume
      /\ UNCHANGED <<tracked, trades, restarts, persisted, traded, spoiled, revived, straddled>>
  BY DEF Published, Aggregate, Kept, counts, history
<1>2. BookTypes /\ Lives /\ Volumes
  BY DEF TicksInv
<1>3. updates \in Seq(Update) /\ u \in Update /\ Len(updates) \in Nat
      /\ books \in [Markets -> [Sides -> {"old", "new", None}]]
      /\ pendingVolume \in [Markets -> Nat] /\ due \in [Markets -> BOOLEAN]
  BY <1>2 DEF BookTypes
<1>4. m0 \in Markets /\ s0 \in Sides /\ u.old \in BOOLEAN
  BY <1>3, UpdateIs
<1>5. /\ w.market = u.market /\ w.old = u.old /\ w.pc = "tick" /\ w.volume = pendingVolume[m0]
      /\ w.mixed = mixed /\ w \in Update
  <2>1. mixed \in BOOLEAN /\ pendingVolume[m0] \in Nat
    BY <1>3, <1>4
  <2> HIDE DEF mixed, m0
  <2> QED BY <1>3, <2>1 DEF Update
<1>6. u.old => m0 \in straddled
  BY <1>2 DEF Lives
<1> HIDE DEF w, builds, s0
<1>7. /\ books' \in [Markets -> [Sides -> {"old", "new", None}]]
      /\ \A m \in Markets : \A side \in Sides : books'[m][side] = "old" => m \in straddled
  <2>1. ASSUME NEW m \in Markets, NEW side \in Sides
        PROVE  books'[m][side] = IF m = m0 /\ side = s0 THEN (IF u.old THEN "old" ELSE "new")
                                 ELSE books[m][side]
    <3> HIDE DEF m0, u
    <3> QED BY <1>1, <1>3, <1>4
  <2>2. books' \in [Markets -> [Sides -> {"old", "new", None}]]
    <3> HIDE DEF m0, u
    <3> QED BY <1>1, <1>3, <1>4
  <2>3. ASSUME NEW m \in Markets, NEW side \in Sides, books'[m][side] = "old"
        PROVE  m \in straddled
    <3>1. CASE m = m0 /\ side = s0
      BY <1>6, <2>1, <2>3, <3>1
    <3>2. CASE ~(m = m0 /\ side = s0)
      BY <1>2, <2>1, <2>3, <3>2 DEF Lives
    <3> QED BY <3>1, <3>2
  <2> QED BY <2>2, <2>3
<1>8. CASE builds
  <2>1. /\ due' = [due EXCEPT ![m0] = FALSE] /\ updates' = [updates EXCEPT ![k] = w]
        /\ pendingVolume' = [pendingVolume EXCEPT ![m0] = 0]
    BY <1>1, <1>8
  <2>2. /\ updates' \in Seq(Update) /\ Len(updates') = Len(updates) /\ updates'[k] = w
        /\ \A i \in 1..Len(updates) : i # k => updates'[i] = updates[i]
    <3> HIDE DEF u, m0
    <3> QED BY <1>3, <1>5, <2>1
  <2>3. /\ due' \in [Markets -> BOOLEAN] /\ pendingVolume' \in [Markets -> Nat]
        /\ \A m \in Markets : pendingVolume'[m] = IF m = m0 THEN 0 ELSE pendingVolume[m]
    <3> HIDE DEF m0
    <3> QED BY <1>3, <1>4, <2>1
  <2>4. BookTypes'
    BY <1>1, <1>2, <1>7, <2>2, <2>3 DEF BookTypes
  <2>5. Lives'
    <3>1. ASSUME NEW i \in 1..Len(updates'),
                 updates'[i].old \/ (updates'[i].pc = "tick" /\ updates'[i].mixed)
          PROVE  updates'[i].market \in straddled
      <4>1. CASE i = k
        <5>1. updates'[i] = w /\ (u.old \/ mixed)
          BY <1>5, <2>2, <3>1, <4>1
        <5>2. m0 \in straddled
          BY <1>4, <1>6, <1>7, <5>1
        <5> QED BY <1>5, <5>1, <5>2
      <4>2. CASE i # k
        BY <1>2, <2>2, <3>1, <4>2 DEF Lives
      <4> QED BY <4>1, <4>2
    <3> QED BY <1>1, <1>2, <1>7, <3>1 DEF Lives
  <2>6. ASSUME NEW m \in Markets
        PROVE  Accounted(m)'
    <3>1. Total(updates', m) = Total(updates, m) + Volume(updates'[k], m)
      <4>1. Volume(updates[k], m) = 0
        BY <1>1 DEF Volume
      <4>2. \A i \in 1..Len(updates) : i # k => Volume(updates'[i], m) = Volume(updates[i], m)
        BY <2>2 DEF Volume
      <4> QED BY <1>3, <2>2, <4>1, <4>2, TotalChange
    <3>2. Volume(updates'[k], m) = IF m = m0 THEN pendingVolume[m] ELSE 0
      BY <1>5, <2>2 DEF Volume
    <3>3. persisted[m] \in Nat /\ pendingVolume[m] \in Nat /\ Total(updates, m) \in Nat
      BY <1>2, <1>3, TotalIsNatural DEF BookTypes
    <3>4. persisted[m] + Total(updates', m) + pendingVolume'[m]
            = persisted[m] + Total(updates, m) + pendingVolume[m]
      BY <2>3, <3>1, <3>2, <3>3
    <3> QED BY <1>1, <1>2, <3>4 DEF Volumes, Accounted
  <2>7. ASSUME NEW i \in 1..Len(updates')
        PROVE  updates'[i].volume <= MaxTrades
    <3>1. CASE i = k
      <4>1. Accounted(m0) /\ BookTypes
        BY <1>2, <1>4 DEF Volumes
      <4>2. /\ persisted[m0] \in Nat /\ pendingVolume[m0] \in Nat /\ Total(updates, m0) \in Nat
            /\ traded[m0] \in Nat /\ trades \in 0..MaxTrades
        BY <1>2, <1>3, <1>4, TotalIsNatural DEF BookTypes
      <4>3. /\ persisted[m0] + Total(updates, m0) + pendingVolume[m0] <= traded[m0]
            /\ traded[m0] <= trades
        BY <4>1 DEF Accounted
      <4>4. pendingVolume[m0] <= MaxTrades
        BY <4>2, <4>3, StreamAssumption
      <4> QED BY <1>5, <2>2, <3>1, <4>4
    <3>2. CASE i # k
      BY <1>2, <2>2, <3>2 DEF Volumes
    <3> QED BY <3>1, <3>2
  <2> QED BY <2>4, <2>5, <2>6, <2>7 DEF TicksInv, Volumes
<1>9. CASE ~builds
  <2>1. Gone(k) /\ due' = due /\ pendingVolume' = pendingVolume
    BY <1>1, <1>9
  <2>2. /\ updates' = Without(updates, k) /\ updates' \in Seq(Update) /\ Len(updates') <= MaxBooks
        /\ \A i \in 1..Len(updates') : updates'[i].volume <= MaxTrades
        /\ \A i \in 1..Len(updates') :
              updates'[i].old \/ (updates'[i].pc = "tick" /\ updates'[i].mixed)
                  => updates'[i].market \in straddled'
    BY <1>1, <1>2, <2>1, GoneKeeps DEF Volumes
  <2>3. BookTypes'
    BY <1>1, <1>2, <1>7, <2>1, <2>2 DEF BookTypes
  <2>4. Lives'
    BY <1>1, <1>2, <1>7, <2>2 DEF Lives
  <2>5. ASSUME NEW m \in Markets
        PROVE  Accounted(m)'
    <3>1. /\ Total(updates, m) = Total(updates', m) + Volume(updates[k], m)
          /\ Total(updates', m) \in Nat /\ Volume(updates[k], m) \in Nat
      BY <1>3, <2>2, TotalWithout
    <3>2. Volume(updates[k], m) = 0
      BY <1>1 DEF Volume
    <3>3. Total(updates', m) = Total(updates, m)
      BY <3>1, <3>2
    <3> QED BY <1>1, <1>2, <2>1, <3>3 DEF Volumes, Accounted
  <2> QED BY <2>2, <2>3, <2>4, <2>5 DEF TicksInv, Volumes
<1> QED BY <1>8, <1>9

LEMMA TradeKeepsTicks ==
    ASSUME TicksInv, NEW m0 \in Markets, TradeArrives(m0)
    PROVE  TicksInv'
<1>1. PICK size \in TradeSizes :
          /\ pendingVolume' = [pendingVolume EXCEPT ![m0] = @ + size]
          /\ traded' = [traded EXCEPT ![m0] = @ + size]
  BY DEF TradeArrives
<1>2. /\ trades < MaxTrades /\ trades' = trades + 1
      /\ UNCHANGED <<tracked, books, due, updates, restarts, persisted, spoiled, revived, straddled>>
  BY DEF TradeArrives
<1>3. BookTypes /\ Lives /\ Volumes
  BY DEF TicksInv
<1>4. size \in {0, 1}
  BY DEF TradeSizes
<1>5. /\ pendingVolume \in [Markets -> Nat] /\ traded \in [Markets -> Nat] /\ trades \in 0..MaxTrades
      /\ updates \in Seq(Update)
  BY <1>3 DEF BookTypes
<1>6. /\ pendingVolume' \in [Markets -> Nat] /\ traded' \in [Markets -> Nat] /\ trades' \in 0..MaxTrades
      /\ \A m \in Markets : /\ pendingVolume'[m] = IF m = m0 THEN pendingVolume[m] + size ELSE pendingVolume[m]
                            /\ traded'[m] = IF m = m0 THEN traded[m] + size ELSE traded[m]
  <2>1. \A m \in Markets : pendingVolume[m] \in Nat /\ traded[m] \in Nat
    BY <1>5
  <2>2. pendingVolume' \in [Markets -> Nat] /\ traded' \in [Markets -> Nat]
    BY <1>1, <1>4, <1>5
  <2>3. trades' \in 0..MaxTrades
    BY <1>2, <1>5, StreamAssumption
  <2> QED BY <1>1, <1>5, <2>2, <2>3
<1>7. BookTypes'
  BY <1>2, <1>3, <1>6 DEF BookTypes
<1>8. Lives'
  BY <1>2, <1>3 DEF Lives
<1>9. ASSUME NEW m \in Markets
      PROVE  Accounted(m)'
  <2>1. /\ persisted[m] \in Nat /\ pendingVolume[m] \in Nat /\ traded[m] \in Nat /\ trades \in Nat
        /\ Total(updates, m) \in Nat
    BY <1>3, <1>5, TotalIsNatural, StreamAssumption DEF BookTypes
  <2>2. \E d \in {0, 1} : pendingVolume'[m] = pendingVolume[m] + d /\ traded'[m] = traded[m] + d
    <3>1. pendingVolume[m] = pendingVolume[m] + 0 /\ traded[m] = traded[m] + 0
      BY <2>1
    <3> QED BY <1>4, <1>6, <3>1
  <2>3. \A p, t, q, d, b, n \in Nat :
           /\ p + t + q <= b => p + t + (q + d) <= b + d
           /\ p + t + q = b => p + t + (q + d) = b + d
           /\ d <= 1 /\ b <= n => b + d <= n + 1
    OBVIOUS
  <2>4. Accounted(m)
    BY <1>3 DEF Volumes
  <2>5. PICK d \in {0, 1} : pendingVolume'[m] = pendingVolume[m] + d /\ traded'[m] = traded[m] + d
    BY <2>2
  <2>6. d \in Nat /\ d <= 1
    BY <2>5
  <2>7. /\ persisted' = persisted /\ updates' = updates /\ trades' = trades + 1 /\ spoiled' = spoiled
    BY <1>2
  <2>8. traded'[m] <= trades'
    BY <2>1, <2>3, <2>4, <2>5, <2>6, <2>7 DEF Accounted
  <2>9. /\ pendingVolume'[m] = pendingVolume[m] + d /\ traded'[m] = traded[m] + d
        /\ Total(updates', m) = Total(updates, m)
    BY <2>5, <2>7
  <2>10. persisted'[m] + Total(updates', m) + pendingVolume'[m] <= traded'[m]
    <3>1. persisted[m] + Total(updates, m) + pendingVolume[m] <= traded[m]
      BY <2>4 DEF Accounted
    <3>2. persisted[m] + Total(updates, m) + (pendingVolume[m] + d) <= traded[m] + d
      BY <2>1, <2>3, <2>6, <3>1
    <3> QED BY <2>7, <2>9, <3>2
  <2>11. m \notin spoiled' => persisted'[m] + Total(updates', m) + pendingVolume'[m] = traded'[m]
    <3> SUFFICES ASSUME m \notin spoiled'
                 PROVE  persisted'[m] + Total(updates', m) + pendingVolume'[m] = traded'[m]
      OBVIOUS
    <3>1. persisted[m] + Total(updates, m) + pendingVolume[m] = traded[m]
      BY <2>4, <2>7 DEF Accounted
    <3>2. persisted[m] + Total(updates, m) + (pendingVolume[m] + d) = traded[m] + d
      BY <2>1, <2>3, <2>6, <3>1
    <3> QED BY <2>7, <2>9, <3>2
  <2> QED BY <2>8, <2>10, <2>11 DEF Accounted
<1>10. \A i \in 1..Len(updates') : updates'[i].volume <= MaxTrades
  BY <1>2, <1>3 DEF Volumes
<1> QED BY <1>7, <1>8, <1>9, <1>10 DEF TicksInv, Volumes

LEMMA IntervalKeepsTicks ==
    ASSUME TicksInv, NEW m0 \in Markets, Interval(m0)
    PROVE  TicksInv'
<1>1. /\ due' = [due EXCEPT ![m0] = TRUE]
      /\ UNCHANGED <<tracked, books, pendingVolume, updates, trades, restarts, persisted, traded, spoiled,
                     revived, straddled>>
  BY DEF Interval, counts, history
<1>2. BookTypes' /\ Lives' /\ Volumes'
  <2>1. due' \in [Markets -> BOOLEAN]
    BY <1>1 DEF TicksInv, BookTypes
  <2>2. BookTypes'
    BY <1>1, <2>1 DEF TicksInv, BookTypes
  <2>3. Lives'
    BY <1>1 DEF TicksInv, Lives
  <2>4. Volumes'
    BY <1>1 DEF TicksInv, Volumes, Accounted
  <2> QED BY <2>2, <2>3, <2>4
<1> QED BY <1>2 DEF TicksInv

LEMMA TicksInvStep ==
    ASSUME TicksInv, RowsInv, SocketInv, [Next]_vars
    PROVE  TicksInv'
<1>1. \A m \in Markets : tracked[m] = "epoch" => m \in revived
  BY DEF TicksInv, Lives
<1>2. CASE Start
  <2>1. UNCHANGED <<feed, counts, persisted, traded, spoiled, revived, straddled>>
        /\ tracked' = [m \in Markets |-> IF live[m] = TRUE THEN "known" ELSE None]
    BY <1>2 DEF Start
  <2>2. \A m \in Markets : tracked'[m] # "epoch"
    BY <2>1, StreamAssumption
  <2> QED BY <2>1, <2>2, TicksElsewhere DEF counts
<1>3. CASE Boot \/ ReadNext \/ ReadLost \/ SocketStep \/ EventsStep \/ UNCHANGED vars
  <2>1. UNCHANGED <<tracked, feed, counts, persisted, traded, spoiled, revived, straddled>>
    BY <1>3 DEF Boot, ReadNext, ReadLost, SocketStep, EventsStep, vars, streamVars, history
  <2> QED BY <1>1, <2>1, TicksElsewhere DEF counts
<1>4. CASE Handle
  BY <1>4, HandleKeepsTicks DEF RowsInv
<1>5. CASE Restart
  BY <1>5, RestartKeepsTicks
<1>6. CASE \E i \in DOMAIN updates : UpdateStep(i)
  <2>1. DOMAIN updates = 1..Len(updates)
    BY DEF TicksInv, BookTypes
  <2>2. PICK i \in 1..Len(updates) : UpdateStep(i)
    BY <1>6, <2>1
  <2> QED BY <2>2, PublishKeepsTicks, InsertKeepsTicks, FailKeepsTicks DEF UpdateStep
<1>7. CASE \E m \in Markets :
              \/ \E side \in Sides : BookArrives(m, side)
              \/ TradeArrives(m) \/ Interval(m)
  BY <1>7, BookKeepsTicks, TradeKeepsTicks, IntervalKeepsTicks
<1> QED
  BY <1>2, <1>3, <1>4, <1>5, <1>6, <1>7 DEF Next, StreamStep

LEMMA TicksInvHolds == Spec => []TicksInv
<1>1. TicksInv /\ RowsInv /\ SocketInv /\ [Next]_vars => TicksInv'
  BY TicksInvStep
<1> QED BY TicksStart, <1>1, RowsInvHolds, SocketInvHolds, PTL DEF Spec

LEMMA TicksInvSays ==
    ASSUME RowsInv, SocketInv, TicksInv
    PROVE  StreamInv
<1>1. BookTypes /\ Lives /\ Volumes
  BY DEF TicksInv
<1>2. updates \in Seq(Update) /\ DOMAIN updates = 1..Len(updates) /\ Len(updates) \in Nat
      /\ Len(updates) <= MaxBooks
  BY <1>1 DEF BookTypes
<1>3. ASSUME NEW m \in Markets
      PROVE  /\ persisted[m] \in 0..MaxTrades /\ pendingVolume[m] \in 0..MaxTrades
             /\ traded[m] \in 0..MaxTrades
  <2>1. /\ persisted[m] \in Nat /\ pendingVolume[m] \in Nat /\ traded[m] \in Nat
        /\ Total(updates, m) \in Nat /\ trades \in 0..MaxTrades
    BY <1>1, TotalIsNatural DEF BookTypes
  <2>2. traded[m] <= trades /\ persisted[m] + Total(updates, m) + pendingVolume[m] <= traded[m]
    BY <1>1 DEF Volumes, Accounted
  <2>3. \A p, t, q, b, n, k \in Nat :
           p + t + q <= b /\ b <= n /\ n <= k => p <= k /\ q <= k /\ b <= k
    OBVIOUS
  <2>4. trades \in Nat /\ trades <= MaxTrades /\ MaxTrades \in Nat
    BY <2>1, StreamAssumption
  <2>5. persisted[m] <= MaxTrades /\ pendingVolume[m] <= MaxTrades /\ traded[m] <= MaxTrades
    BY <2>1, <2>2, <2>3, <2>4
  <2> QED BY <2>1, <2>4, <2>5
<1>4. updates \in Seq(BookOf)
  <2>1. ASSUME NEW i \in 1..Len(updates)
        PROVE  updates[i] \in BookOf
    <3>1. updates[i] \in Update /\ updates[i].volume <= MaxTrades
      BY <1>1, <1>2 DEF Volumes
    <3>2. updates[i].volume \in 0..MaxTrades
      <4>1. updates[i].volume \in Nat
        BY <3>1 DEF Update
      <4> QED BY <3>1, <4>1, StreamAssumption
    <3> QED BY <3>1, <3>2 DEF Update, BookOf
  <2>2. updates \in [1..Len(updates) -> BookOf]
    BY <1>2, <2>1
  <2> QED BY <1>2, <2>2
<1>5. StreamTypeOK
  <2>1. persisted \in [Markets -> 0..MaxTrades]
    BY <1>1, <1>3 DEF BookTypes
  <2>2. pendingVolume \in [Markets -> 0..MaxTrades]
    BY <1>1, <1>3 DEF BookTypes
  <2>3. traded \in [Markets -> 0..MaxTrades]
    BY <1>1, <1>3 DEF BookTypes
  <2>4. EventsTypeOK /\ ReaderOK
    BY DEF RowsInv
  <2>5. WsTypeOK /\ connected \in BOOLEAN
    BY DEF SocketInv
  <2> QED BY <1>1, <1>2, <1>4, <2>1, <2>2, <2>3, <2>4, <2>5 DEF StreamTypeOK, ReaderOK, BookTypes
<1>6. EndTimeUnlessRevived
  BY <1>1 DEF Lives, EndTimeUnlessRevived
<1>7. TicksAreOfLiveBooks
  BY <1>1, <1>2 DEF Lives, TicksAreOfLiveBooks
<1>8. VolumeCountsOnce
  <2>1. ASSUME NEW m \in Markets
        PROVE  LET counted == persisted[m] + InTicks(m) + pendingVolume[m]
               IN  counted <= traded[m] /\ (m \notin spoiled => counted = traded[m])
    <3>1. InTicks(m) = Total(updates, m)
      BY InTicksIs
    <3>2. Accounted(m)
      BY <1>1 DEF Volumes
    <3> QED BY <3>1, <3>2 DEF Accounted
  <2> QED BY <2>1 DEF VolumeCountsOnce
<1> QED BY <1>5, <1>6, <1>7, <1>8 DEF StreamInv

(* For any number of markets, books, trades and restarts, whatever of them  *)
(* and of the lifecycle events comes between two awaits of an update: only a*)
(* reactivated market has an unknown end time, only one that was dropped    *)
(* under an update, or while the socket connected, a tick with an old book, *)
(* and volume is counted once, or lost by a fault.                          *)
THEOREM StreamInvHolds == Spec => []StreamInv
<1>1. RowsInv /\ SocketInv /\ TicksInv => StreamInv
  BY TicksInvSays
<1> QED BY <1>1, RowsInvHolds, SocketInvHolds, TicksInvHolds, PTL
=============================================================================
