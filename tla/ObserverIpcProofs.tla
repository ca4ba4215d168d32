-------------------------- MODULE ObserverIpcProofs --------------------------
(***************************************************************************)
(* Proofs about ObserverIpc, for any types and bodies of items, any limits *)
(* and any number of reports.                                              *)
(***************************************************************************)
EXTENDS ObserverIpc, ListProofs, SequenceTheorems

(* What the reader of a parcel returns. *)

\* One turn of the reader's loop, when g holds the results of the turns before.
ReadTurn(k, parcel, g, n) ==
    IF n = 0 THEN [pos |-> 1, list |-> <<>>]
    ELSE LET s == g[n - 1]
             type == Word(parcel, s.pos)
         IN IF type \in Known(k)
            THEN [pos |-> s.pos + 2, list |-> Append(s.list, Item(type, Word(parcel, s.pos + 1)))]
            ELSE [s EXCEPT !.pos = @ + 1]

\* The recursion of the reader has a solution: the loop computes what each turn
\* says.
LEMMA ParseUpToDef ==
    ASSUME NEW k, NEW parcel, NEW size \in Nat
    PROVE  ParseUpTo(k, parcel, size) =
               [n \in 0 .. size |-> ReadTurn(k, parcel, ParseUpTo(k, parcel, size), n)]
<1> DEFINE Good(n) == \E g : g = [i \in 0 .. n |-> ReadTurn(k, parcel, g, i)]
           T == {n \in Nat : Good(n)}
<1>1. 0 \in T
  <2> DEFINE g == [i \in 0 .. 0 |-> [pos |-> 1, list |-> <<>>]]
  <2>1. g = [i \in 0 .. 0 |-> ReadTurn(k, parcel, g, i)]
    BY DEF ReadTurn
  <2>2. Good(0)
    BY <2>1
  <2> QED BY <2>2
<1>2. ASSUME NEW n \in Nat, n \in T PROVE n + 1 \in T
  <2>1. PICK g : g = [i \in 0 .. n |-> ReadTurn(k, parcel, g, i)]
    BY <1>2
  <2> DEFINE h == [i \in 0 .. n + 1 |-> IF i \in 0 .. n THEN g[i] ELSE ReadTurn(k, parcel, g, i)]
  <2>2. ASSUME NEW i \in 0 .. n + 1 PROVE h[i] = ReadTurn(k, parcel, h, i)
    <3>1. i # 0 => i - 1 \in 0 .. n /\ i - 1 \in 0 .. n + 1
      OBVIOUS
    <3>2. i # 0 => h[i - 1] = g[i - 1]
      BY <3>1
    <3>3. h[i] = ReadTurn(k, parcel, g, i)
      BY <2>1
    <3> HIDE DEF h
    <3>4. ReadTurn(k, parcel, g, i) = ReadTurn(k, parcel, h, i)
      BY <3>2 DEF ReadTurn
    <3> QED BY <3>3, <3>4
  <2>3. h = [i \in 0 .. n + 1 |-> ReadTurn(k, parcel, h, i)]
    BY <2>2
  <2>4. Good(n + 1)
    <3> HIDE DEF h
    <3> QED BY <2>3
  <2> QED BY <2>4
<1>3. Nat \subseteq T
  <2> HIDE DEF T
  <2> QED BY <1>1, <1>2, NatInductionOnSet
<1>4. Good(size)
  BY <1>3
<1>5. ParseUpTo(k, parcel, size) = CHOOSE g : g = [i \in 0 .. size |-> ReadTurn(k, parcel, g, i)]
  BY DEF ParseUpTo, ReadTurn
<1> QED BY <1>4, <1>5

\* Before its first turn the reader is at the first word with no item; each turn
\* reads one type, and the item if the type is known.
LEMMA ParseTurns ==
    ASSUME NEW k, NEW parcel, NEW size \in Nat
    PROVE  /\ ParseUpTo(k, parcel, size)[0] = [pos |-> 1, list |-> <<>>]
           /\ \A n \in 1 .. size :
                 ParseUpTo(k, parcel, size)[n] = ReadTurn(k, parcel, ParseUpTo(k, parcel, size), n)
<1> DEFINE g == ParseUpTo(k, parcel, size)
<1>1. g = [n \in 0 .. size |-> ReadTurn(k, parcel, g, n)]
  BY ParseUpToDef
<1> HIDE DEF g
<1>2. g[0] = ReadTurn(k, parcel, g, 0)
  BY <1>1
<1>3. ASSUME NEW n \in 1 .. size PROVE g[n] = ReadTurn(k, parcel, g, n)
  BY <1>1
<1>4. g[0] = [pos |-> 1, list |-> <<>>]
  BY <1>2 DEF ReadTurn
<1> QED BY <1>3, <1>4 DEF g

\* What a list read from a parcel may hold.
KnownItem(k) == [type : Known(k), body : Nat]

\* Whatever the words are, the reader returns at most as many items as it was
\* told to read, all of types it knows.
LEMMA ParsedItems ==
    ASSUME NEW k, NEW parcel \in Seq(Nat), NEW size \in Nat
    PROVE  Parse(k, parcel, size) \in Seq(KnownItem(k)) /\ Len(Parse(k, parcel, size)) <= size
<1> DEFINE g == ParseUpTo(k, parcel, size)
           Good(n) == /\ g[n] \in [pos : Nat, list : Seq(KnownItem(k))]
                      /\ Len(g[n].list) <= n
           T == {n \in Nat : n <= size => Good(n)}
<1>a. /\ g[0] = [pos |-> 1, list |-> <<>>]
      /\ \A n \in 1 .. size : g[n] = ReadTurn(k, parcel, g, n)
  BY ParseTurns
<1>b. \A i \in Nat : Word(parcel, i) \in Nat \/ i = 0
  BY DEF Word
<1> HIDE DEF g
<1>1. 0 \in T
  <2>1. <<>> \in Seq(KnownItem(k)) /\ Len(<<>>) = 0
    OBVIOUS
  <2>2. g[0].list = <<>> /\ g[0] \in [pos : Nat, list : Seq(KnownItem(k))]
    BY <1>a, <2>1
  <2>3. Good(0)
    BY <2>1, <2>2
  <2> HIDE DEF Good
  <2> QED BY <2>3
<1>2. ASSUME NEW n \in Nat, n \in T PROVE n + 1 \in T
  <2> SUFFICES ASSUME n + 1 <= size PROVE Good(n + 1)
    OBVIOUS
  <2>0. n + 1 \in 1 .. size /\ (n + 1) - 1 = n /\ n <= size /\ n + 1 # 0
    OBVIOUS
  <2>1. PICK s : s = g[n]
    OBVIOUS
  <2>2. s \in [pos : Nat, list : Seq(KnownItem(k))] /\ Len(s.list) <= n
    BY <1>2, <2>0, <2>1
  <2>3. PICK type : type = Word(parcel, s.pos)
    OBVIOUS
  <2>4. PICK body : body = Word(parcel, s.pos + 1)
    OBVIOUS
  <2>5. g[n + 1] = IF type \in Known(k) THEN [pos |-> s.pos + 2, list |-> Append(s.list, Item(type, body))]
                   ELSE [s EXCEPT !.pos = @ + 1]
    BY <1>a, <2>0, <2>1, <2>3, <2>4 DEF ReadTurn
  <2>6. s.pos \in Nat /\ s.list \in Seq(KnownItem(k)) /\ Len(s.list) \in Nat
    BY <2>2
  <2>7. CASE type \in Known(k)
    <3>1. body \in Nat
      BY <1>b, <2>4, <2>6
    <3>2. Item(type, body) \in KnownItem(k)
      BY <2>7, <3>1 DEF Item, KnownItem
    <3>3. PICK list : list = Append(s.list, Item(type, body))
      OBVIOUS
    <3>4. list \in Seq(KnownItem(k)) /\ Len(list) = Len(s.list) + 1
      BY <2>6, <3>2, <3>3, AppendProperties
    <3>5. g[n + 1] = [pos |-> s.pos + 2, list |-> list]
      BY <2>5, <2>7, <3>3
    <3> QED BY <2>2, <2>6, <3>4, <3>5
  <2>8. CASE type \notin Known(k)
    <3>1. g[n + 1] = [s EXCEPT !.pos = s.pos + 1]
      BY <2>5, <2>8
    <3> QED BY <2>2, <2>6, <3>1
  <2> QED BY <2>7, <2>8
<1>3. Nat \subseteq T
  <2> HIDE DEF T
  <2> QED BY <1>1, <1>2, NatInductionOnSet
<1>4. Good(size)
  <2>1. size \in T /\ size <= size
    <3> HIDE DEF T
    <3> QED BY <1>3
  <2> HIDE DEF Good
  <2> QED BY <2>1
<1> QED BY <1>4 DEF Parse, g

\* The words of a list: of item n, the type at 2n - 1 and the body at 2n.
LEMMA Words ==
    ASSUME NEW E, \A x \in E : x.type \in Nat /\ x.body \in Nat, NEW v \in Seq(E)
    PROVE  /\ Marshalled(v) \in Seq(Nat) /\ Len(Marshalled(v)) = 2 * Len(v)
           /\ \A n \in 1 .. Len(v) : /\ Word(Marshalled(v), 2 * n - 1) = v[n].type
                                     /\ Word(Marshalled(v), 2 * n) = v[n].body
<1>0. Len(v) \in Nat /\ \A n \in 1 .. Len(v) : v[n] \in E
  OBVIOUS
<1> DEFINE N == Len(v)
           p == Marshalled(v)
<1>1. ASSUME NEW w \in 1 .. 2 * N PROVE (w + 1) \div 2 \in 1 .. N
  BY <1>0
<1>2. p = [w \in 1 .. 2 * N |-> IF w % 2 = 1 THEN v[(w + 1) \div 2].type ELSE v[(w + 1) \div 2].body]
  BY DEF Marshalled
<1>3. p \in [1 .. 2 * N -> Nat]
  BY <1>0, <1>1, <1>2
<1>4. 2 * N \in Nat
  BY <1>0
<1> HIDE DEF p, N
<1>5. p \in Seq(Nat) /\ Len(p) = 2 * N
  BY <1>3, <1>4
<1>6. ASSUME NEW n \in 1 .. N PROVE Word(p, 2 * n - 1) = v[n].type /\ Word(p, 2 * n) = v[n].body
  <2>1. /\ 2 * n - 1 \in 1 .. 2 * N /\ (2 * n - 1) % 2 = 1 /\ ((2 * n - 1) + 1) \div 2 = n
        /\ 2 * n \in 1 .. 2 * N /\ (2 * n) % 2 = 0 /\ (2 * n + 1) \div 2 = n
    BY <1>0 DEF N
  <2>2. p[2 * n - 1] = v[n].type
    BY <1>2, <2>1
  <2>3. p[2 * n] = v[n].body
    <3>1. ~((2 * n) % 2 = 1)
      BY <2>1
    <3> QED BY <1>2, <2>1, <3>1
  <2>4. 2 * n - 1 <= Len(p) /\ 2 * n <= Len(p)
    BY <1>5, <1>0, <2>1 DEF N
  <2> QED BY <2>2, <2>3, <2>4 DEF Word
<1> QED BY <1>5, <1>6 DEF p, N

\* A list of known types is read back as it was written.
LEMMA RoundTrip ==
    ASSUME NEW k, Known(k) \subseteq Nat, NEW v \in Seq(KnownItem(k))
    PROVE  Parse(k, Marshalled(v), Len(v)) = v
<1> DEFINE N == Len(v)
           g == ParseUpTo(k, Marshalled(v), N)
           Good(n) == /\ g[n] \in [pos : Nat, list : Seq(KnownItem(k))]
                      /\ g[n].pos = 2 * n + 1
                      /\ Len(g[n].list) = n
                      /\ \A i \in 1 .. n : g[n].list[i] = v[i]
           T == {n \in Nat : n <= N => Good(n)}
<1>0. N \in Nat /\ \A n \in 1 .. N : v[n] \in KnownItem(k)
  OBVIOUS
<1>a. /\ g[0] = [pos |-> 1, list |-> <<>>]
      /\ \A n \in 1 .. N : g[n] = ReadTurn(k, Marshalled(v), g, n)
  BY <1>0, ParseTurns
<1>b. \A n \in 1 .. N : /\ Word(Marshalled(v), 2 * n - 1) = v[n].type
                        /\ Word(Marshalled(v), 2 * n) = v[n].body
  <2>1. \A x \in KnownItem(k) : x.type \in Nat /\ x.body \in Nat
    BY DEF KnownItem
  <2> QED BY <2>1, Words
<1> HIDE DEF g, N
<1>1. 0 \in T
  <2>1. <<>> \in Seq(KnownItem(k)) /\ Len(<<>>) = 0
    OBVIOUS
  <2>2. g[0].list = <<>> /\ g[0].pos = 2 * 0 + 1 /\ g[0] \in [pos : Nat, list : Seq(KnownItem(k))]
    BY <1>a, <2>1
  <2>3. Good(0)
    BY <2>1, <2>2
  <2> HIDE DEF Good
  <2> QED BY <2>3
<1>2. ASSUME NEW n \in Nat, n \in T PROVE n + 1 \in T
  <2> SUFFICES ASSUME n + 1 <= N PROVE Good(n + 1)
    OBVIOUS
  <2>0. n + 1 \in 1 .. N /\ (n + 1) - 1 = n /\ n <= N /\ n + 1 # 0 /\ 2 * (n + 1) - 1 = 2 * n + 1
        /\ 2 * (n + 1) = (2 * n + 1) + 1
    BY <1>0
  <2>1. PICK s : s = g[n]
    OBVIOUS
  <2>2. /\ s \in [pos : Nat, list : Seq(KnownItem(k))] /\ s.pos = 2 * n + 1
        /\ Len(s.list) = n /\ \A i \in 1 .. n : s.list[i] = v[i]
    BY <1>2, <2>0, <2>1
  <2>3. PICK x \in KnownItem(k) : x = v[n + 1]
    BY <1>0, <2>0
  <2>4. Word(Marshalled(v), s.pos) = x.type /\ Word(Marshalled(v), s.pos + 1) = x.body
    BY <1>b, <2>0, <2>2, <2>3
  <2>5. x.type \in Known(k) /\ Item(x.type, x.body) = x
    BY DEF KnownItem, Item
  <2>6. g[n + 1] = [pos |-> s.pos + 2, list |-> Append(s.list, x)]
    <3>1. g[n + 1] = ReadTurn(k, Marshalled(v), g, n + 1)
      BY <1>a, <2>0
    <3> QED BY <3>1, <2>0, <2>1, <2>4, <2>5 DEF ReadTurn
  <2>7. PICK list : list = Append(s.list, x)
    OBVIOUS
  <2>8. s.list \in Seq(KnownItem(k))
    BY <2>2
  <2>9. /\ list \in Seq(KnownItem(k)) /\ Len(list) = n + 1
        /\ \A i \in 1 .. n : list[i] = s.list[i]
        /\ list[n + 1] = x
    BY <2>2, <2>7, <2>8, AppendProperties
  <2>10. \A i \in 1 .. n + 1 : list[i] = v[i]
    <3>1. \A i \in 1 .. n + 1 : i \in 1 .. n \/ i = n + 1
      OBVIOUS
    <3> QED BY <3>1, <2>2, <2>3, <2>9
  <2>11. g[n + 1] = [pos |-> s.pos + 2, list |-> list] /\ s.pos \in Nat
    BY <2>2, <2>6, <2>7
  <2>12. g[n + 1].list = list /\ g[n + 1].pos = 2 * (n + 1) + 1
    BY <2>2, <2>11
  <2>13. g[n + 1] \in [pos : Nat, list : Seq(KnownItem(k))]
    BY <2>9, <2>11
  <2> QED BY <2>9, <2>10, <2>12, <2>13
<1>3. Nat \subseteq T
  <2> HIDE DEF T
  <2> QED BY <1>1, <1>2, NatInductionOnSet
<1>4. Good(N)
  <2>1. N \in T /\ N <= N
    <3> HIDE DEF T
    <3> QED BY <1>0, <1>3
  <2> HIDE DEF Good
  <2> QED BY <2>1
<1>5. PICK list : list = g[N].list
  OBVIOUS
<1>6. list \in Seq(KnownItem(k)) /\ Len(list) = N /\ \A i \in 1 .. N : list[i] = v[i]
  BY <1>4, <1>5
<1>7. list = v
  BY <1>6, SeqEqual DEF N
<1> QED BY <1>5, <1>7 DEF Parse, g, N

-----------------------------------------------------------------------------
(* The inductive invariant. *)

MaxNum(k) == IF k = "signal" THEN MAX_SIGNAL_NUM ELSE MAX_CELL_NUM

\* What the service can hold: lists only of known types and within the limit.
Values(k) ==
    IF k \in ListKinds THEN {v \in Seq(KnownItem(k)) : Len(v) <= MaxNum(k)} ELSE Int

Messages == UNION {{Message(k, v) : v \in Values(k)} : k \in Kinds}

\* The types of the variables.
TypeInv ==
    /\ state = [k \in Kinds |-> state[k]] /\ heard = [k \in Kinds |-> heard[k]]
    /\ reported = [k \in Kinds |-> reported[k]]
    /\ \A k \in Kinds : state[k] \in Values(k)
    /\ \A k \in ListKinds : reported[k] \in Seq(Items(k))
    /\ mail \in Seq(Messages)

\* The last message of a kind that is on its way says what the service holds;
\* and if none is, the observer was told it.
Agrees ==
    \A k \in Kinds :
        /\ \A i \in 1 .. Len(mail) :
              (mail[i].kind = k /\ \A j \in 1 .. Len(mail) : j > i => mail[j].kind # k)
                  => Unsayable(k, state[k]) \/ ObserverReads(mail[i]) = state[k]
        /\ (\A i \in 1 .. Len(mail) : mail[i].kind # k)
              => Unsayable(k, state[k]) \/ heard[k] = state[k]

\* Both readers know the items, and there are not too many.
Clean(k, v) == (\A i \in 1 .. Len(v) : v[i].type \in Known(k)) /\ Len(v) <= MaxNum(k)

\* The stub reads a clean list as it is; and an empty one, which the cell handler
\* refuses, stands for "nothing reported yet".
ReadWhole ==
    /\ \A k \in ListKinds : Clean(k, reported[k]) => state[k] = reported[k]
    /\ reported["cell"] = <<>> =>
          heard["cell"] = <<>> /\ \A i \in 1 .. Len(mail) : mail[i].kind # "cell"

IndInv == TypeInv /\ Agrees /\ ReadWhole

-----------------------------------------------------------------------------
(* The checks of the two sides fit together. *)

\* Types and bodies of items are words.
LEMMA ItemWords ==
    ASSUME NEW k \in ListKinds
    PROVE  /\ Known(k) \subseteq Nat /\ MaxNum(k) \in Nat /\ k \in Kinds
           /\ \A x \in Items(k) : x.type \in Nat /\ x.body \in Nat /\ x \in [type : Known(k) \cup OtherTypes, body : Nat]
<1>1. Known(k) \subseteq Nat /\ MaxNum(k) \in Nat /\ OtherTypes \subseteq Nat /\ Bodies \subseteq Nat
  BY IpcAssumption DEF Known, MaxNum
<1> QED BY <1>1 DEF Items, ListKinds, Kinds

\* What a producer reports.
LEMMA ReportTypes ==
    ASSUME NEW k \in Kinds, NEW v \in Reports(k)
    PROVE  IF k \in ListKinds THEN v \in Seq(Items(k)) ELSE v \in Int
<1>1. CASE k \in ListKinds
  <2>1. PICK n \in Nat : v \in SeqOf(Items(k), n)
    <3>1. CASE k = "signal"
      <4>1. MAX_SIGNAL_NUM + 1 \in Nat
        BY IpcAssumption
      <4> QED BY <3>1, <4>1 DEF Reports
    <3>2. CASE k = "cell"
      <4>1. MAX_CELL_NUM + 1 \in Nat
        BY IpcAssumption
      <4> QED BY <3>2, <4>1 DEF Reports
    <3> QED BY <1>1, <3>1, <3>2 DEF ListKinds
  <2>2. PICK m \in 0 .. n : v \in [1 .. m -> Items(k)]
    BY <2>1 DEF SeqOf
  <2>3. v \in Seq(Items(k))
    BY <2>2
  <2> QED BY <1>1, <2>3
<1>2. CASE k \notin ListKinds
  <2>1. v \in Int
    BY <1>2, IpcAssumption DEF Reports, ListKinds, Kinds, Null
  <2> QED BY <1>2, <2>1
<1> QED BY <1>1, <1>2

\* What the stub lets in is a value of the service: an unknown type may shift the
\* words, but never makes an unknown item or a longer list; and a clean list is
\* read as it is.
LEMMA StubReadsTypes ==
    ASSUME NEW k \in Kinds, NEW v \in Reports(k), StubAccepts(k, v)
    PROVE  /\ StubReads(k, v) \in Values(k)
           /\ k \in ListKinds /\ Clean(k, v) => StubReads(k, v) = v
           /\ k = "cell" => v # <<>>
<1>1. CASE k \in ListKinds
  <2>1. v \in Seq(Items(k)) /\ Len(v) \in Nat
    BY <1>1, ReportTypes
  <2>2. Marshalled(v) \in Seq(Nat)
    BY <1>1, <2>1, ItemWords, Words
  <2>3. StubSize(k, Len(v)) \in Nat /\ StubSize(k, Len(v)) <= MaxNum(k) /\ MaxNum(k) \in Nat
        /\ (Len(v) <= MaxNum(k) => StubSize(k, Len(v)) = Len(v))
    BY <1>1, <2>1, IpcAssumption DEF StubSize, MaxNum, ListKinds
  <2>4. PICK size \in Nat : size = StubSize(k, Len(v)) /\ size <= MaxNum(k)
    BY <2>3
  <2>5. StubReads(k, v) = Parse(k, Marshalled(v), size)
    BY <1>1, <2>4 DEF StubReads
  <2>6. PICK list : list = Parse(k, Marshalled(v), size)
    OBVIOUS
  <2>7. list \in Seq(KnownItem(k)) /\ Len(list) <= size
    BY <2>2, <2>6, ParsedItems
  <2>8. Len(list) \in Nat /\ Len(list) <= MaxNum(k)
    BY <2>3, <2>4, <2>7
  <2>9. StubReads(k, v) \in Values(k)
    BY <1>1, <2>5, <2>6, <2>7, <2>8 DEF Values
  <2>10. ASSUME Clean(k, v) PROVE StubReads(k, v) = v
    <3>1. size = Len(v)
      BY <2>3, <2>4, <2>10 DEF Clean
    <3>2. \A i \in 1 .. Len(v) : v[i] \in KnownItem(k)
      <4>1. \A i \in 1 .. Len(v) : v[i] \in Items(k) /\ v[i].type \in Known(k)
        BY <2>1, <2>10 DEF Clean
      <4> QED BY <1>1, <4>1, ItemWords DEF KnownItem
    <3>3. v \in Seq(KnownItem(k))
      BY <2>1, <3>2
    <3> QED BY <1>1, <2>5, <3>1, <3>3, ItemWords, RoundTrip
  <2>11. k = "cell" => v # <<>>
    <3>1. k = "cell" => StubSize(k, Len(v)) > 0
      BY DEF StubAccepts, OnUpdateCellInfoOk
    <3> QED BY <3>1, IpcAssumption DEF StubSize
  <2> QED BY <2>9, <2>10, <2>11
<1>2. CASE k \notin ListKinds
  BY <1>2, ReportTypes DEF StubReads, Values, ListKinds
<1> QED BY <1>1, <1>2

\* The observer reads a message as the value it was made of: its own limit on the
\* length cuts nothing off.
LEMMA MessageRead ==
    ASSUME NEW k \in Kinds, NEW v \in Values(k)
    PROVE  /\ Message(k, v).kind = k /\ Message(k, v) \in Messages
           /\ ObserverReads(Message(k, v)) = v
<1>1. Message(k, v).kind = k /\ Message(k, v) \in Messages
  <2>1. Message(k, v).kind = k
    BY DEF Message
  <2>2. Message(k, v) \in {Message(k, w) : w \in Values(k)}
    OBVIOUS
  <2> HIDE DEF Message
  <2> QED BY <2>1, <2>2 DEF Messages
<1>2. CASE k \in ListKinds
  <2>1. v \in Seq(KnownItem(k)) /\ Len(v) <= MaxNum(k) /\ Len(v) \in Nat
    BY <1>2 DEF Values
  <2>2. Clamp(k, Len(v)) = Len(v)
    BY <2>1, IpcAssumption DEF Clamp, MaxNum
  <2>3. Message(k, v) = [kind |-> k, size |-> Len(v), parcel |-> Marshalled(v)]
    BY <1>2 DEF Message
  <2>4. ObserverReads(Message(k, v)) = Parse(k, Marshalled(v), Len(v))
    BY <1>2, <2>2, <2>3 DEF ObserverReads
  <2> QED BY <1>1, <1>2, <2>1, <2>4, ItemWords, RoundTrip
<1>3. CASE k \notin ListKinds
  <2>1. Message(k, v) = [kind |-> k, size |-> 0, parcel |-> <<v>>]
    BY <1>3 DEF Message
  <2> QED BY <1>1, <1>3, <2>1 DEF ObserverReads
<1> QED BY <1>2, <1>3

\* The proxy sends every value there is a message for.
LEMMA ProxySendsAll ==
    ASSUME NEW k \in Kinds, NEW v \in Values(k), ~ProxySends(k, v)
    PROVE  Unsayable(k, v) /\ k = "cell" /\ v = <<>>
<1>1. k \in ListKinds
  BY DEF ProxySends, ListKinds
<1>2. v \in Seq(KnownItem(k)) /\ Len(v) <= MaxNum(k) /\ Len(v) \in Nat
  BY <1>1 DEF Values
<1>3. k = "cell"
  BY <1>1, <1>2 DEF ProxySends, MaxNum, ListKinds
<1>4. Len(v) = 0
  BY <1>2, <1>3 DEF ProxySends, MaxNum
<1>5. v = <<>>
  BY <1>2, <1>4
<1> QED BY <1>3, <1>5 DEF Unsayable

-----------------------------------------------------------------------------
(* The steps. *)

\* Before the first report everybody has nothing.
LEMMA InitHolds ==
    ASSUME Init
    PROVE  IndInv
<1>1. \A k \in Kinds : state[k] = Nothing[k] /\ heard[k] = Nothing[k] /\ reported[k] = Nothing[k]
  BY DEF Init
<1>2. \A k \in Kinds : Nothing[k] = IF k \in ListKinds THEN <<>> ELSE 0
  BY DEF Nothing
<1>3. \A k \in Kinds : state[k] \in Values(k)
  <2> SUFFICES ASSUME NEW k \in Kinds PROVE state[k] \in Values(k)
    OBVIOUS
  <2>1. CASE k \in ListKinds
    <3>1. state[k] = <<>> /\ MaxNum(k) \in Nat
      BY <2>1, <1>1, <1>2, ItemWords
    <3>2. state[k] \in Seq(KnownItem(k)) /\ Len(state[k]) <= MaxNum(k)
      BY <3>1
    <3> QED BY <2>1, <3>2 DEF Values
  <2>2. CASE k \notin ListKinds
    BY <2>2, <1>1, <1>2 DEF Values
  <2> QED BY <2>1, <2>2
<1>4. mail = <<>> /\ Len(mail) = 0
  BY DEF Init
<1>5. TypeInv
  <2>1. ASSUME NEW k \in ListKinds PROVE reported[k] \in Seq(Items(k))
    <3>1. reported[k] = <<>>
      BY <1>1, <1>2, ItemWords
    <3> QED BY <3>1
  <2>2. mail \in Seq(Messages)
    BY <1>4
  <2>3. /\ state = [k \in Kinds |-> state[k]] /\ heard = [k \in Kinds |-> heard[k]]
        /\ reported = [k \in Kinds |-> reported[k]]
    BY DEF Init, Nothing
  <2> QED BY <1>3, <2>1, <2>2, <2>3 DEF TypeInv
<1>6. Agrees
  BY <1>1, <1>4 DEF Agrees
<1>7. ReadWhole
  BY <1>1, <1>2, <1>4 DEF ReadWhole, ListKinds, Kinds
<1> QED BY <1>5, <1>6, <1>7 DEF IndInv

\* The service sends what it holds, or there is no message for it.
LEMMA SendKeeps ==
    ASSUME TypeInv, Agrees, NEW k \in Kinds, NEW v \in Values(k), state'[k] = v,
           \A j \in Kinds : j # k => state'[j] = state[j],
           UNCHANGED heard, mail' = Sent(k, v)
    PROVE  /\ mail' \in Seq(Messages) /\ Agrees'
           /\ \A i \in 1 .. Len(mail') : mail'[i].kind = k \/ (i \in 1 .. Len(mail) /\ mail'[i] = mail[i])
<1>0. mail \in Seq(Messages) /\ Len(mail) \in Nat
  BY DEF TypeInv
<1>1. CASE ProxySends(k, v)
  <2>1. PICK m \in Messages : m = Message(k, v) /\ m.kind = k /\ ObserverReads(m) = v
    BY MessageRead
  <2>2. mail' = Append(mail, m)
    BY <1>1, <2>1 DEF Sent
  <2>3. /\ mail' \in Seq(Messages) /\ Len(mail') = Len(mail) + 1
        /\ \A i \in 1 .. Len(mail) : mail'[i] = mail[i]
        /\ mail'[Len(mail) + 1] = m
    BY <1>0, <2>2, AppendProperties
  <2>4. \A i \in 1 .. Len(mail') : i \in 1 .. Len(mail) \/ i = Len(mail) + 1
    BY <1>0, <2>3
  <2>5. Len(mail) + 1 \in 1 .. Len(mail') /\ \A i \in 1 .. Len(mail) : i \in 1 .. Len(mail') /\ Len(mail) + 1 > i
    BY <1>0, <2>3
  <2>6. ASSUME NEW j \in Kinds, NEW i \in 1 .. Len(mail'),
               mail'[i].kind = j, \A n \in 1 .. Len(mail') : n > i => mail'[n].kind # j
        PROVE  Unsayable(j, state'[j]) \/ ObserverReads(mail'[i]) = state'[j]
    <3>1. CASE i = Len(mail) + 1
      BY <3>1, <2>1, <2>3, <2>6
    <3>2. CASE i \in 1 .. Len(mail)
      <4>1. j # k
        BY <2>1, <2>3, <2>5, <2>6, <3>2
      <4>2. mail[i].kind = j /\ \A n \in 1 .. Len(mail) : n > i => mail[n].kind # j
        BY <2>3, <2>5, <2>6, <3>2
      <4>3. Unsayable(j, state[j]) \/ ObserverReads(mail[i]) = state[j]
        BY <3>2, <4>2 DEF Agrees
      <4> HIDE DEF ObserverReads, Unsayable
      <4> QED BY <2>3, <3>2, <4>1, <4>3
    <3> QED BY <2>4, <3>1, <3>2
  <2>7. ASSUME NEW j \in Kinds, \A n \in 1 .. Len(mail') : mail'[n].kind # j
        PROVE  Unsayable(j, state'[j]) \/ heard'[j] = state'[j]
    <3>1. j # k
      BY <2>1, <2>3, <2>5, <2>7
    <3>2. \A n \in 1 .. Len(mail) : mail[n].kind # j
      BY <2>3, <2>5, <2>7
    <3>3. Unsayable(j, state[j]) \/ heard[j] = state[j]
      BY <3>2 DEF Agrees
    <3> QED BY <3>1, <3>3
  <2>8. Agrees'
    <3>2. \A j \in Kinds : Unsayable(j, state[j])' <=> Unsayable(j, state'[j])
      BY DEF Unsayable
    <3>3. \A i : ObserverReads(mail[i])' = ObserverReads(mail'[i])
      BY DEF ObserverReads
    <3> HIDE DEF Unsayable, ObserverReads
    <3> QED BY <2>6, <2>7, <3>2, <3>3 DEF Agrees
  <2> QED BY <2>1, <2>3, <2>4, <2>8
<1>2. CASE ~ProxySends(k, v)
  <2>1. Unsayable(k, v) /\ mail' = mail
    BY <1>2, ProxySendsAll DEF Sent
  <2>2. \A j \in Kinds : Unsayable(j, state[j])' <=> Unsayable(j, state'[j])
    BY DEF Unsayable
  <2>3. \A i : ObserverReads(mail[i])' = ObserverReads(mail[i])
    BY <2>1 DEF ObserverReads
  <2> HIDE DEF Unsayable, ObserverReads
  <2>4. \A j \in Kinds : Unsayable(j, state'[j]) \/ state'[j] = state[j]
    BY <2>1
  <2>5. Agrees'
    BY <2>1, <2>2, <2>3, <2>4 DEF Agrees
  <2> QED BY <1>0, <2>1, <2>5
<1> QED BY <1>1, <1>2

\* An accepted report: the service holds what the stub read, and sends it.
LEMMA ReportKeeps ==
    ASSUME IndInv, NEW k \in Kinds, NEW v \in Reports(k), Report(k, v)
    PROVE  IndInv'
<1>0. TypeInv /\ Agrees /\ ReadWhole
  BY DEF IndInv
<1>1. PICK w \in Values(k) : /\ w = StubReads(k, v)
                             /\ k \in ListKinds /\ Clean(k, v) => w = v
                             /\ k = "cell" => v # <<>>
  BY StubReadsTypes DEF Report
<1>2. /\ state' = [state EXCEPT ![k] = w] /\ reported' = [reported EXCEPT ![k] = v]
      /\ mail' = Sent(k, w) /\ heard' = heard
  BY <1>1 DEF Report
<1>3. /\ state' = [j \in Kinds |-> state'[j]] /\ heard' = [j \in Kinds |-> heard'[j]]
      /\ reported' = [j \in Kinds |-> reported'[j]]
      /\ state'[k] = w /\ reported'[k] = v
      /\ \A j \in Kinds : j # k => state'[j] = state[j] /\ reported'[j] = reported[j]
  BY <1>0, <1>2 DEF TypeInv
<1>4. /\ mail' \in Seq(Messages) /\ Agrees'
      /\ \A i \in 1 .. Len(mail') : mail'[i].kind = k \/ (i \in 1 .. Len(mail) /\ mail'[i] = mail[i])
  BY <1>0, <1>2, <1>3, SendKeeps
<1>5. TypeInv'
  <2>1. ASSUME NEW j \in Kinds PROVE state'[j] \in Values(j)
    <3>1. CASE j = k
      BY <3>1, <1>3
    <3>2. CASE j # k
      BY <3>2, <1>0, <1>3 DEF TypeInv
    <3> QED BY <3>1, <3>2
  <2>2. ASSUME NEW j \in ListKinds PROVE reported'[j] \in Seq(Items(j))
    <3>1. CASE j = k
      BY <3>1, <1>3, ReportTypes
    <3>2. CASE j # k
      BY <3>2, <1>0, <1>3, ItemWords DEF TypeInv
    <3> QED BY <3>1, <3>2
  <2> QED BY <1>3, <1>4, <2>1, <2>2 DEF TypeInv, Values, KnownItem, Items, Messages
<1>6. ReadWhole'
  <2>1. ASSUME NEW j \in ListKinds, Clean(j, reported'[j]) PROVE state'[j] = reported'[j]
    <3>1. CASE j = k
      BY <3>1, <2>1, <1>1, <1>3
    <3>2. CASE j # k
      BY <3>2, <2>1, <1>0, <1>3, ItemWords DEF ReadWhole
    <3> QED BY <3>1, <3>2
  <2>2. ASSUME reported'["cell"] = <<>>
        PROVE  heard'["cell"] = <<>> /\ \A i \in 1 .. Len(mail') : mail'[i].kind # "cell"
    <3>1. k # "cell" /\ "cell" \in Kinds
      BY <2>2, <1>1, <1>3 DEF Kinds
    <3>2. reported["cell"] = <<>>
      BY <2>2, <3>1, <1>3
    <3> QED BY <3>1, <3>2, <1>0, <1>2, <1>4 DEF ReadWhole
  <2> HIDE DEF Clean
  <2> QED BY <2>1, <2>2 DEF ReadWhole, Clean
<1> QED BY <1>4, <1>5, <1>6 DEF IndInv

\* A replay sends what the service holds already; an empty cell list is not sent,
\* so an observer that was told no cells stays so.
LEMMA ReplayKeeps ==
    ASSUME IndInv, NEW k \in Kinds, Replay(k)
    PROVE  IndInv'
<1>0. TypeInv /\ Agrees /\ ReadWhole
  BY DEF IndInv
<1>1. PICK w \in Values(k) : w = state[k]
  BY <1>0 DEF TypeInv
<1>2. state' = state /\ reported' = reported /\ mail' = Sent(k, w) /\ heard' = heard
  BY <1>1 DEF Replay
<1>4. /\ mail' \in Seq(Messages) /\ Agrees'
      /\ \A i \in 1 .. Len(mail') : mail'[i].kind = k \/ (i \in 1 .. Len(mail) /\ mail'[i] = mail[i])
  BY <1>0, <1>1, <1>2, SendKeeps
<1>5. TypeInv'
  BY <1>0, <1>2, <1>4 DEF TypeInv, Values, KnownItem, Items, Messages
<1>6. ASSUME reported["cell"] = <<>>
      PROVE  \A i \in 1 .. Len(mail') : mail'[i].kind # "cell"
  <2>1. CASE k = "cell"
    <3>1. Clean("cell", reported["cell"]) /\ "cell" \in ListKinds
      BY <1>6, IpcAssumption DEF Clean, MaxNum, ListKinds
    <3>2. w = <<>>
      BY <2>1, <3>1, <1>0, <1>1, <1>6 DEF ReadWhole
    <3>3. ~ProxySends(k, w)
      BY <2>1, <3>2 DEF ProxySends
    <3>4. mail' = mail
      BY <1>2, <3>3 DEF Sent
    <3> QED BY <3>4, <1>0, <1>6 DEF ReadWhole
  <2>2. CASE k # "cell"
    BY <2>2, <1>0, <1>4, <1>6 DEF ReadWhole
  <2> QED BY <2>1, <2>2
<1>7. ReadWhole'
  BY <1>0, <1>2, <1>6 DEF ReadWhole, Clean
<1> QED BY <1>4, <1>5, <1>7 DEF IndInv

\* The observer takes the oldest message.
LEMMA ReceiveKeeps ==
    ASSUME IndInv, Receive
    PROVE  IndInv'
<1>0. TypeInv /\ Agrees /\ ReadWhole
  BY DEF IndInv
<1>1. mail \in Seq(Messages) /\ mail # <<>> /\ Len(mail) \in Nat
  BY <1>0 DEF TypeInv, Receive
<1>2. PICK m \in Messages : m = Head(mail) /\ m = mail[1] /\ 1 \in 1 .. Len(mail)
  BY <1>1
<1>3. m.kind \in Kinds
  <2>1. PICK k \in Kinds : \E v \in Values(k) : m = Message(k, v)
    BY DEF Messages
  <2> QED BY <2>1 DEF Message
<1>4. /\ mail' \in Seq(Messages) /\ Len(mail') = Len(mail) - 1
      /\ \A i \in 1 .. Len(mail') : i + 1 \in 1 .. Len(mail) /\ mail'[i] = mail[i + 1]
  BY <1>1 DEF Receive
<1>5. PICK r : r = ObserverReads(m)
  OBVIOUS
<1>6. /\ state' = state /\ reported' = reported
      /\ heard' = IF m.kind = "network" /\ r = Null THEN heard ELSE [heard EXCEPT ![m.kind] = r]
  BY <1>2, <1>5 DEF Receive
<1>7. /\ heard' = [k \in Kinds |-> heard'[k]]
      /\ \A k \in Kinds : k # m.kind => heard'[k] = heard[k]
      /\ ~(m.kind = "network" /\ r = Null) => heard'[m.kind] = r
  BY <1>0, <1>3, <1>6 DEF TypeInv
<1>8. TypeInv'
  BY <1>0, <1>4, <1>6, <1>7 DEF TypeInv, Values, KnownItem, Items, Messages
<1>9. Agrees'
  <2>1. ASSUME NEW k \in Kinds, NEW i \in 1 .. Len(mail'),
               mail'[i].kind = k, \A n \in 1 .. Len(mail') : n > i => mail'[n].kind # k
        PROVE  Unsayable(k, state'[k]) \/ ObserverReads(mail'[i]) = state'[k]
    <3>1. i + 1 \in 1 .. Len(mail) /\ mail'[i] = mail[i + 1]
      BY <1>4
    <3>2. ASSUME NEW n \in 1 .. Len(mail), n > i + 1 PROVE mail[n].kind # k
      <4>1. n - 1 \in 1 .. Len(mail') /\ n - 1 > i /\ (n - 1) + 1 = n
        BY <1>1, <1>4, <3>2
      <4> QED BY <4>1, <1>4, <2>1
    <3>3. Unsayable(k, state[k]) \/ ObserverReads(mail[i + 1]) = state[k]
      BY <1>0, <2>1, <3>1, <3>2 DEF Agrees
    <3> QED BY <3>1, <3>3, <1>6
  <2>2. ASSUME NEW k \in Kinds, \A i \in 1 .. Len(mail') : mail'[i].kind # k
        PROVE  Unsayable(k, state'[k]) \/ heard'[k] = state'[k]
    <3>1. ASSUME NEW n \in 1 .. Len(mail), n > 1 PROVE mail[n].kind # k
      <4>1. n - 1 \in 1 .. Len(mail') /\ (n - 1) + 1 = n
        BY <1>1, <1>4, <3>1
      <4> QED BY <4>1, <1>4, <2>2
    <3>2. CASE m.kind = k
      <4>1. Unsayable(k, state[k]) \/ r = state[k]
        BY <1>0, <1>2, <1>5, <3>1, <3>2 DEF Agrees
      <4>2. CASE k = "network" /\ r = Null
        BY <4>1, <4>2, <1>6 DEF Unsayable
      <4>3. CASE ~(k = "network" /\ r = Null)
        BY <4>1, <4>3, <3>2, <1>6, <1>7
      <4> QED BY <4>2, <4>3
    <3>3. CASE m.kind # k
      <4>1. \A n \in 1 .. Len(mail) : mail[n].kind # k
        <5>1. \A n \in 1 .. Len(mail) : n = 1 \/ n > 1
          BY <1>1
        <5> QED BY <5>1, <3>1, <3>3, <1>2
      <4> QED BY <4>1, <3>3, <1>0, <1>6, <1>7 DEF Agrees
    <3> QED BY <3>2, <3>3
  <2> QED BY <2>1, <2>2 DEF Agrees, Unsayable, ObserverReads, Parse, ParseUpTo
<1>10. ReadWhole'
  <2>1. ASSUME reported["cell"] = <<>>
        PROVE  heard'["cell"] = <<>> /\ \A i \in 1 .. Len(mail') : mail'[i].kind # "cell"
    <3>1. heard["cell"] = <<>> /\ \A i \in 1 .. Len(mail) : mail[i].kind # "cell"
      BY <1>0, <2>1 DEF ReadWhole
    <3>2. m.kind # "cell" /\ "cell" \in Kinds
      BY <1>2, <3>1 DEF Kinds
    <3> QED BY <3>1, <3>2, <1>4, <1>7
  <2> QED BY <2>1, <1>0, <1>6 DEF ReadWhole, Clean
<1> QED BY <1>8, <1>9, <1>10 DEF IndInv

-----------------------------------------------------------------------------
(* The theorems. *)

\* A refused report and a stuttering step change none of the invariant's variables.
LEMMA NothingMoves ==
    ASSUME IndInv, UNCHANGED <<state, mail, heard, reported>>
    PROVE  IndInv'
BY DEF IndInv, TypeInv, Agrees, ReadWhole, Clean, Values, KnownItem, Items, Messages,
       ObserverReads, Unsayable

\* The invariant is inductive.
THEOREM Invariance == Spec => []IndInv
<1>1. Init => IndInv
  BY InitHolds
<1>2. IndInv /\ [Next]_vars => IndInv'
  <2> SUFFICES ASSUME IndInv, [Next]_vars PROVE IndInv'
    OBVIOUS
  <2>1. ASSUME NEW k \in Kinds, NEW v \in Reports(k), Report(k, v) PROVE IndInv'
    BY <2>1, ReportKeeps
  <2>2. ASSUME NEW k \in Kinds, NEW v \in Reports(k), ReportRefused(k, v) PROVE IndInv'
    BY <2>2, NothingMoves DEF ReportRefused
  <2>3. ASSUME NEW k \in Kinds, Replay(k) PROVE IndInv'
    BY <2>3, ReplayKeeps
  <2>4. CASE Receive
    BY <2>4, ReceiveKeeps
  <2>5. CASE UNCHANGED vars
    BY <2>5, NothingMoves DEF vars
  <2> QED BY <2>1, <2>2, <2>3, <2>4, <2>5 DEF Next
<1> QED BY <1>1, <1>2, PTL DEF Spec

\* Whatever the limits, the types and the values are: once nothing is on its way the
\* observer was last told what the service holds, unless no message can say it.
\* What OnXxxUpdated of the proxy lets through and what TelephonyObserver reads
\* back is what the stub let in.
THEOREM ObserverAgrees == Spec => []ObserverAgreesWithService
<1>1. ASSUME IndInv PROVE ObserverAgreesWithService
  <2> SUFFICES ASSUME mail = <<>>, NEW k \in Kinds
               PROVE  Unsayable(k, state[k]) \/ heard[k] = state[k]
    BY DEF ObserverAgreesWithService
  <2>1. \A i \in 1 .. Len(mail) : mail[i].kind # k
    OBVIOUS
  <2> QED BY <1>1, <2>1 DEF IndInv, Agrees
<1> QED BY <1>1, Invariance, PTL

\* A list of items both readers know, not longer than the stub's limit, arrives item
\* for item: neither parcel loses or shifts a word of it, for lists of any length.
THEOREM ListsAreWhole == Spec => []ListsArriveWhole
<1>1. ASSUME IndInv PROVE ListsArriveWhole
  <2> SUFFICES ASSUME mail = <<>>, NEW k \in ListKinds, Clean(k, reported[k])
               PROVE  heard[k] = reported[k]
    BY DEF ListsArriveWhole, Clean, MaxNum
  <2>1. state[k] = reported[k] /\ k \in Kinds
    BY <1>1, ItemWords DEF IndInv, ReadWhole
  <2>2. \A i \in 1 .. Len(mail) : mail[i].kind # k
    OBVIOUS
  <2>3. Unsayable(k, state[k]) \/ heard[k] = state[k]
    BY <1>1, <2>1, <2>2 DEF IndInv, Agrees
  <2>4. CASE k = "cell" /\ state[k] = <<>>
    BY <1>1, <2>1, <2>4 DEF IndInv, ReadWhole
  <2>5. CASE ~(k = "cell" /\ state[k] = <<>>)
    BY <2>1, <2>3, <2>5 DEF Unsayable, ListKinds
  <2> QED BY <2>4, <2>5
<1> QED BY <1>1, Invariance, PTL
==============================================================================
