-------------------------- MODULE InventoryProofs --------------------------
(***************************************************************************)
(* Proofs about Inventory and ErpSync, for any customers, page sizes,      *)
(* devices, reports, vendors and numbers of edits and faults.              *)
(***************************************************************************)
EXTENDS Inventory, ErpSync, Induction, FiniteSetTheorems

-----------------------------------------------------------------------------
(* Positions in a list of customers.                                       *)

RankIn(L, c) == Cardinality({k \in L : k < c})

LEMMA RankType ==
    ASSUME NEW L, L \subseteq Nat, NEW c \in Nat
    PROVE  IsFiniteSet({k \in L : k < c}) /\ RankIn(L, c) \in Nat
  <1>0. \A k \in L : k \in Nat
    OBVIOUS
  <1>4. ASSUME NEW k \in L, k < c PROVE k \in 0 .. c
    BY <1>0, <1>4
  <1>1. {k \in L : k < c} \subseteq 0 .. c
    BY <1>4, Zenon
  <1>3. IsFiniteSet(0 .. c)
    BY FS_Interval
  <1>2. IsFiniteSet({k \in L : k < c})
    BY <1>1, <1>3, FS_Subset
  <1> QED
    BY <1>2, FS_CardinalityType DEF RankIn

\* A longer list puts nobody further to the front.
LEMMA RankMonotone ==
    ASSUME NEW L, NEW M, L \subseteq M, M \subseteq Nat, NEW c \in Nat
    PROVE  RankIn(L, c) <= RankIn(M, c)
  <1>1. {k \in L : k < c} \in SUBSET {k \in M : k < c}
    OBVIOUS
  <1>2. IsFiniteSet({k \in M : k < c})
    BY RankType
  <1> QED
    BY <1>1, <1>2, FS_Subset DEF RankIn

\* Who comes later is further to the back.
LEMMA RankGrows ==
    ASSUME NEW L, L \subseteq Nat, NEW c \in L, NEW d \in L, c < d
    PROVE  RankIn(L, c) < RankIn(L, d)
  <1> DEFINE C == {k \in L : k < c}
             D == {k \in L : k < d}
  <1>0. \A k \in L : k \in Nat
    OBVIOUS
  <1>5. ASSUME NEW k \in L, k < c PROVE k < d
    BY <1>0, <1>5
  <1>6. ~(c < c)
    BY <1>0
  <1>1. C \subseteq D /\ c \in D /\ c \notin C
    BY <1>5, <1>6, Zenon
  <1>2. IsFiniteSet(D) /\ Cardinality(C) \in Nat /\ Cardinality(D) \in Nat
    BY RankType DEF RankIn
  <1> HIDE DEF C, D
  <1>3. Cardinality(C) <= Cardinality(D) /\ (Cardinality(C) = Cardinality(D) => C = D)
    BY <1>1, <1>2, FS_Subset
  <1>4. Cardinality(C) < Cardinality(D)
    BY <1>1, <1>2, <1>3
  <1> QED
    BY <1>4 DEF RankIn, C, D

\* The next one is one further.
LEMMA RankNext ==
    ASSUME NEW L, L \subseteq Nat, NEW m \in L, NEW c \in L, m < c,
           \A k \in L : k < c => k <= m
    PROVE  RankIn(L, c) = RankIn(L, m) + 1
  <1> DEFINE M == {k \in L : k < m}
             C == {k \in L : k < c}
  <1>0. \A k \in L : k \in Nat
    OBVIOUS
  <1>4. ASSUME NEW k \in L PROVE k < c <=> k < m \/ k = m
    BY <1>0
  <1>5. ~(m < m)
    BY <1>0
  <1>1. C = M \cup {m} /\ m \notin M
    BY <1>4, <1>5, Zenon
  <1>2. IsFiniteSet(M)
    BY RankType
  <1> HIDE DEF C, M
  <1>3. Cardinality(C) = Cardinality(M) + 1
    BY <1>1, <1>2, FS_AddElement
  <1> QED
    BY <1>3 DEF RankIn, C, M

\* The last one before c.
LEMMA LastBefore ==
    ASSUME NEW L, L \subseteq Nat, NEW c \in L, {k \in L : k < c} # {}
    PROVE  \E m \in L : m < c /\ \A k \in L : k < c => k <= m
  <1> DEFINE gaps == {c - k : k \in {k \in L : k < c}}
  <1>0. \A k \in L : k \in Nat
    OBVIOUS
  <1>5. ASSUME NEW k \in L, k < c PROVE c - k \in Nat
    BY <1>0, <1>5
  <1>1. gaps \subseteq Nat /\ gaps # {}
    BY <1>5, Zenon
  <1>2. PICK g \in gaps : \A h \in gaps : g <= h
    BY <1>1, LeastNumber
  <1>3. PICK m \in L : m < c /\ g = c - m
    OBVIOUS
  <1>4. ASSUME NEW k \in L, k < c PROVE k <= m
    <2>1. c - k \in gaps
      BY <1>4
    <2>2. c - m <= c - k
      BY <1>2, <1>3, <2>1
    <2> QED
      BY <1>0, <1>3, <2>2
  <1> QED
    BY <1>3, <1>4

\* No position is left out: who is at n or behind has somebody at n.
LEMMA RanksContiguous ==
    ASSUME NEW L, L \subseteq Nat, NEW n \in Nat, NEW e \in L, n <= RankIn(L, e)
    PROVE  \E c \in L : RankIn(L, c) = n
  <1> DEFINE behind == {c \in L : n <= RankIn(L, c)}
  <1>1. behind \subseteq Nat /\ behind # {}
    OBVIOUS
  <1>2. PICK c \in behind : \A d \in behind : c <= d
    BY <1>1, LeastNumber
  <1>3. c \in L /\ c \in Nat /\ n <= RankIn(L, c) /\ RankIn(L, c) \in Nat
    BY <1>2, RankType
  <1>4. CASE {k \in L : k < c} = {}
    <2>1. RankIn(L, c) = 0
      BY <1>4, FS_EmptySet DEF RankIn
    <2> QED
      BY <1>3, <2>1
  <1>5. CASE {k \in L : k < c} # {}
    <2>1. PICK m \in L : m < c /\ \A k \in L : k < c => k <= m
      BY <1>3, <1>5, LastBefore
    <2>2. RankIn(L, c) = RankIn(L, m) + 1 /\ RankIn(L, m) \in Nat
      BY <1>3, <2>1, RankNext, RankType
    <2>3. ~(n <= RankIn(L, m))
      BY <1>2, <1>3, <2>1
    <2> QED
      BY <1>3, <2>2, <2>3
  <1> QED
    BY <1>4, <1>5

-----------------------------------------------------------------------------
(* The ERP's ticks.                                                        *)

Values == Logins \cup {Missing}
Answers == UNION {[S -> Values] : S \in SUBSET Customers}

ErpRows == [at : {"idle", "page", "upsert", "over"}, page : Nat \ {0}, failed : BOOLEAN,
            asked : SUBSET Customers, fresh : SUBSET Customers, answer : Answers,
            full : BOOLEAN]

TablesSound ==
    /\ erp \in [Customers -> Values]
    /\ customers \in [Customers -> Values \cup {NoRow}]
    /\ \A c, k \in Customers : customers[c] = customers[k] /\ c # k =>
           customers[c] \in {Missing, NoRow}
    /\ modified \subseteq Customers /\ raced \subseteq Customers
    /\ token \in {"none", "good", "stale"}
    /\ edits \in 0 .. MaxEdits /\ faults \in 0 .. MaxFaults

TicksTyped == erpTick \in [ErpTicks -> ErpRows] /\ erpTick["loop"].at # "over"

\* The types need no strengthening; the watermark needs what TicksAgree says of the
\* ticks in progress.
ErpSound == TablesSound /\ TicksTyped /\ NonePassed /\ TicksAgree

LEMMA RowFields ==
    ASSUME TicksTyped, NEW t \in ErpTicks
    PROVE  /\ erpTick[t] \in ErpRows
           /\ erpTick[t] = [at |-> erpTick[t].at, page |-> erpTick[t].page,
                            failed |-> erpTick[t].failed, asked |-> erpTick[t].asked,
                            fresh |-> erpTick[t].fresh, answer |-> erpTick[t].answer,
                            full |-> erpTick[t].full]
  BY DEF TicksTyped, ErpRows

LEMMA RestingFields ==
    \E x \in ErpRows :
        /\ x = Resting
        /\ x.at = "idle" /\ x.page = 1 /\ ~x.failed /\ x.asked = {} /\ x.fresh = {}
        /\ DOMAIN x.answer = {}
        /\ x = [at |-> x.at, page |-> x.page, failed |-> x.failed, asked |-> x.asked,
                fresh |-> x.fresh, answer |-> x.answer, full |-> x.full]
  <1>1. PICK none : none = NoAnswer
    OBVIOUS
  <1>2. PICK x : x = Resting
    OBVIOUS
  <1>3. x = [at |-> "idle", page |-> 1, failed |-> FALSE, asked |-> {}, fresh |-> {},
             answer |-> none, full |-> FALSE]
    BY <1>1, <1>2 DEF Resting
  <1>4. none \in Answers /\ DOMAIN none = {}
    BY <1>1 DEF NoAnswer, Answers
  <1>5. x \in ErpRows
    BY <1>3, <1>4 DEF ErpRows
  <1>6. /\ x.at = "idle" /\ x.page = 1 /\ ~x.failed /\ x.asked = {} /\ x.fresh = {}
        /\ DOMAIN x.answer = {}
    BY <1>3, <1>4
  <1>7. x = [at |-> x.at, page |-> x.page, failed |-> x.failed, asked |-> x.asked,
             fresh |-> x.fresh, answer |-> x.answer, full |-> x.full]
    BY <1>5 DEF ErpRows
  <1> QED
    BY <1>2, <1>5, <1>6, <1>7

LEMMA RestingTyped == Resting \in ErpRows /\ Resting.at = "idle"
  BY RestingFields

\* A step of one tick leaves the other alone.
LEMMA OneTickMoves ==
    ASSUME TicksTyped, NEW t \in ErpTicks, NEW y \in ErpRows, y.at = "over" => t = "boot",
           erpTick' = [erpTick EXCEPT ![t] = y]
    PROVE  TicksTyped' /\ erpTick'[t] = y /\ \A u \in ErpTicks \ {t} : erpTick'[u] = erpTick[u]
  BY DEF TicksTyped, ErpTicks

LEMMA ListType ==
    ASSUME TicksTyped, NEW t \in ErpTicks
    PROVE  /\ Listed(t) \subseteq Customers /\ Listed(t) \subseteq Nat
           /\ \A c \in Customers : Rank(t, c) \in Nat /\ Rank(t, c) = RankIn(Listed(t), c)
           /\ First(t) \in Nat /\ PerPage \in Nat \ {0}
  <1>1. Listed(t) \subseteq Customers /\ Listed(t) \subseteq Nat /\ Customers \subseteq Nat
    BY RowFields, RowsAssumption DEF ErpRows, Listed
  <1>2. \A c \in Customers : Rank(t, c) \in Nat /\ Rank(t, c) = RankIn(Listed(t), c)
    BY <1>1, RankType DEF Rank, RankIn
  <1>3. erpTick[t].page \in Nat \ {0} /\ PerPage \in Nat \ {0}
    BY RowFields, ErpAssumption DEF ErpRows
  <1>4. First(t) \in Nat
    <2>1. PICK p \in Nat \ {0} : p = erpTick[t].page
      BY <1>3
    <2>2. (p - 1) * PerPage \in Nat
      BY <1>3
    <2> QED
      BY <2>1, <2>2 DEF First
  <1> QED
    BY <1>1, <1>2, <1>3, <1>4

\* What TicksAgree says of one running tick.
LEMMA Agreeing ==
    ASSUME ErpSound, NEW t \in ErpTicks, Running(t), NEW c \in Customers
    PROVE  TickAgrees(t, c)
  BY DEF ErpSound, TicksAgree

\* A tick that goes on is as it was, as far as the others see it.
LEMMA TickStays ==
    ASSUME ErpSound, NEW u \in ErpTicks, Running(u), NEW c \in Customers,
           erpTick'[u] = erpTick[u], erp' = erp, raced' = raced,
           c \in modified /\ c \in erpTick[u].fresh \ raced => c \in modified',
           \A t \in ErpTicks : Running(t)' => Running(t) /\ erpTick'[t].fresh = erpTick[t].fresh,
           c \notin erpTick[u].fresh \cup raced /\ customers[c] = erp[c] => customers'[c] = erp[c]
    PROVE  TickAgrees(u, c)'
  <1>1. TickAgrees(u, c)
    BY Agreeing
  <1>2. FreshIsKept(u, c)'
    BY <1>1 DEF TickAgrees, FreshIsKept
  <1>3. AnswerIsCurrent(u, c)'
    BY <1>1 DEF TickAgrees, AnswerIsCurrent, Left
  <1>4. Listed(u)' = Listed(u) /\ First(u)' = First(u) /\ Rank(u, c)' = Rank(u, c)
    BY DEF Listed, First, Rank
  <1>5. OthersAgree(u, c)'
    BY <1>1, <1>4 DEF TickAgrees, OthersAgree, Listed
  <1>6. WrittenAgree(u, c)'
    BY <1>1, <1>4 DEF TickAgrees, WrittenAgree, Written, Left
  <1> QED
    BY <1>2, <1>3, <1>5, <1>6 DEF TickAgrees

LEMMA StartErpTickSound ==
    ASSUME ErpSound, NEW t \in ErpTicks, StartErpTick(t) PROVE ErpSound'
  <1>1. /\ UNCHANGED <<customers, counters, erp, modified, token>>
        /\ raced' = RacedBy(t)
    BY DEF StartErpTick
  <1> DEFINE others == {u \in ErpTicks \ {t} : Running(u)}
  <1>2. PICK x \in ErpRows :
            /\ x = Resting
            /\ x.at = "idle" /\ x.page = 1 /\ ~x.failed /\ x.asked = {} /\ x.fresh = {}
            /\ DOMAIN x.answer = {}
            /\ x = [at |-> x.at, page |-> x.page, failed |-> x.failed, asked |-> x.asked,
                    fresh |-> x.fresh, answer |-> x.answer, full |-> x.full]
    BY RestingFields
  <1>3. PICK y : y = [x EXCEPT !.at = "page", !.asked = modified]
    OBVIOUS
  <1>4. y = [at |-> "page", page |-> x.page, failed |-> x.failed, asked |-> modified,
             fresh |-> x.fresh, answer |-> x.answer, full |-> x.full]
    BY <1>2, <1>3
  <1>5. erpTick' = [erpTick EXCEPT ![t] = y]
    BY <1>2, <1>3 DEF StartErpTick
  <1>6. y \in ErpRows
    BY <1>2, <1>4 DEF ErpRows, ErpSound, TablesSound
  <1>7. TicksTyped' /\ erpTick'[t] = y /\ \A u \in ErpTicks \ {t} : erpTick'[u] = erpTick[u]
    <2>1. TicksTyped /\ y.at # "over"
      BY <1>4 DEF ErpSound
    <2> QED
      BY <1>5, <1>6, <2>1, OneTickMoves, Zenon
  <1>8. NonePassed'
    <2>1. \A c \in Customers \ raced' : c \notin raced \/ c \in modified
      BY <1>1 DEF RacedBy
    <2> QED
      BY <1>1, <2>1 DEF ErpSound, NonePassed
  <1>9. raced' \subseteq Customers
    <2>1. \A u \in ErpTicks : erpTick[u].fresh \subseteq Customers
      BY RowFields DEF ErpRows, ErpSound
    <2>2. raced \subseteq Customers
      BY DEF ErpSound, TablesSound
    <2> QED
      BY <1>1, <2>1, <2>2 DEF RacedBy
  <1>10. TablesSound'
    BY <1>1, <1>9 DEF ErpSound, TablesSound, counters
  <1>11. ASSUME NEW c \in Customers PROVE TickAgrees(t, c)'
    <2>1. FreshIsKept(t, c)' /\ AnswerIsCurrent(t, c)'
      BY <1>2, <1>4, <1>7 DEF FreshIsKept, AnswerIsCurrent, Left
    <2>2. OthersAgree(t, c)'
      BY <1>2, <1>1, <1>4, <1>7, <1>8 DEF OthersAgree, Listed, NonePassed
    <2>3. First(t)' = 0
      <3>1. (1 - 1) * PerPage = 0
        BY ErpAssumption
      <3> QED
        BY <1>2, <1>4, <1>7, <3>1 DEF First
    <2>4. Rank(t, c)' \in Nat
      <3>1. Listed(t)' = modified
        BY <1>2, <1>4, <1>7 DEF Listed
      <3>2. Rank(t, c)' = RankIn(modified, c)
        BY <3>1 DEF Rank, RankIn
      <3>3. modified \subseteq Nat /\ c \in Nat
        BY RowsAssumption DEF ErpSound, TablesSound
      <3> QED
        BY <3>2, <3>3, RankType
    <2>5. WrittenAgree(t, c)'
      BY <1>2, <1>4, <1>7, <2>3, <2>4 DEF WrittenAgree, Written
    <2> QED
      BY <2>1, <2>2, <2>5 DEF TickAgrees
  <1>12. ASSUME NEW u \in ErpTicks \ {t}, Running(u)', NEW c \in Customers
         PROVE  TickAgrees(u, c)'
    <2>1. u \in others /\ erpTick'[u] = erpTick[u] /\ Running(u)
      BY <1>7, <1>12 DEF Running
    <2>2. raced \subseteq raced' /\ erpTick[u].fresh \subseteq raced'
      BY <1>1, <2>1 DEF RacedBy
    <2>3. TickAgrees(u, c)
      BY <2>1, Agreeing
    <2>4. Listed(u)' = Listed(u) /\ First(u)' = First(u) /\ Rank(u, c)' = Rank(u, c)
      BY <2>1 DEF Listed, First, Rank
    <2>5. FreshIsKept(u, c)'
      BY <2>1, <2>2 DEF FreshIsKept
    <2>6. AnswerIsCurrent(u, c)'
      BY <1>1, <2>1, <2>3 DEF TickAgrees, AnswerIsCurrent, Left
    <2>7. OthersAgree(u, c)'
      BY <1>1, <2>2, <2>3, <2>4 DEF TickAgrees, OthersAgree
    <2>8. WrittenAgree(u, c)'
      BY <1>1, <2>1, <2>2, <2>3, <2>4 DEF TickAgrees, WrittenAgree, Written, Left
    <2> QED
      BY <2>5, <2>6, <2>7, <2>8 DEF TickAgrees
  <1>13. TicksAgree'
    BY <1>11, <1>12 DEF TicksAgree
  <1> QED
    BY <1>7, <1>8, <1>10, <1>13 DEF ErpSound

\* The tick is over: without a failure only what was edited meanwhile may be behind.
LEMMA TickEnds ==
    ASSUME ErpSound, NEW t \in ErpTicks, Running(t), NEW failed \in BOOLEAN,
           EndErpTick(t, failed), customers' = customers, TablesSound',
           ~failed => \A c \in Customers \ raced : customers[c] # erp[c] => c \in erpTick[t].fresh
    PROVE  ErpSound'
  <1> DEFINE y == [Resting EXCEPT !.at = IF t = "boot" THEN "over" ELSE "idle"]
  <1>0. PICK x \in ErpRows :
            /\ x = Resting
            /\ x.at = "idle" /\ x.page = 1 /\ ~x.failed /\ x.asked = {} /\ x.fresh = {}
            /\ DOMAIN x.answer = {}
            /\ x = [at |-> x.at, page |-> x.page, failed |-> x.failed, asked |-> x.asked,
                    fresh |-> x.fresh, answer |-> x.answer, full |-> x.full]
    BY RestingFields
  <1>1. y = [at |-> IF t = "boot" THEN "over" ELSE "idle", page |-> x.page,
             failed |-> x.failed, asked |-> x.asked, fresh |-> x.fresh, answer |-> x.answer,
             full |-> x.full]
    BY <1>0
  <1>2. /\ erpTick' = [erpTick EXCEPT ![t] = y] /\ erp' = erp /\ raced' = raced
        /\ modified' = IF failed THEN modified ELSE erpTick[t].fresh
    BY DEF EndErpTick, SinceAfter
  <1> HIDE DEF y
  <1>3. y \in ErpRows /\ (y.at = "over" => t = "boot") /\ y.at \notin {"page", "upsert"}
    BY <1>0, <1>1 DEF ErpRows
  <1>4. TicksTyped' /\ erpTick'[t] = y /\ \A u \in ErpTicks \ {t} : erpTick'[u] = erpTick[u]
    <2>1. TicksTyped
      BY DEF ErpSound
    <2> QED
      BY <1>2, <1>3, <2>1, OneTickMoves, Zenon
  <1>5. NonePassed'
    BY <1>2 DEF ErpSound, NonePassed
  <1>6. ~Running(t)'
    BY <1>3, <1>4 DEF Running
  <1>7. ASSUME NEW u \in ErpTicks, Running(u)', NEW c \in Customers PROVE TickAgrees(u, c)'
    <2>1. u # t /\ erpTick'[u] = erpTick[u] /\ Running(u)
      BY <1>4, <1>6, <1>7 DEF Running
    <2>2. c \in erpTick[u].fresh \ raced => c \in modified /\ c \in erpTick[t].fresh
      BY <2>1, Agreeing DEF TickAgrees, FreshIsKept
    <2>3. c \in erpTick[u].fresh \ raced => c \in modified'
      BY <1>2, <2>2
    <2>4. \A v \in ErpTicks : Running(v)' => Running(v) /\ erpTick'[v].fresh = erpTick[v].fresh
      BY <1>4, <1>6 DEF Running
    <2> QED
      BY <1>2, <2>1, <2>3, <2>4, TickStays
  <1>8. TicksAgree'
    BY <1>7 DEF TicksAgree
  <1> QED
    BY <1>4, <1>5, <1>8 DEF ErpSound

LEMMA AuthorizedType == ErpSound => Authorized \in {"none", "good", "stale"}
  BY DEF ErpSound, TablesSound, Authorized, Token, Invalidate

\* Behind a page that is not full there is nobody.
LEMMA NobodyBehind ==
    ASSUME TicksTyped, NEW t \in ErpTicks, ~Full(t), NEW c \in Listed(t)
    PROVE  Rank(t, c) < First(t) + PerPage
  <1>1. First(t) \in Nat /\ PerPage \in Nat \ {0} /\ Listed(t) \subseteq Nat
          /\ c \in Customers /\ \A k \in Customers : Rank(t, k) \in Nat
                                  /\ Rank(t, k) = RankIn(Listed(t), k)
    BY ListType
  <1>2. First(t) + PerPage - 1 \in Nat
    BY <1>1
  <1>3. ASSUME First(t) + PerPage - 1 <= Rank(t, c) PROVE FALSE
    <2>1. PICK d \in Listed(t) : RankIn(Listed(t), d) = First(t) + PerPage - 1
      BY <1>1, <1>2, <1>3, RanksContiguous
    <2>2. d \in Customers
      BY ListType
    <2> QED
      BY <1>1, <2>1, <2>2 DEF Full
  <1> QED
    BY <1>1, <1>3

LEMMA AskPageSound ==
    ASSUME ErpSound, NEW t \in ErpTicks, AskPage(t) PROVE ErpSound'
  <1>1. erpTick[t].at = "page" /\ Running(t) /\ UNCHANGED <<customers, counters>>
          /\ token' \in {"none", "good", "stale"}
    BY AuthorizedType DEF AskPage, Running
  <1>2. CASE Authorized # "good"
    <2>1. EndErpTick(t, TRUE)
      BY <1>2 DEF AskPage
    <2>2. erpTick[t].fresh \subseteq Customers
      BY RowFields DEF ErpSound, ErpRows
    <2>3. TablesSound'
      BY <1>1, <2>1, <2>2 DEF ErpSound, TablesSound, EndErpTick, SinceAfter, counters
    <2> QED
      BY <1>1, <2>1, <2>3, TickEnds
  <1>3. CASE Authorized = "good"
    <2> DEFINE got == [c \in Page(t) |-> erp[c]]
    <2>1. /\ erpTick' = [erpTick EXCEPT ![t].at = "upsert", ![t].answer = got,
                                        ![t].full = Full(t)]
          /\ UNCHANGED <<erp, modified, raced>>
      BY <1>3 DEF AskPage
    <2>2. PICK x : x = erpTick[t]
      OBVIOUS
    <2>3. PICK answer, full : answer = got /\ full = Full(t)
      OBVIOUS
    <2>4. PICK y : y = [x EXCEPT !.at = "upsert", !.answer = answer, !.full = full]
      OBVIOUS
    <2>5. Page(t) \subseteq Customers /\ erp \in [Customers -> Values] /\ Full(t) \in BOOLEAN
      BY ListType DEF ErpSound, TablesSound, Page, Full
    <2>6. got \in [Page(t) -> Values]
      BY <2>5
    <2> HIDE DEF got
    <2>7. answer \in Answers /\ full \in BOOLEAN /\ DOMAIN answer = Page(t)
      BY <2>3, <2>5, <2>6 DEF Answers
    <2>8. /\ x = [at |-> x.at, page |-> x.page, failed |-> x.failed, asked |-> x.asked,
                  fresh |-> x.fresh, answer |-> x.answer, full |-> x.full]
          /\ x \in ErpRows
      BY <2>2, RowFields, Zenon DEF ErpSound
    <2>9. y = [at |-> "upsert", page |-> x.page, failed |-> x.failed, asked |-> x.asked,
               fresh |-> x.fresh, answer |-> answer, full |-> full]
      BY <2>4, <2>8
    <2>10. y \in ErpRows
      BY <2>7, <2>8, <2>9 DEF ErpRows
    <2>11. erpTick' = [erpTick EXCEPT ![t] = y]
      <3>1. erpTick' = [erpTick EXCEPT ![t].at = "upsert", ![t].answer = answer,
                                       ![t].full = full]
        BY <2>1, <2>3
      <3> QED
        BY <2>2, <2>4, <3>1 DEF ErpSound, TicksTyped
    <2>12. TicksTyped' /\ erpTick'[t] = y /\ \A u \in ErpTicks \ {t} : erpTick'[u] = erpTick[u]
      <3>1. TicksTyped /\ y.at # "over"
        BY <2>9 DEF ErpSound
      <3> QED
        BY <2>10, <2>11, <3>1, OneTickMoves, Zenon
    <2>13. TablesSound' /\ NonePassed'
      BY <1>1, <2>1 DEF ErpSound, TablesSound, NonePassed, counters
    <2>14. \A u \in ErpTicks : Running(u)' => Running(u) /\ erpTick'[u].fresh = erpTick[u].fresh
      BY <1>1, <2>2, <2>9, <2>12 DEF Running
    <2>15. ASSUME NEW c \in Customers PROVE TickAgrees(t, c)'
      <3>1. TickAgrees(t, c)
        BY <1>1, Agreeing
      <3>2. Listed(t)' = Listed(t) /\ First(t)' = First(t) /\ Rank(t, c)' = Rank(t, c)
        BY <2>2, <2>9, <2>12 DEF Listed, First, Rank
      <3>3. FreshIsKept(t, c)'
        <4>1. erpTick'[t].fresh = erpTick[t].fresh /\ FreshIsKept(t, c)
          BY <1>1, <2>2, <2>9, <2>12, <3>1 DEF TickAgrees
        <4> QED
          BY <2>1, <2>14, <4>1 DEF FreshIsKept
      <3>4. AnswerIsCurrent(t, c)'
        <4>1. Left(t)' = Page(t) /\ erpTick'[t].answer = answer
          BY <2>7, <2>9, <2>12 DEF Left
        <4>2. c \in Page(t) => answer[c] = erp[c]
          BY <2>3 DEF got
        <4> QED
          BY <2>1, <4>1, <4>2 DEF AnswerIsCurrent
      <3>5. OthersAgree(t, c)'
        BY <1>1, <2>1, <3>1, <3>2 DEF TickAgrees, OthersAgree
      <3>6. ASSUME ~erpTick[t].failed, c \in erpTick[t].asked \ (erpTick[t].fresh \cup raced),
                   c \notin Page(t), ~Full(t) \/ Rank(t, c) < First(t) + PerPage
            PROVE  customers[c] = erp[c]
        <4>1. c \in Listed(t)
          BY <3>6 DEF Listed
        <4>2. Rank(t, c) < First(t) + PerPage
          BY <3>6, <4>1, NobodyBehind DEF ErpSound
        <4>3. Rank(t, c) \in Nat /\ First(t) \in Nat /\ PerPage \in Nat \ {0}
          BY ListType DEF ErpSound
        <4>4. Rank(t, c) \notin First(t) .. First(t) + PerPage - 1
          BY <3>6, <4>1 DEF Page
        <4>5. Rank(t, c) < First(t)
          BY <4>2, <4>3, <4>4
        <4> QED
          BY <1>1, <3>1, <3>6, <4>5 DEF TickAgrees, WrittenAgree, Written
      <3>7. WrittenAgree(t, c)'
        <4>1. Written(t, c)' => c \notin Page(t) /\ (~Full(t) \/ Rank(t, c) < First(t) + PerPage)
          BY <2>3, <2>7, <2>9, <2>12, <3>2 DEF Written, Left
        <4> QED
          BY <1>1, <2>1, <2>2, <2>9, <2>12, <3>6, <4>1 DEF WrittenAgree
      <3> QED
        BY <3>3, <3>4, <3>5, <3>7 DEF TickAgrees
    <2>16. ASSUME NEW u \in ErpTicks \ {t}, Running(u)', NEW c \in Customers
           PROVE  TickAgrees(u, c)'
      <3>1. erpTick'[u] = erpTick[u] /\ Running(u)
        BY <2>12, <2>14, <2>16
      <3> QED
        BY <1>1, <2>1, <2>14, <3>1, TickStays
    <2>17. TicksAgree'
      BY <2>15, <2>16 DEF TicksAgree
    <2> QED
      BY <2>12, <2>13, <2>17 DEF ErpSound
  <1> QED
    BY <1>2, <1>3

\* The answer has a least customer, and its value is a login or none.
LEMMA LeastLeft ==
    ASSUME ErpSound, NEW t \in ErpTicks, Left(t) # {}
    PROVE  /\ Least(Left(t)) \in Left(t) /\ Left(t) \subseteq Customers
           /\ erpTick[t].answer \in [Left(t) -> Values]
  <1>5. erpTick[t].answer \in Answers
    BY RowFields DEF ErpSound, ErpRows
  <1>1. PICK S \in SUBSET Customers : erpTick[t].answer \in [S -> Values]
    BY <1>5 DEF Answers
  <1>2. Left(t) = S /\ Left(t) \subseteq Nat
    BY <1>1, RowsAssumption DEF Left
  <1>3. \E c \in Left(t) : \A k \in Left(t) : c <= k
    BY <1>2, LeastNumber
  <1>4. Least(Left(t)) \in Left(t)
    BY <1>3, Zenon DEF Least
  <1> QED
    BY <1>1, <1>2, <1>4

\* One customer of the answer is done with; the tick has failed if that has.
LEMMA DoneFields ==
    ASSUME ErpSound, NEW t \in ErpTicks, NEW c \in Left(t), NEW ok \in BOOLEAN,
           erpTick[t].at = "upsert", Done(t, c, ok)
    PROVE  /\ TicksTyped' /\ \A u \in ErpTicks \ {t} : erpTick'[u] = erpTick[u]
           /\ erpTick'[t].at = "upsert" /\ erpTick'[t].page = erpTick[t].page
           /\ erpTick'[t].failed = (erpTick[t].failed \/ ~ok)
           /\ erpTick'[t].asked = erpTick[t].asked /\ erpTick'[t].fresh = erpTick[t].fresh
           /\ erpTick'[t].full = erpTick[t].full
           /\ Left(t)' = Left(t) \ {c}
           /\ \A k \in Left(t) \ {c} : erpTick'[t].answer[k] = erpTick[t].answer[k]
  <1>1. PICK x : x = erpTick[t]
    OBVIOUS
  <1>2. PICK L : L = Left(t) \ {c}
    OBVIOUS
  <1>3. PICK answer : answer = [k \in L |-> x.answer[k]]
    OBVIOUS
  <1>4. PICK y : y = [x EXCEPT !.answer = answer, !.failed = @ \/ ~ok]
    OBVIOUS
  <1>5. /\ x = [at |-> x.at, page |-> x.page, failed |-> x.failed, asked |-> x.asked,
                fresh |-> x.fresh, answer |-> x.answer, full |-> x.full]
        /\ x \in ErpRows
    BY <1>1, RowFields, Zenon DEF ErpSound
  <1>6. y = [at |-> x.at, page |-> x.page, failed |-> (x.failed \/ ~ok), asked |-> x.asked,
             fresh |-> x.fresh, answer |-> answer, full |-> x.full]
    BY <1>4, <1>5
  <1>7. L \subseteq Customers /\ x.answer \in [Left(t) -> Values]
    BY <1>1, <1>2, LeastLeft
  <1>8. answer \in Answers /\ DOMAIN answer = L
    BY <1>2, <1>3, <1>7 DEF Answers
  <1>9. y \in ErpRows
    BY <1>5, <1>6, <1>8 DEF ErpRows
  <1>10. erpTick' = [erpTick EXCEPT ![t] = y]
    <2>1. erpTick' = [erpTick EXCEPT ![t].answer = Restrict(@, L), ![t].failed = @ \/ ~ok]
      BY <1>2 DEF Done
    <2>2. Restrict(x.answer, L) = answer
      BY <1>3 DEF Restrict
    <2> QED
      BY <1>1, <1>4, <1>5, <2>1, <2>2 DEF ErpSound, TicksTyped
  <1>11. TicksTyped' /\ erpTick'[t] = y /\ \A u \in ErpTicks \ {t} : erpTick'[u] = erpTick[u]
    <2>1. TicksTyped /\ y.at # "over"
      BY <1>1, <1>6 DEF ErpSound
    <2> QED
      BY <1>9, <1>10, <2>1, OneTickMoves, Zenon
  <1>12. Left(t)' = L
    BY <1>6, <1>8, <1>11 DEF Left
  <1> QED
    BY <1>1, <1>2, <1>3, <1>6, <1>11, <1>12

\* One customer is done with, and written unless that failed.
LEMMA UpsertSound ==
    ASSUME ErpSound, NEW t \in ErpTicks, NEW c0 \in Left(t), NEW ok \in BOOLEAN,
           erpTick[t].at = "upsert", Done(t, c0, ok), TablesSound',
           UNCHANGED <<erp, modified, raced>>,
           customers' = IF ok THEN [customers EXCEPT ![c0] = erpTick[t].answer[c0]] ELSE customers
    PROVE  ErpSound'
  <1>1. Running(t) /\ c0 \in Customers
    BY LeastLeft DEF Running
  <1>2. /\ TicksTyped' /\ \A u \in ErpTicks \ {t} : erpTick'[u] = erpTick[u]
        /\ erpTick'[t].at = "upsert" /\ erpTick'[t].page = erpTick[t].page
        /\ erpTick'[t].failed = (erpTick[t].failed \/ ~ok)
        /\ erpTick'[t].asked = erpTick[t].asked /\ erpTick'[t].fresh = erpTick[t].fresh
        /\ erpTick'[t].full = erpTick[t].full
        /\ Left(t)' = Left(t) \ {c0}
        /\ \A k \in Left(t) \ {c0} : erpTick'[t].answer[k] = erpTick[t].answer[k]
    BY DoneFields
  <1>3. \A u \in ErpTicks : Running(u)' => Running(u) /\ erpTick'[u].fresh = erpTick[u].fresh
    BY <1>1, <1>2 DEF Running
  <1>4. /\ \A c \in Customers \ {c0} : customers'[c] = customers[c]
        /\ ~ok => customers'[c0] = customers[c0]
        /\ ok => customers'[c0] = erpTick[t].answer[c0]
    BY <1>1 DEF ErpSound, TablesSound
  <1>5. c0 \notin erpTick[t].fresh => erpTick[t].answer[c0] = erp[c0]
    BY <1>1, Agreeing DEF TickAgrees, AnswerIsCurrent
  <1>6. ASSUME NEW c \in Customers \ raced, customers[c] = erp[c], customers'[c] # erp[c]
        PROVE  c \in modified /\ \A u \in ErpTicks : Running(u) => c \in erpTick[u].fresh
    <2>1. c = c0 /\ c0 \in erpTick[t].fresh
      BY <1>4, <1>5, <1>6
    <2> QED
      BY <1>1, <1>6, <2>1, Agreeing DEF TickAgrees, FreshIsKept
  <1>7. NonePassed'
    BY <1>6 DEF ErpSound, NonePassed
  <1>8. ASSUME NEW c \in Customers PROVE TickAgrees(t, c)'
    <2>1. TickAgrees(t, c)
      BY <1>1, Agreeing
    <2>2. Listed(t)' = Listed(t) /\ First(t)' = First(t) /\ Rank(t, c)' = Rank(t, c)
      BY <1>2 DEF Listed, First, Rank
    <2>3. FreshIsKept(t, c)'
      BY <1>2, <1>3, <2>1 DEF TickAgrees, FreshIsKept
    <2>4. AnswerIsCurrent(t, c)'
      BY <1>2, <2>1 DEF TickAgrees, AnswerIsCurrent
    <2>5. OthersAgree(t, c)'
      BY <1>1, <1>6, <2>1, <2>2 DEF TickAgrees, OthersAgree, Listed
    <2>6. WrittenAgree(t, c)'
      <3>1. CASE c = c0
        BY <1>2, <1>4, <1>5, <3>1 DEF WrittenAgree
      <3>2. CASE c # c0
        <4>1. Written(t, c)' => Written(t, c)
          BY <1>2, <2>2, <3>2 DEF Written
        <4> QED
          BY <1>2, <1>4, <2>1, <3>2, <4>1 DEF TickAgrees, WrittenAgree
      <3> QED
        BY <3>1, <3>2
    <2> QED
      BY <2>3, <2>4, <2>5, <2>6 DEF TickAgrees
  <1>9. ASSUME NEW u \in ErpTicks \ {t}, Running(u)', NEW c \in Customers
        PROVE  TickAgrees(u, c)'
    <2>1. erpTick'[u] = erpTick[u] /\ Running(u)
      BY <1>2, <1>3, <1>9
    <2>2. c \notin erpTick[u].fresh \cup raced /\ customers[c] = erp[c] => customers'[c] = erp[c]
      BY <1>6, <2>1
    <2> QED
      BY <1>3, <2>1, <2>2, TickStays
  <1>10. TicksAgree'
    BY <1>8, <1>9 DEF TicksAgree
  <1> QED
    BY <1>2, <1>7, <1>10 DEF ErpSound

\* The unique key, upsert by upsert.
CustomersOK ==
    /\ customers \in [Customers -> Values \cup {NoRow}]
    /\ \A c, k \in Customers : customers[c] = customers[k] /\ c # k =>
           customers[c] \in {Missing, NoRow}

LEMMA RowWritten ==
    ASSUME CustomersOK, NEW c \in Customers, NEW login \in Values, WriteRow(c, login)
    PROVE  CustomersOK' /\ \A k \in Customers : customers[k] # NoRow => customers'[k] # NoRow
  <1>1. customers' = [customers EXCEPT ![c] = login] /\ ~Taken(c, login)
    BY DEF WriteRow
  <1>2. customers'[c] = login /\ \A k \in Customers \ {c} : customers'[k] = customers[k]
    BY <1>1 DEF CustomersOK
  <1>3. customers' \in [Customers -> Values \cup {NoRow}]
    BY <1>1 DEF CustomersOK
  <1>4. login # Missing => \A k \in Customers \ {c} : customers[k] # login
    BY <1>1 DEF Taken
  <1>5. ASSUME NEW k \in Customers, NEW m \in Customers, customers'[k] = customers'[m], k # m
        PROVE  customers'[k] \in {Missing, NoRow}
    BY <1>2, <1>4, <1>5 DEF CustomersOK
  <1>6. login # NoRow
    BY RowsAssumption DEF Values
  <1> QED
    BY <1>2, <1>3, <1>5, <1>6 DEF CustomersOK

LEMMA UpsertNextSound ==
    ASSUME ErpSound, NEW t \in ErpTicks, UpsertNext(t) PROVE ErpSound'
  <1> DEFINE c == Least(Left(t))
             login == erpTick[t].answer[c]
  <1>1. /\ erpTick[t].at = "upsert" /\ Left(t) # {}
        /\ IF Taken(c, login) THEN UNCHANGED customers ELSE WriteRow(c, login)
        /\ Done(t, c, ~Taken(c, login))
        /\ UNCHANGED <<counters, erp, modified, token, raced>>
    BY DEF UpsertNext
  <1>2. c \in Left(t) /\ c \in Customers /\ login \in Values
    BY <1>1, LeastLeft
  <1> HIDE DEF c, login
  <1>3. PICK ok \in BOOLEAN : ok = ~Taken(c, login)
    BY DEF Taken
  <1>4. customers' = IF ok THEN [customers EXCEPT ![c] = login] ELSE customers
    BY <1>1, <1>3 DEF WriteRow
  <1>5. CustomersOK
    BY DEF ErpSound, TablesSound, CustomersOK
  <1>6. CustomersOK'
    <2>1. CASE ok
      BY <1>1, <1>2, <1>3, <1>5, <2>1, RowWritten
    <2>2. CASE ~ok
      BY <1>4, <1>5, <2>2 DEF CustomersOK
    <2> QED
      BY <2>1, <2>2
  <1>7. TablesSound'
    BY <1>1, <1>6 DEF ErpSound, TablesSound, CustomersOK, counters
  <1>8. Done(t, c, ok)
    BY <1>1, <1>3
  <1> QED
    BY <1>1, <1>2, <1>4, <1>7, <1>8, UpsertSound DEF login

LEMMA UpsertFailsSound ==
    ASSUME ErpSound, NEW t \in ErpTicks, UpsertFails(t) PROVE ErpSound'
  <1>1. /\ erpTick[t].at = "upsert" /\ Left(t) # {} /\ Fault
        /\ Done(t, Least(Left(t)), FALSE)
        /\ UNCHANGED <<customers, edits, erp, modified, token, raced>>
    BY DEF UpsertFails
  <1>2. Least(Left(t)) \in Left(t)
    BY <1>1, LeastLeft
  <1>3. TablesSound'
    BY <1>1, RowsAssumption DEF ErpSound, TablesSound, Fault
  <1> QED
    BY <1>1, <1>2, <1>3, UpsertSound

LEMMA PageDoneSound ==
    ASSUME ErpSound, NEW t \in ErpTicks, PageDone(t) PROVE ErpSound'
  <1>1. erpTick[t].at = "upsert" /\ Left(t) = {} /\ Running(t)
          /\ UNCHANGED <<customers, counters, token>>
    BY DEF PageDone, Running
  <1>2. CASE erpTick[t].full
    <2>1. /\ erpTick' = [erpTick EXCEPT ![t].at = "page", ![t].page = @ + 1]
          /\ UNCHANGED <<erp, modified, raced>>
      BY <1>2 DEF PageDone
    <2>2. PICK x : x = erpTick[t]
      OBVIOUS
    <2>3. PICK y : y = [x EXCEPT !.at = "page", !.page = @ + 1]
      OBVIOUS
    <2>4. /\ x = [at |-> x.at, page |-> x.page, failed |-> x.failed, asked |-> x.asked,
                  fresh |-> x.fresh, answer |-> x.answer, full |-> x.full]
          /\ x \in ErpRows
      BY <2>2, RowFields, Zenon DEF ErpSound
    <2>5. y = [at |-> "page", page |-> x.page + 1, failed |-> x.failed, asked |-> x.asked,
               fresh |-> x.fresh, answer |-> x.answer, full |-> x.full]
      BY <2>3, <2>4
    <2>6. y \in ErpRows /\ x.page \in Nat
      BY <2>4, <2>5 DEF ErpRows
    <2>7. erpTick' = [erpTick EXCEPT ![t] = y]
      BY <2>1, <2>2, <2>3, <2>4 DEF ErpSound, TicksTyped
    <2>8. TicksTyped' /\ erpTick'[t] = y /\ \A u \in ErpTicks \ {t} : erpTick'[u] = erpTick[u]
      <3>1. TicksTyped /\ y.at # "over"
        BY <2>5 DEF ErpSound
      <3> QED
        BY <2>6, <2>7, <3>1, OneTickMoves, Zenon
    <2>9. TablesSound' /\ NonePassed'
      BY <1>1, <2>1 DEF ErpSound, TablesSound, NonePassed, counters
    <2>10. \A u \in ErpTicks : Running(u)' => Running(u) /\ erpTick'[u].fresh = erpTick[u].fresh
      BY <1>1, <2>2, <2>5, <2>8 DEF Running
    <2>11. ASSUME NEW c \in Customers PROVE TickAgrees(t, c)'
      <3>1. TickAgrees(t, c)
        BY <1>1, Agreeing
      <3>2. Listed(t)' = Listed(t) /\ Rank(t, c)' = Rank(t, c) /\ Left(t)' = {}
        BY <1>1, <2>2, <2>5, <2>8 DEF Listed, Rank, Left
      <3>3. First(t)' = First(t) + PerPage
        <4>1. ((x.page + 1) - 1) * PerPage = (x.page - 1) * PerPage + PerPage
          BY <2>6, ErpAssumption
        <4> QED
          BY <2>2, <2>5, <2>8, <4>1 DEF First
      <3>4. FreshIsKept(t, c)'
        <4>1. erpTick'[t].fresh = erpTick[t].fresh /\ FreshIsKept(t, c)
          BY <1>1, <2>2, <2>5, <2>8, <3>1 DEF TickAgrees
        <4> QED
          BY <2>1, <2>10, <4>1 DEF FreshIsKept
      <3>5. AnswerIsCurrent(t, c)'
        BY <3>2 DEF AnswerIsCurrent
      <3>6. OthersAgree(t, c)'
        BY <1>1, <2>1, <3>1, <3>2 DEF TickAgrees, OthersAgree
      <3>7. Written(t, c)' => Written(t, c)
        BY <1>1, <2>5, <2>8, <3>2, <3>3 DEF Written
      <3>8. WrittenAgree(t, c)'
        BY <1>1, <2>1, <2>2, <2>5, <2>8, <3>1, <3>7 DEF TickAgrees, WrittenAgree
      <3> QED
        BY <3>4, <3>5, <3>6, <3>8 DEF TickAgrees
    <2>12. ASSUME NEW u \in ErpTicks \ {t}, Running(u)', NEW c \in Customers
           PROVE  TickAgrees(u, c)'
      <3>1. erpTick'[u] = erpTick[u] /\ Running(u)
        BY <2>8, <2>10, <2>12
      <3> QED
        BY <1>1, <2>1, <2>10, <3>1, TickStays
    <2>13. TicksAgree'
      BY <2>11, <2>12 DEF TicksAgree
    <2> QED
      BY <2>8, <2>9, <2>13 DEF ErpSound
  <1>3. CASE ~erpTick[t].full
    <2>1. EndErpTick(t, erpTick[t].failed)
      BY <1>3 DEF PageDone
    <2>2. erpTick[t].fresh \subseteq Customers /\ erpTick[t].failed \in BOOLEAN
      BY RowFields DEF ErpSound, ErpRows
    <2>3. TablesSound'
      BY <1>1, <2>1, <2>2 DEF ErpSound, TablesSound, EndErpTick, SinceAfter, counters
    <2>4. ASSUME ~erpTick[t].failed, NEW c \in Customers \ raced, customers[c] # erp[c]
          PROVE  c \in erpTick[t].fresh
      <3>1. TickAgrees(t, c)
        BY <1>1, Agreeing
      <3>2. c \in Listed(t)
        BY <2>4, <3>1 DEF TickAgrees, OthersAgree
      <3>3. Written(t, c)
        BY <1>1, <1>3 DEF Written
      <3> QED
        BY <2>4, <3>1, <3>2, <3>3 DEF TickAgrees, WrittenAgree, Listed
    <2> QED
      BY <1>1, <2>1, <2>2, <2>3, <2>4, TickEnds
  <1> QED
    BY <1>2, <1>3

LEMMA ErpTickFailsSound ==
    ASSUME ErpSound, NEW t \in ErpTicks, NEW held \in {token, "none"}, ErpTickFails(t, held)
    PROVE  ErpSound'
  <1>1. Running(t) /\ Fault /\ token' = held /\ EndErpTick(t, TRUE)
          /\ UNCHANGED <<customers, edits>>
    BY DEF ErpTickFails
  <1>2. TablesSound'
    BY <1>1, RowsAssumption DEF ErpSound, TablesSound, Fault, EndErpTick, SinceAfter
  <1> QED
    BY <1>1, <1>2, TickEnds

LEMMA ErpRestartSound == ASSUME ErpSound, ErpRestart PROVE ErpSound'
  <1>1. /\ Fault /\ modified' = Customers /\ raced' = {}
        /\ erpTick' = [t \in ErpTicks |-> Resting] /\ token' = "none"
        /\ UNCHANGED <<customers, edits, erp>>
    BY DEF ErpRestart
  <1>3. TicksTyped' /\ \A t \in ErpTicks : ~Running(t)'
    BY <1>1, RestingTyped DEF TicksTyped, Running, ErpTicks
  <1>4. TablesSound'
    BY <1>1, RowsAssumption DEF ErpSound, TablesSound, Fault
  <1> QED
    BY <1>1, <1>3, <1>4 DEF ErpSound, NonePassed, TicksAgree

LEMMA EditCustomersSound ==
    ASSUME ErpSound, NEW logins \in [Customers -> Values], EditCustomers(logins)
    PROVE  ErpSound'
  <1>1. PICK changed : changed = {c \in Customers : logins[c] # erp[c]}
    OBVIOUS
  <1>2. /\ Edited /\ erp' = logins /\ modified' = modified \cup changed
        /\ erpTick' = [t \in ErpTicks |-> IF Running(t)
                         THEN [erpTick[t] EXCEPT !.fresh = @ \cup changed] ELSE erpTick[t]]
        /\ raced' = raced \ changed
        /\ UNCHANGED <<customers, token, faults>>
    BY <1>1 DEF EditCustomers
  <1>3. changed \subseteq Customers /\ \A c \in Customers \ changed : erp'[c] = erp[c]
    BY <1>1, <1>2
  <1>4. TablesSound'
    BY <1>2, <1>3, RowsAssumption DEF ErpSound, TablesSound, Edited
  <1>5. ASSUME NEW t \in ErpTicks
        PROVE  /\ erpTick'[t] \in ErpRows /\ Running(t)' = Running(t)
               /\ erpTick'[t].at = erpTick[t].at
               /\ erpTick'[t].page = erpTick[t].page /\ erpTick'[t].failed = erpTick[t].failed
               /\ erpTick'[t].asked = erpTick[t].asked /\ erpTick'[t].full = erpTick[t].full
               /\ erpTick'[t].answer = erpTick[t].answer
               /\ Running(t) => erpTick'[t].fresh = erpTick[t].fresh \cup changed
    <2>1. PICK x : x = erpTick[t]
      OBVIOUS
    <2>2. /\ x = [at |-> x.at, page |-> x.page, failed |-> x.failed, asked |-> x.asked,
                  fresh |-> x.fresh, answer |-> x.answer, full |-> x.full]
          /\ x \in ErpRows
      BY <2>1, RowFields, Zenon DEF ErpSound
    <2>3. CASE ~Running(t)
      BY <1>2, <2>1, <2>2, <2>3 DEF Running
    <2>4. CASE Running(t)
      <3>1. PICK y : y = [x EXCEPT !.fresh = @ \cup changed]
        OBVIOUS
      <3>2. y = [at |-> x.at, page |-> x.page, failed |-> x.failed, asked |-> x.asked,
                 fresh |-> x.fresh \cup changed, answer |-> x.answer, full |-> x.full]
        BY <2>2, <3>1
      <3>3. y \in ErpRows
        BY <1>3, <2>2, <3>2 DEF ErpRows
      <3>4. erpTick'[t] = y
        BY <1>2, <2>1, <2>4, <3>1
      <3> QED
        BY <2>1, <3>2, <3>3, <3>4 DEF Running
    <2> QED
      BY <2>3, <2>4
  <1>6. TicksTyped'
    BY <1>2, <1>5 DEF ErpSound, TicksTyped, ErpTicks
  <1>7. NonePassed'
    BY <1>2, <1>3 DEF ErpSound, NonePassed
  <1>8. ASSUME NEW t \in ErpTicks, Running(t)', NEW c \in Customers PROVE TickAgrees(t, c)'
    <2>1. TickAgrees(t, c) /\ Running(t)
      BY <1>5, <1>8, Agreeing
    <2>2. Listed(t)' = Listed(t) \cup changed /\ First(t)' = First(t) /\ Left(t)' = Left(t)
      BY <1>5, <2>1 DEF Listed, First, Left
    <2>3. FreshIsKept(t, c)'
      <3>1. ASSUME c \in erpTick'[t].fresh \ raced'
            PROVE  c \in modified' /\ \A u \in ErpTicks : Running(u)' => c \in erpTick'[u].fresh
        <4>1. CASE c \in changed
          BY <1>2, <1>5, <4>1
        <4>2. CASE c \notin changed
          <5>1. c \in erpTick[t].fresh \ raced
            BY <1>2, <1>5, <2>1, <3>1, <4>2
          <5> QED
            BY <1>2, <1>5, <2>1, <5>1 DEF TickAgrees, FreshIsKept
        <4> QED
          BY <4>1, <4>2
      <3> QED
        BY <3>1 DEF FreshIsKept
    <2>4. AnswerIsCurrent(t, c)'
      BY <1>3, <1>5, <2>1, <2>2 DEF TickAgrees, AnswerIsCurrent
    <2>5. OthersAgree(t, c)'
      BY <1>2, <1>3, <2>1, <2>2 DEF TickAgrees, OthersAgree
    <2>6. Rank(t, c) <= Rank(t, c)' /\ Rank(t, c) \in Nat /\ Rank(t, c)' \in Nat
      <3>1. Listed(t) \subseteq Nat /\ Listed(t)' \subseteq Nat /\ c \in Nat
        BY <1>3, <2>2, ListType, RowsAssumption DEF ErpSound
      <3>2. RankIn(Listed(t), c) <= RankIn(Listed(t)', c)
        BY <2>2, <3>1, RankMonotone
      <3>3. RankIn(Listed(t), c) \in Nat /\ RankIn(Listed(t)', c) \in Nat
        BY <3>1, RankType
      <3>4. Rank(t, c) = RankIn(Listed(t), c) /\ Rank(t, c)' = RankIn(Listed(t)', c)
        BY DEF Rank, RankIn
      <3> QED
        BY <3>2, <3>3, <3>4
    <2>7. Written(t, c)' => Written(t, c)
      <3>1. First(t) \in Nat /\ PerPage \in Nat
        BY ListType DEF ErpSound
      <3> QED
        BY <1>5, <2>2, <2>6, <3>1 DEF Written
    <2>8. WrittenAgree(t, c)'
      <3>1. c \in erpTick'[t].asked \ (erpTick'[t].fresh \cup raced') =>
                c \in erpTick[t].asked \ (erpTick[t].fresh \cup raced) /\ c \notin changed
        BY <1>2, <1>5, <2>1
      <3> QED
        BY <1>2, <1>3, <1>5, <2>1, <2>7, <3>1 DEF TickAgrees, WrittenAgree
    <2> QED
      BY <2>3, <2>4, <2>5, <2>8 DEF TickAgrees
  <1>9. TicksAgree'
    BY <1>8 DEF TicksAgree
  <1> QED
    BY <1>4, <1>6, <1>7, <1>9 DEF ErpSound

\* A step that leaves all but the token and the counters alone.
LEMMA ErpUntouched ==
    ASSUME ErpSound, UNCHANGED <<customers, erp, modified, erpTick, raced>>, TablesSound'
    PROVE  ErpSound'
  <1>1. TicksTyped' /\ NonePassed'
    BY DEF ErpSound, TicksTyped, NonePassed
  <1>2. ASSUME NEW u \in ErpTicks, Running(u)', NEW c \in Customers PROVE TickAgrees(u, c)'
    BY <1>2, TickStays DEF Running
  <1> QED
    BY <1>1, <1>2 DEF ErpSound, TicksAgree

LEMMA ErpSoundStep == ASSUME ErpSound, [ErpNext]_erpVars PROVE ErpSound'
  <1>1. CASE \E t \in ErpTicks : ErpStep(t) \/ UpsertFails(t)
    BY <1>1, StartErpTickSound, AskPageSound, UpsertNextSound, PageDoneSound, UpsertFailsSound
       DEF ErpStep
  <1>2. CASE \E t \in ErpTicks, held \in {token, "none"} : ErpTickFails(t, held)
    BY <1>2, ErpTickFailsSound
  <1>3. CASE ErpRestart
    BY <1>3, ErpRestartSound
  <1>4. CASE Revoke
    <2>1. TablesSound'
      BY <1>4, RowsAssumption DEF ErpSound, TablesSound, Revoke, Fault
    <2> QED
      BY <1>4, <2>1, ErpUntouched DEF Revoke
  <1>5. CASE \E logins \in [Customers -> Logins \cup {Missing}] : EditCustomers(logins)
    BY <1>5, EditCustomersSound DEF Values
  <1>6. CASE UNCHANGED erpVars
    BY <1>6, ErpUntouched DEF erpVars, erpOnly, counters, ErpSound, TablesSound
  <1> QED
    BY <1>1, <1>2, <1>3, <1>4, <1>5, <1>6 DEF ErpNext

LEMMA ErpSoundInit == ErpInit => ErpSound
  <1> SUFFICES ASSUME ErpInit PROVE ErpSound
    OBVIOUS
  <1>1. TablesSound
    BY ErpAssumption, RowsAssumption DEF ErpInit, RowsInit, TablesSound, Values
  <1>2. Resting \in ErpRows /\ Resting.at = "idle"
    BY RestingTyped
  <1>3. TicksTyped /\ \A t \in ErpTicks : ~Running(t)
    BY <1>2 DEF ErpInit, TicksTyped, ErpTicks, Running
  <1> QED
    BY <1>1, <1>3 DEF ErpInit, ErpSound, NonePassed, TicksAgree

\* No login is in the table twice (erp_sync.go:115), however the two ticks, the ERP's
\* edits, failures and restarts interleave.
THEOREM ErpTypeCorrect == ErpSpec => []ErpTypeOK
  <1>1. ErpInit => ErpSound
    BY ErpSoundInit
  <1>2. ErpSound /\ [ErpNext]_erpVars => ErpSound'
    BY ErpSoundStep
  <1>3. ErpSound => ErpTypeOK
    <2> SUFFICES ASSUME ErpSound PROVE ErpTypeOK
      OBVIOUS
    <2>1. RowsTypeOK
      BY DEF ErpSound, TablesSound, RowsTypeOK, Values
    <2> QED
      BY <2>1 DEF ErpSound, TablesSound, TicksTyped, ErpTicks, ErpRows, ErpTypeOK, Values
  <1> QED
    BY <1>1, <1>2, <1>3, PTL DEF ErpSpec

\* The watermark of erp_sync.go:114 passes no customer: a row that does not say what the
\* ERP says is one that the ERP will list again, for any number of customers, any page
\* size, and whatever is refused, lost or edited while the two ticks go through their
\* pages, but for the customers edited between the starts of overlapping ticks.
THEOREM WatermarkPassesNone == ErpSpec => []NonePassed
  <1>1. ErpInit => ErpSound
    BY ErpSoundInit
  <1>2. ErpSound /\ [ErpNext]_erpVars => ErpSound'
    BY ErpSoundStep
  <1>3. ErpSound => NonePassed
    BY DEF ErpSound
  <1> QED
    BY <1>1, <1>2, <1>3, PTL DEF ErpSpec

-----------------------------------------------------------------------------
(* The inventory: what links to what.                                      *)

Readings == {Reading[r] : r \in Reports}
Linkable == {Missing} \cup {c \in Customers : customers[c] # NoRow}

DeviceRows == [model : models \cup {Missing}, customer : Linkable,
               login : {x.login : x \in Readings}, status : {x.status : x \in Readings},
               facts : {x.facts : x \in Readings}]

VendorRows == {Seed[v] : v \in DOMAIN Seed} \cup VendorForms
                \cup {[slug |-> Slug[name], name |-> name] : name \in DOMAIN Slug}

Stages == {"idle", "devices", "create", "again", "model", "customer", "existing", "upsert"}

TickRows == [at : Stages, todo : SUBSET (Devices \X Reports),
             cache : SUBSET ({Slug[name] : name \in DOMAIN Slug} \X Known(VendorIds)),
             device : Devices \cup {Missing}, report : Readings \cup {Missing},
             vendor : VendorIds \cup {NoVendor}, model : models \cup {Missing},
             customer : Linkable]

\* What a tick has in hand at each of its statements.
TickOK(x) ==
    /\ x \in TickRows
    /\ x.at \notin {"idle", "devices"} => x.device \in Devices /\ x.report \in Readings
    /\ x.at \in {"create", "again"} => x.report.manufacturer \in DOMAIN Slug
    /\ x.at = "model" => x.vendor \in Known(VendorIds)

RowsOK == row \in [Devices -> DeviceRows \cup {NoRow}]
VendorsOK ==
    /\ vendor \in [VendorIds -> VendorRows \cup {NoVendor}]
    /\ \A v, w \in Known(VendorIds) :
         v # w => vendor[v].slug # vendor[w].slug /\ vendor[v].name # vendor[w].name
ModelsOK == \A m \in models : m[1] \in Known(VendorIds)
TicksOK  == tick = [t \in Ticks |-> tick[t]] /\ \A t \in Ticks : TickOK(tick[t])
DeletionOK ==
    /\ deletion \in [at : {"idle", "acs", "row"}, device : Devices \cup {Missing}]
    /\ deletion.at # "idle" => deletion.device \in Devices

InventorySound ==
    /\ acs \in [Devices -> Reports \cup {Unknown}]
    /\ RowsOK /\ VendorsOK /\ ModelsOK /\ TicksOK /\ DeletionOK

\* Vendors, models and customers are never deleted: what links to them stays linked.
Growing ==
    /\ Known(VendorIds) \subseteq Known(VendorIds)'
    /\ models \subseteq models'
    /\ Linkable \subseteq Linkable'

LEMMA TickRowStays ==
    ASSUME Growing, NEW x, TickOK(x) PROVE TickOK(x)'
  <1>1. x \in TickRows'
    <2>1. x \in TickRows
      BY DEF TickOK
    <2>2. TickRows \subseteq TickRows'
      BY DEF TickRows, Growing, Readings
    <2> QED
      BY <2>1, <2>2
  <1> QED
    BY <1>1 DEF TickOK, Growing, Readings

LEMMA TicksStay ==
    ASSUME TicksOK, Growing, UNCHANGED tick PROVE TicksOK'
  <1>1. ASSUME NEW t \in Ticks PROVE TickOK(tick[t])'
    <2>1. PICK x : x = tick[t]
      OBVIOUS
    <2>2. TickOK(x)'
      BY <2>1, TickRowStays DEF TicksOK
    <2> QED
      BY <2>1, <2>2
  <1> QED
    BY <1>1 DEF TicksOK

LEMMA TickMoves ==
    ASSUME TicksOK, Growing, NEW t \in Ticks, NEW x, TickOK(x)', tick' = [tick EXCEPT ![t] = x]
    PROVE  TicksOK'
  <1>1. tick' = [u \in Ticks |-> IF u = t THEN x ELSE tick[u]]
    BY DEF TicksOK
  <1>2. ASSUME NEW u \in Ticks PROVE TickOK(tick[u])'
    <2>1. CASE u = t
      BY <1>1, <2>1
    <2>2. CASE u # t
      <3>1. PICK y : y = tick[u]
        OBVIOUS
      <3>2. TickOK(y)' /\ tick'[u] = y
        BY <1>1, <2>2, <3>1, TickRowStays DEF TicksOK
      <3> QED
        BY <3>2
    <2> QED
      BY <2>1, <2>2
  <1> QED
    BY <1>1, <1>2 DEF TicksOK

LEMMA RowsStay == ASSUME RowsOK, Growing, UNCHANGED row PROVE RowsOK'
  <1>1. DeviceRows \subseteq DeviceRows'
    BY DEF DeviceRows, Growing, Readings
  <1> QED
    BY <1>1 DEF RowsOK

LEMMA NothingGrows ==
    ASSUME UNCHANGED <<vendor, models, customers>> PROVE Growing
  BY DEF Growing, Known, Linkable

-----------------------------------------------------------------------------
(* The steps of a tick.                                                    *)

LEMMA ReadingType ==
    ASSUME NEW r \in Reports
    PROVE  /\ Reading[r] \in Readings
           /\ Reading[r].manufacturer \in DOMAIN Slug \cup {Missing}
           /\ Reading[r].login # NoRow
  BY InventoryAssumption DEF Readings

LEMMA IdleOK == TickOK(Idle) /\ TickOK(Idle)'
  <1>1. NoVendor \in VendorIds \cup {NoVendor} /\ Missing \in Linkable /\ Missing \in Linkable'
    BY DEF Linkable
  <1> QED
    BY <1>1 DEF TickOK, TickRows, Idle, Stages

\* After a device the tick keeps its list and what it knows of the vendors.
LEMMA NextDeviceOK ==
    ASSUME TicksOK, Growing, NEW t \in Ticks, NextDevice(t) PROVE TicksOK'
  <1>1. CASE tick[t].todo = {}
    BY <1>1, IdleOK, TickMoves DEF NextDevice
  <1>2. CASE tick[t].todo # {}
    <2> DEFINE x == [Idle EXCEPT !.at = "devices", !.todo = tick[t].todo, !.cache = tick[t].cache]
    <2>1. x = [at |-> "devices", todo |-> tick[t].todo, cache |-> tick[t].cache,
               device |-> Missing, report |-> Missing, vendor |-> NoVendor, model |-> Missing,
               customer |-> Missing]
      <3>1. PICK a, b : a = tick[t].todo /\ b = tick[t].cache
        OBVIOUS
      <3>2. x = [Idle EXCEPT !.at = "devices", !.todo = a, !.cache = b]
        BY <3>1
      <3> HIDE DEF x
      <3>3. x = [at |-> "devices", todo |-> a, cache |-> b, device |-> Missing,
                 report |-> Missing, vendor |-> NoVendor, model |-> Missing,
                 customer |-> Missing]
        BY <3>2 DEF Idle
      <3> QED
        BY <3>1, <3>3
    <2>2. /\ tick[t].todo \in SUBSET (Devices \X Reports)
          /\ tick[t].cache \in SUBSET ({Slug[name] : name \in DOMAIN Slug} \X Known(VendorIds))
      BY DEF TicksOK, TickOK, TickRows
    <2>3. TickOK(x)
      BY <2>1, <2>2 DEF TickOK, TickRows, Stages, Linkable
    <2>4. PICK y : y = x
      OBVIOUS
    <2>5. TickOK(y)'
      BY <2>3, <2>4, TickRowStays
    <2> QED
      BY <1>2, <2>4, <2>5, TickMoves DEF NextDevice
  <1> QED
    BY <1>1, <1>2

\* A tick's step that writes nothing in the tables.
LEMMA TickOnly ==
    ASSUME InventorySound, UNCHANGED <<acs, row, vendor, models, deletion, customers>>, TicksOK'
    PROVE  InventorySound'
  <1>1. Growing
    BY NothingGrows
  <1>2. RowsOK'
    BY <1>1, RowsStay DEF InventorySound
  <1>3. VendorsOK' /\ ModelsOK' /\ DeletionOK'
    BY DEF InventorySound, VendorsOK, ModelsOK, DeletionOK, Known
  <1> QED
    BY <1>2, <1>3 DEF InventorySound

LEMMA StartTickSound ==
    ASSUME InventorySound, NEW t \in Ticks, StartTick(t) PROVE InventorySound'
  <1> DEFINE snapshot == {<<d, acs[d]>> : d \in {e \in Devices : acs[e] # Unknown}}
  <1>1. UNCHANGED <<acs, row, vendor, models, deletion, customers>>
    BY DEF StartTick, inventoryVars
  <1>2. snapshot \in SUBSET (Devices \X Reports)
    BY DEF InventorySound
  <1> HIDE DEF snapshot
  <1>3. CASE snapshot = {}
    <2>1. tick' = [tick EXCEPT ![t] = Idle]
      BY <1>3 DEF StartTick, snapshot
    <2>2. Growing
      BY <1>1, NothingGrows
    <2>3. TicksOK'
      BY <2>1, <2>2, IdleOK, TickMoves DEF InventorySound
    <2> QED
      BY <1>1, <2>3, TickOnly
  <1>4. CASE snapshot # {}
    <2> DEFINE x == [Idle EXCEPT !.at = "devices", !.todo = snapshot]
    <2>1. PICK y : y = x
      OBVIOUS
    <2>2. y = [at |-> "devices", todo |-> snapshot, cache |-> {}, device |-> Missing,
               report |-> Missing, vendor |-> NoVendor, model |-> Missing,
               customer |-> Missing]
      BY <2>1 DEF Idle
    <2>3. TickOK(y)
      BY <1>2, <2>2 DEF TickOK, TickRows, Stages, Linkable
    <2>4. TickOK(y)' /\ Growing
      BY <1>1, <2>3, NothingGrows, TickRowStays
    <2>5. tick' = [tick EXCEPT ![t] = y]
      BY <1>4, <2>1 DEF StartTick, snapshot
    <2>6. TicksOK'
      BY <2>4, <2>5, TickMoves DEF InventorySound
    <2> QED
      BY <1>1, <2>6, TickOnly
  <1> QED
    BY <1>3, <1>4

\* A step that fills in what is in hand: every field is as before but those named.
LEMMA TickRowFields ==
    ASSUME TicksOK, NEW t \in Ticks
    PROVE  /\ tick[t] = [at |-> tick[t].at, todo |-> tick[t].todo, cache |-> tick[t].cache,
                         device |-> tick[t].device, report |-> tick[t].report,
                         vendor |-> tick[t].vendor, model |-> tick[t].model,
                         customer |-> tick[t].customer]
           /\ TickOK(tick[t]) /\ tick[t] \in TickRows
  BY DEF TicksOK, TickOK, TickRows

LEMMA FoundVendorOK ==
    ASSUME TicksOK, Growing, NEW t \in Ticks, NEW name \in DOMAIN Slug,
           NEW v \in VendorIds, v \in Known(VendorIds)', NEW begun,
           begun \in TickRows, begun.device \in Devices, begun.report \in Readings,
           FoundVendor(t, Slug[name], v, begun)
    PROVE  TicksOK'
  <1> DEFINE cache == Cached(t, Slug[name], v)
  <1>1. PICK y : y = [begun EXCEPT !.at = "model", !.vendor = v, !.cache = cache]
    OBVIOUS
  <1>2. begun = [at |-> begun.at, todo |-> begun.todo, cache |-> begun.cache,
                 device |-> begun.device, report |-> begun.report, vendor |-> begun.vendor,
                 model |-> begun.model, customer |-> begun.customer]
    BY DEF TickRows
  <1>3. y = [at |-> "model", todo |-> begun.todo, cache |-> cache, device |-> begun.device,
             report |-> begun.report, vendor |-> v, model |-> begun.model,
             customer |-> begun.customer]
    BY <1>1, <1>2
  <1>4. tick[t].cache \subseteq {Slug[n] : n \in DOMAIN Slug} \X Known(VendorIds)
    BY TickRowFields DEF TickRows
  <1>5. Known(VendorIds) \subseteq Known(VendorIds)'
    BY DEF Growing
  <1>6. cache \in SUBSET ({Slug[n] : n \in DOMAIN Slug} \X Known(VendorIds)')
    BY <1>4, <1>5 DEF Cached
  <1> HIDE DEF cache
  <1>7. begun \in TickRows'
    BY DEF TickRows, Growing, Readings
  <1>8. TickOK(y)'
    BY <1>3, <1>6, <1>7 DEF TickOK, TickRows, Stages, Readings
  <1>9. tick' = [tick EXCEPT ![t] = y]
    BY <1>1 DEF FoundVendor, cache
  <1> QED
    BY <1>8, <1>9, TickMoves

LEMMA BeginDeviceSound ==
    ASSUME InventorySound, NEW t \in Ticks, NEW d \in Devices, NEW r \in Reports,
           BeginDevice(t, d, r)
    PROVE  InventorySound'
  <1> DEFINE read  == Reading[r]
             begun == [tick[t] EXCEPT !.device = d, !.report = read, !.todo = @ \ {<<d, r>>}]
             slug  == Slug[read.manufacturer]
             found == IF Vendors(t, slug) # {} THEN Vendors(t, slug) ELSE WithSlug(slug)
  <1>1. UNCHANGED <<acs, row, vendor, models, deletion, customers>>
    BY DEF BeginDevice, inventoryVars
  <1>2. Growing
    BY <1>1, NothingGrows
  <1>3. TicksOK
    BY DEF InventorySound
  <1>4. begun = [at |-> tick[t].at, todo |-> tick[t].todo \ {<<d, r>>}, cache |-> tick[t].cache,
                 device |-> d, report |-> read, vendor |-> tick[t].vendor,
                 model |-> tick[t].model, customer |-> tick[t].customer]
    <2>1. PICK x : x = tick[t]
      OBVIOUS
    <2>2. x = [at |-> x.at, todo |-> x.todo, cache |-> x.cache, device |-> x.device,
               report |-> x.report, vendor |-> x.vendor, model |-> x.model,
               customer |-> x.customer]
      BY <1>3, <2>1, TickRowFields, Zenon
    <2>3. begun = [x EXCEPT !.device = d, !.report = read, !.todo = @ \ {<<d, r>>}]
      BY <2>1
    <2> HIDE DEF begun, read
    <2>4. begun = [at |-> x.at, todo |-> x.todo \ {<<d, r>>}, cache |-> x.cache,
                   device |-> d, report |-> read, vendor |-> x.vendor,
                   model |-> x.model, customer |-> x.customer]
      BY <2>2, <2>3
    <2> QED
      BY <2>1, <2>4
  <1>5. read \in Readings /\ read.manufacturer \in DOMAIN Slug \cup {Missing}
    BY ReadingType
  <1>6. tick[t] \in TickRows
    BY <1>3, TickRowFields
  <1> HIDE DEF read
  <1>7. begun \in TickRows /\ begun.device = d /\ begun.report = read
    BY <1>4, <1>5, <1>6 DEF TickRows
  <1>8. ASSUME NEW at \in {"customer", "create"}, tick' = [tick EXCEPT ![t] = [begun EXCEPT !.at = at]],
               at = "create" => read.manufacturer \in DOMAIN Slug
        PROVE  TicksOK'
    <2>1. PICK y : y = [begun EXCEPT !.at = at]
      OBVIOUS
    <2>2. y = [at |-> at, todo |-> tick[t].todo \ {<<d, r>>}, cache |-> tick[t].cache,
               device |-> d, report |-> read, vendor |-> tick[t].vendor,
               model |-> tick[t].model, customer |-> tick[t].customer]
      BY <1>4, <2>1
    <2>3. y \in TickRows
      BY <1>5, <1>6, <2>2 DEF TickRows, Stages
    <2>4. TickOK(y)
      BY <1>5, <1>8, <2>2, <2>3 DEF TickOK
    <2> QED
      BY <1>2, <1>3, <1>8, <2>1, <2>4, TickRowStays, TickMoves
  <1>9. ASSUME read.manufacturer # Missing, NEW v \in found, FoundVendor(t, slug, v, begun)
        PROVE  TicksOK'
    <2>1. tick[t].cache \subseteq {Slug[n] : n \in DOMAIN Slug} \X Known(VendorIds)
      BY <1>6 DEF TickRows
    <2>2. v \in Known(VendorIds)
      BY <1>9, <2>1 DEF Vendors, WithSlug
    <2>3. v \in VendorIds /\ v \in Known(VendorIds)'
      BY <1>2, <2>2 DEF Known, Growing
    <2>4. read.manufacturer \in DOMAIN Slug
      BY <1>5, <1>9
    <2> HIDE DEF begun
    <2> QED
      BY <1>2, <1>3, <1>5, <1>7, <1>9, <2>3, <2>4, FoundVendorOK
  <1>10. TicksOK'
    <2>1. CASE read.manufacturer = Missing \/ read.model = Missing
      BY <1>8, <2>1 DEF BeginDevice, read
    <2>2. CASE ~(read.manufacturer = Missing \/ read.model = Missing)
      <3>1. CASE found = {}
        BY <1>5, <1>8, <2>2, <3>1 DEF BeginDevice, read
      <3>2. CASE found # {}
        BY <1>9, <2>2, <3>2 DEF BeginDevice, read
      <3> QED
        BY <3>1, <3>2
    <2> QED
      BY <2>1, <2>2
  <1> QED
    BY <1>1, <1>10, TickOnly

\* A vendor that is written leaves the slugs and names unique, and none behind.
LEMMA VendorWritten ==
    ASSUME VendorsOK, NEW v \in VendorIds, NEW new \in VendorRows, new # NoVendor,
           ~Duplicate(v, new.slug, new.name), vendor' = [vendor EXCEPT ![v] = new]
    PROVE  VendorsOK' /\ Known(VendorIds)' = Known(VendorIds) \cup {v}
  <1>1. vendor' = [w \in VendorIds |-> IF w = v THEN new ELSE vendor[w]]
    BY DEF VendorsOK
  <1>2. vendor' \in [VendorIds -> VendorRows \cup {NoVendor}]
    BY <1>1 DEF VendorsOK
  <1>3. Known(VendorIds)' = Known(VendorIds) \cup {v}
    BY <1>1 DEF Known
  <1>4. ASSUME NEW w \in Known(VendorIds), w # v
        PROVE  vendor[w].slug # new.slug /\ vendor[w].name # new.name
    BY <1>4 DEF Duplicate
  <1>5. ASSUME NEW u \in Known(VendorIds)', NEW w \in Known(VendorIds)', u # w
        PROVE  vendor'[u].slug # vendor'[w].slug /\ vendor'[u].name # vendor'[w].name
    <2>1. CASE u = v
      <3>1. vendor'[u] = new /\ vendor'[w] = vendor[w] /\ w \in Known(VendorIds)
        BY <1>1, <1>3, <1>5, <2>1 DEF Known
      <3> QED
        BY <1>4, <1>5, <2>1, <3>1
    <2>2. CASE w = v
      <3>1. vendor'[w] = new /\ vendor'[u] = vendor[u] /\ u \in Known(VendorIds)
        BY <1>1, <1>3, <1>5, <2>2 DEF Known
      <3> QED
        BY <1>4, <1>5, <2>2, <3>1
    <2>3. CASE u # v /\ w # v
      <3>1. vendor'[w] = vendor[w] /\ vendor'[u] = vendor[u]
        BY <1>1, <2>3 DEF Known
      <3>2. u \in Known(VendorIds) /\ w \in Known(VendorIds)
        BY <1>3, <2>3
      <3> QED
        BY <1>5, <3>1, <3>2 DEF VendorsOK
    <2> QED
      BY <2>1, <2>2, <2>3
  <1> QED
    BY <1>2, <1>3, <1>5 DEF VendorsOK

LEMMA CreateVendorSound ==
    ASSUME InventorySound, NEW t \in Ticks, NEW v \in VendorIds, CreateVendor(t, v)
    PROVE  InventorySound' /\ Growing
  <1> DEFINE name == tick[t].report.manufacturer
             slug == Slug[name]
             new  == [slug |-> slug, name |-> name]
  <1>1. TicksOK /\ TickOK(tick[t]) /\ tick[t] \in TickRows /\ tick[t].at = "create"
    BY TickRowFields DEF InventorySound, CreateVendor
  <1>2. name \in DOMAIN Slug /\ tick[t].device \in Devices /\ tick[t].report \in Readings
    BY <1>1 DEF TickOK
  <1>3. UNCHANGED <<acs, row, models, deletion, customers>>
    BY DEF CreateVendor
  <1>4. CASE Duplicate(NoVendor, slug, name)
    <2>1. UNCHANGED vendor /\ Goes(t, "again")
      BY <1>4 DEF CreateVendor
    <2>2. Growing
      BY <1>3, <2>1, NothingGrows
    <2>3. PICK x : x = tick[t]
      OBVIOUS
    <2>4. PICK y : y = [x EXCEPT !.at = "again"]
      OBVIOUS
    <2>5. x \in TickRows /\ x.device \in Devices /\ x.report \in Readings
            /\ x.report.manufacturer \in DOMAIN Slug
      BY <1>1, <1>2, <2>3
    <2>6. TickOK(y)
      BY <2>4, <2>5 DEF TickOK, TickRows, Stages
    <2>7. tick' = [tick EXCEPT ![t] = y]
      BY <1>1, <2>1, <2>3, <2>4 DEF Goes
    <2>8. TicksOK'
      BY <1>1, <2>2, <2>6, <2>7, TickRowStays, TickMoves
    <2> QED
      BY <1>3, <2>1, <2>2, <2>8, TickOnly
  <1>5. CASE ~Duplicate(NoVendor, slug, name)
    <2>1. vendor[v] = NoVendor /\ vendor' = [vendor EXCEPT ![v] = new]
            /\ FoundVendor(t, slug, v, tick[t])
      BY <1>5 DEF CreateVendor
    <2>2. new \in VendorRows /\ new # NoVendor
      BY <1>2, InventoryAssumption DEF VendorRows
    <2>3. ~Duplicate(v, new.slug, new.name)
      <3>1. ~Duplicate(v, slug, name)
        BY <1>5, InventoryAssumption DEF Duplicate, Known
      <3> QED
        BY <3>1
    <2>4. VendorsOK' /\ Known(VendorIds)' = Known(VendorIds) \cup {v}
      BY <2>1, <2>2, <2>3, VendorWritten DEF InventorySound
    <2>5. Growing
      BY <1>3, <2>4 DEF Growing, Linkable
    <2>6. RowsOK'
      BY <1>3, <2>5, RowsStay DEF InventorySound
    <2>7. ModelsOK' /\ DeletionOK' /\ acs' \in [Devices -> Reports \cup {Unknown}]
      BY <1>3, <2>4 DEF InventorySound, ModelsOK, DeletionOK
    <2>8. PICK begun : begun = tick[t]
      OBVIOUS
    <2>9. begun \in TickRows /\ begun.device \in Devices /\ begun.report \in Readings
      BY <1>1, <1>2, <2>8
    <2>10. PICK n \in DOMAIN Slug : n = name
      BY <1>2
    <2>11. FoundVendor(t, Slug[n], v, begun) /\ v \in Known(VendorIds)'
      BY <2>1, <2>4, <2>8, <2>10
    <2>12. TicksOK'
      BY <1>1, <2>5, <2>9, <2>11, FoundVendorOK
    <2> QED
      BY <2>4, <2>5, <2>6, <2>7, <2>12 DEF InventorySound
  <1> QED
    BY <1>4, <1>5

LEMMA ReadVendorAgainSound ==
    ASSUME InventorySound, NEW t \in Ticks, ReadVendorAgain(t) PROVE InventorySound'
  <1> DEFINE name == tick[t].report.manufacturer
  <1>1. TicksOK /\ TickOK(tick[t]) /\ tick[t] \in TickRows /\ tick[t].at = "again"
    BY TickRowFields DEF InventorySound, ReadVendorAgain
  <1>2. name \in DOMAIN Slug /\ tick[t].device \in Devices /\ tick[t].report \in Readings
    BY <1>1 DEF TickOK
  <1>3. UNCHANGED <<acs, row, vendor, models, deletion, customers>>
    BY DEF ReadVendorAgain, inventoryVars
  <1>4. Growing
    BY <1>3, NothingGrows
  <1>5. CASE WithSlug(Slug[name]) = {}
    <2>1. NextDevice(t)
      BY <1>5 DEF ReadVendorAgain
    <2> QED
      BY <1>1, <1>3, <1>4, <2>1, NextDeviceOK, TickOnly
  <1>6. CASE WithSlug(Slug[name]) # {}
    <2>1. PICK v \in WithSlug(Slug[name]) : FoundVendor(t, Slug[name], v, tick[t])
      BY <1>6 DEF ReadVendorAgain
    <2>2. v \in VendorIds /\ v \in Known(VendorIds)'
      BY <1>4 DEF WithSlug, Known, Growing
    <2>3. PICK begun : begun = tick[t]
      OBVIOUS
    <2>4. begun \in TickRows /\ begun.device \in Devices /\ begun.report \in Readings
      BY <1>1, <1>2, <2>3
    <2>5. PICK n \in DOMAIN Slug : n = name
      BY <1>2
    <2>6. FoundVendor(t, Slug[n], v, begun)
      BY <2>1, <2>3, <2>5
    <2>7. TicksOK'
      BY <1>1, <1>4, <2>2, <2>4, <2>6, FoundVendorOK
    <2> QED
      BY <1>3, <2>7, TickOnly
  <1> QED
    BY <1>5, <1>6

LEMMA ResolveModelSound ==
    ASSUME InventorySound, NEW t \in Ticks, ResolveModel(t)
    PROVE  InventorySound' /\ Growing
  <1> DEFINE model == <<tick[t].vendor, tick[t].report.model>>
  <1>1. TicksOK /\ TickOK(tick[t]) /\ tick[t] \in TickRows /\ tick[t].at = "model"
    BY TickRowFields DEF InventorySound, ResolveModel
  <1>2. /\ tick[t].vendor \in Known(VendorIds)
        /\ tick[t].device \in Devices /\ tick[t].report \in Readings
    BY <1>1 DEF TickOK
  <1>3. models' = models \cup {model} /\ UNCHANGED <<acs, row, vendor, deletion, customers>>
    BY DEF ResolveModel
  <1>4. Growing
    BY <1>3 DEF Growing, Known, Linkable
  <1>5. RowsOK' /\ VendorsOK' /\ DeletionOK'
    BY <1>3, <1>4, RowsStay DEF InventorySound, VendorsOK, DeletionOK, Known
  <1>6. ModelsOK'
    BY <1>2, <1>3, <1>4 DEF InventorySound, ModelsOK, Growing
  <1>7. TicksOK'
    <2>1. PICK x, m : x = tick[t] /\ m = model
      OBVIOUS
    <2>2. PICK y : y = [x EXCEPT !.at = "customer", !.model = m]
      OBVIOUS
    <2>3. x \in TickRows /\ x.device \in Devices /\ x.report \in Readings
      BY <1>1, <1>2, <2>1
    <2>4. x \in TickRows' /\ m \in models'
      BY <1>3, <1>4, <2>1, <2>3 DEF TickRows, Growing, Readings
    <2>5. TickOK(y)'
      BY <2>2, <2>3, <2>4 DEF TickOK, TickRows, Stages, Readings
    <2>6. tick' = [tick EXCEPT ![t] = y]
      <3>1. tick' = [tick EXCEPT ![t].at = "customer", ![t].model = m]
        BY <2>1 DEF ResolveModel
      <3> QED
        BY <1>1, <2>1, <2>2, <3>1 DEF TicksOK
    <2> QED
      BY <1>1, <1>4, <2>5, <2>6, TickMoves
  <1> QED
    BY <1>3, <1>4, <1>5, <1>6, <1>7 DEF InventorySound

\* A lookup that puts a customer in hand and goes on.
LEMMA CustomerInHand ==
    ASSUME InventorySound, NEW t \in Ticks, tick[t].at \notin {"idle", "devices"},
           NEW to \in {"existing", "upsert"}, NEW c \in Linkable,
           tick' = [tick EXCEPT ![t].at = to, ![t].customer = c],
           UNCHANGED <<acs, row, vendor, models, deletion, customers>>
    PROVE  InventorySound'
  <1>1. TicksOK /\ TickOK(tick[t]) /\ tick[t] \in TickRows /\ Growing
    BY TickRowFields, NothingGrows DEF InventorySound
  <1>2. PICK x : x = tick[t]
    OBVIOUS
  <1>3. PICK y : y = [x EXCEPT !.at = to, !.customer = c]
    OBVIOUS
  <1>4. x \in TickRows /\ x.device \in Devices /\ x.report \in Readings
    BY <1>1, <1>2 DEF TickOK
  <1>5. TickOK(y)
    BY <1>3, <1>4 DEF TickOK, TickRows, Stages
  <1>6. tick' = [tick EXCEPT ![t] = y]
    BY <1>1, <1>2, <1>3 DEF TicksOK
  <1>7. TicksOK'
    BY <1>1, <1>5, <1>6, TickRowStays, TickMoves
  <1> QED
    BY <1>7, TickOnly

LEMMA FindCustomerSound ==
    ASSUME InventorySound, NEW t \in Ticks, FindCustomer(t) PROVE InventorySound'
  <1> DEFINE login == tick[t].report.login
             found == {c \in Customers : login # Missing /\ customers[c] = login}
  <1>1. login # NoRow
    <2>1. tick[t].report \in Readings
      BY TickRowFields DEF InventorySound, FindCustomer, TickOK
    <2> QED
      BY <2>1, ReadingType DEF Readings
  <1>2. PICK c : c = IF found = {} THEN Missing ELSE CHOOSE x \in found : TRUE
    OBVIOUS
  <1>3. c \in Linkable
    <2>1. CASE found = {}
      BY <1>2, <2>1 DEF Linkable
    <2>2. CASE found # {}
      <3>1. c \in found
        BY <1>2, <2>2
      <3> QED
        BY <1>1, <3>1 DEF Linkable
    <2> QED
      BY <2>1, <2>2
  <1>4. tick' = [tick EXCEPT ![t].at = "existing", ![t].customer = c]
    BY <1>2 DEF FindCustomer
  <1>5. tick[t].at = "customer" /\ UNCHANGED <<acs, row, vendor, models, deletion, customers>>
    BY DEF FindCustomer, inventoryVars
  <1> QED
    BY <1>3, <1>4, <1>5, CustomerInHand

LEMMA FindExistingSound ==
    ASSUME InventorySound, NEW t \in Ticks, FindExisting(t) PROVE InventorySound'
  <1> DEFINE d   == tick[t].device
             old == IF row[d] = NoRow THEN Missing ELSE row[d].customer
  <1>1. TicksOK /\ TickOK(tick[t]) /\ tick[t] \in TickRows /\ tick[t].at = "existing"
    BY TickRowFields DEF InventorySound, FindExisting
  <1>2. d \in Devices /\ tick[t].customer \in Linkable
    BY <1>1 DEF TickOK, TickRows
  <1>3. old \in Linkable
    <2>1. row[d] \in DeviceRows \cup {NoRow}
      BY <1>2 DEF InventorySound, RowsOK
    <2> QED
      BY <2>1 DEF DeviceRows, Linkable
  <1>4. PICK c : c = Coalesce(tick[t].customer, old)
    OBVIOUS
  <1>5. c \in Linkable
    BY <1>2, <1>3, <1>4 DEF Coalesce
  <1>6. tick' = [tick EXCEPT ![t].at = "upsert", ![t].customer = c]
    <2>1. tick' = [tick EXCEPT ![t].at = "upsert", ![t].customer = Coalesce(@, old)]
      BY DEF FindExisting
    <2> HIDE DEF old
    <2>2. PICK x : x = tick[t]
      OBVIOUS
    <2>3. x = [at |-> x.at, todo |-> x.todo, cache |-> x.cache, device |-> x.device,
               report |-> x.report, vendor |-> x.vendor, model |-> x.model,
               customer |-> x.customer]
      BY <1>1, <2>2, TickRowFields, Zenon
    <2> QED
      BY <1>1, <1>4, <2>1, <2>2, <2>3 DEF TicksOK
  <1>7. UNCHANGED <<acs, row, vendor, models, deletion, customers>>
    BY DEF FindExisting, inventoryVars
  <1> QED
    BY <1>1, <1>5, <1>6, <1>7, CustomerInHand

\* What is reported, over what was: the links are to rows there are.
LEMMA MergedType ==
    ASSUME NEW old \in DeviceRows, NEW new \in DeviceRows PROVE Merged(old, new) \in DeviceRows
  <1>1. Coalesce(new.model, old.model) \in models \cup {Missing}
    BY DEF DeviceRows, Coalesce
  <1>2. Coalesce(new.customer, old.customer) \in Linkable
    BY DEF DeviceRows, Coalesce
  <1> QED
    BY <1>1, <1>2 DEF Merged, DeviceRows

LEMMA UpsertedRow ==
    ASSUME InventorySound, NEW t \in Ticks, UpsertDevice(t)
    PROVE  /\ tick[t].device \in Devices
           /\ \E x \in DeviceRows : row' = [row EXCEPT ![tick[t].device] = x]
  <1> DEFINE d   == tick[t].device
             r   == tick[t].report
             new == [model |-> tick[t].model, customer |-> tick[t].customer,
                     login |-> r.login, status |-> r.status, facts |-> r.facts]
  <1>1. TicksOK /\ TickOK(tick[t]) /\ tick[t] \in TickRows /\ tick[t].at = "upsert"
    BY TickRowFields DEF InventorySound, UpsertDevice
  <1>2. d \in Devices /\ r \in Readings
    BY <1>1 DEF TickOK
  <1>3. tick[t].model \in models \cup {Missing} /\ tick[t].customer \in Linkable
    BY <1>1 DEF TickRows
  <1>4. new \in DeviceRows
    BY <1>2, <1>3 DEF DeviceRows
  <1>5. row[d] \in DeviceRows \cup {NoRow}
    BY <1>2 DEF InventorySound, RowsOK
  <1>6. PICK n : n = IF row[d] = NoRow THEN new ELSE Merged(row[d], new)
    OBVIOUS
  <1> HIDE DEF new
  <1>7. n \in DeviceRows
    BY <1>4, <1>5, <1>6, MergedType
  <1>8. row' = [row EXCEPT ![d] = n]
    BY <1>6 DEF UpsertDevice, new
  <1> QED
    BY <1>2, <1>7, <1>8

LEMMA UpsertDeviceSound ==
    ASSUME InventorySound, NEW t \in Ticks, UpsertDevice(t) PROVE InventorySound'
  <1>1. UNCHANGED <<acs, vendor, models, deletion, customers>> /\ NextDevice(t)
    BY DEF UpsertDevice
  <1>2. Growing
    BY <1>1, NothingGrows
  <1>3. RowsOK'
    <2>1. row' \in [Devices -> DeviceRows \cup {NoRow}]
      BY UpsertedRow DEF InventorySound, RowsOK
    <2>2. DeviceRows' = DeviceRows
      BY <1>1 DEF DeviceRows, Linkable, Readings
    <2> QED
      BY <2>1, <2>2 DEF RowsOK
  <1>4. TicksOK'
    BY <1>1, <1>2, NextDeviceOK DEF InventorySound
  <1> QED
    BY <1>1, <1>3, <1>4 DEF InventorySound, VendorsOK, ModelsOK, DeletionOK, Known

\* A tick that ends, after its last device or before.
LEMMA TickStops ==
    ASSUME InventorySound, NEW t \in Ticks, tick' = [tick EXCEPT ![t] = Idle],
           UNCHANGED <<acs, row, vendor, models, deletion, customers>>
    PROVE  InventorySound'
  <1>1. TicksOK'
    BY IdleOK, NothingGrows, TickMoves DEF InventorySound
  <1> QED
    BY <1>1, TickOnly

LEMMA DeviceFailsSound ==
    ASSUME InventorySound, NEW t \in Ticks, DeviceFails(t) PROVE InventorySound'
  <1>1. UNCHANGED <<acs, row, vendor, models, deletion, customers>> /\ NextDevice(t)
    BY DEF DeviceFails, inventoryVars
  <1>2. TicksOK'
    BY <1>1, NothingGrows, NextDeviceOK DEF InventorySound
  <1> QED
    BY <1>1, <1>2, TickOnly

LEMMA TickDiesSound ==
    ASSUME InventorySound, NEW t \in Ticks, TickDies(t) PROVE InventorySound'
  BY TickStops DEF TickDies, inventoryVars

LEMMA RestartSound == ASSUME InventorySound, Restart PROVE InventorySound'
  <1>1. UNCHANGED <<acs, row, vendor, models, deletion, customers>>
    BY DEF Restart, inventoryVars
  <1>2. CASE "worker" \in Ticks
    BY <1>1, <1>2, TickStops DEF Restart
  <1>3. CASE "worker" \notin Ticks
    <2>1. tick' = tick
      BY <1>3 DEF Restart, InventorySound, TicksOK
    <2>2. TicksOK'
      BY <1>1, <2>1, NothingGrows, TicksStay DEF InventorySound
    <2> QED
      BY <1>1, <2>2, TickOnly
  <1> QED
    BY <1>2, <1>3

-----------------------------------------------------------------------------
(* The steps of the operators and of GenieACS.                             *)

\* A step that leaves the ticks and what they link to alone.
LEMMA Elsewhere ==
    ASSUME InventorySound, UNCHANGED <<tick, vendor, models, customers>>,
           acs' \in [Devices -> Reports \cup {Unknown}],
           row' \in [Devices -> DeviceRows \cup {NoRow}], DeletionOK'
    PROVE  InventorySound'
  <1>1. Growing
    BY NothingGrows
  <1>2. TicksOK'
    BY <1>1, TicksStay DEF InventorySound
  <1>3. DeviceRows' = DeviceRows
    BY DEF DeviceRows, Linkable, Readings
  <1> QED
    BY <1>2, <1>3 DEF InventorySound, RowsOK, VendorsOK, ModelsOK, Known

LEMMA NoDeletionOK == deletion' = NoDeletion => DeletionOK'
  BY DEF NoDeletion, DeletionOK

LEMMA BeginDeletionSound ==
    ASSUME InventorySound, NEW d \in Devices, BeginDeletion(d) PROVE InventorySound'
  <1>1. UNCHANGED <<acs, row, tick, vendor, models, customers>>
    BY DEF BeginDeletion, inventoryVars
  <1>2. DeletionOK'
    BY DEF BeginDeletion, DeletionOK
  <1> QED
    BY <1>1, <1>2, Elsewhere DEF InventorySound, RowsOK

LEMMA DeleteFromACSSound ==
    ASSUME InventorySound, DeleteFromACS PROVE InventorySound'
  <1>1. UNCHANGED <<row, tick, vendor, models, customers>>
    BY DEF DeleteFromACS, inventoryVars
  <1>2. acs' \in [Devices -> Reports \cup {Unknown}]
    BY DEF InventorySound, DeleteFromACS
  <1>3. DeletionOK'
    BY DEF InventorySound, DeleteFromACS, DeletionOK, GoesOn
  <1> QED
    BY <1>1, <1>2, <1>3, Elsewhere DEF InventorySound, RowsOK

LEMMA DeleteRowSound ==
    ASSUME InventorySound, DeleteRow PROVE InventorySound'
  <1>1. UNCHANGED <<acs, tick, vendor, models, customers>>
    BY DEF DeleteRow
  <1>2. row' \in [Devices -> DeviceRows \cup {NoRow}]
    BY DEF InventorySound, RowsOK, DeleteRow
  <1>3. DeletionOK'
    BY NoDeletionOK DEF DeleteRow
  <1> QED
    BY <1>1, <1>2, <1>3, Elsewhere DEF InventorySound

LEMMA DeletionFailsSound ==
    ASSUME InventorySound, NEW reached \in BOOLEAN, DeletionFails(reached) PROVE InventorySound'
  <1>1. UNCHANGED <<row, tick, vendor, models, customers>>
    BY DEF DeletionFails, inventoryVars
  <1>2. acs' \in [Devices -> Reports \cup {Unknown}]
    BY DEF InventorySound, DeletionFails
  <1>3. DeletionOK'
    BY NoDeletionOK DEF DeletionFails
  <1> QED
    BY <1>1, <1>2, <1>3, Elsewhere DEF InventorySound, RowsOK

LEMMA ModelSet ==
    ASSUME InventorySound, NEW d \in Devices, NEW m \in models \cup {Missing}, SetModel(d, m)
    PROVE  \E y \in DeviceRows : row' = [row EXCEPT ![d] = y]
  <1>1. PICK x : x = row[d]
    OBVIOUS
  <1>2. x \in DeviceRows
    BY <1>1 DEF SetModel, InventorySound, RowsOK
  <1>3. PICK y : y = [x EXCEPT !.model = m]
    OBVIOUS
  <1>4. y \in DeviceRows
    BY <1>2, <1>3 DEF DeviceRows
  <1>5. row' = [row EXCEPT ![d] = y]
    BY <1>1, <1>3 DEF SetModel, InventorySound, RowsOK
  <1> QED
    BY <1>4, <1>5

LEMMA SetModelSound ==
    ASSUME InventorySound, NEW d \in Devices, NEW m \in models \cup {Missing}, SetModel(d, m)
    PROVE  InventorySound'
  <1>1. UNCHANGED <<acs, tick, vendor, models, customers, deletion>>
    BY DEF SetModel
  <1>2. row' \in [Devices -> DeviceRows \cup {NoRow}]
    BY ModelSet DEF InventorySound, RowsOK
  <1>3. DeletionOK'
    BY <1>1 DEF InventorySound, DeletionOK
  <1> QED
    BY <1>1, <1>2, <1>3, Elsewhere DEF InventorySound

LEMMA StartSessionSound ==
    ASSUME InventorySound, NEW d \in Devices, StartSession(d) PROVE InventorySound'
  <1>1. UNCHANGED <<acs, row, tick, vendor, models, customers, deletion>>
    BY DEF StartSession, inventoryVars
  <1>2. DeletionOK'
    BY <1>1 DEF InventorySound, DeletionOK
  <1> QED
    BY <1>1, <1>2, Elsewhere DEF InventorySound, RowsOK

LEMMA ReportSound ==
    ASSUME InventorySound, NEW d \in Devices, NEW r \in Reports \cup {Unknown}, Report(d, r)
    PROVE  InventorySound'
  <1>1. UNCHANGED <<row, tick, vendor, models, customers, deletion>>
    BY DEF Report, inventoryVars
  <1>2. acs' \in [Devices -> Reports \cup {Unknown}]
    BY DEF InventorySound, Report
  <1>3. DeletionOK'
    BY <1>1 DEF InventorySound, DeletionOK
  <1> QED
    BY <1>1, <1>2, <1>3, Elsewhere DEF InventorySound, RowsOK

\* A step that adds to what rows link to.
LEMMA Additions ==
    ASSUME InventorySound, Growing, VendorsOK', ModelsOK',
           UNCHANGED <<acs, row, tick, deletion>>
    PROVE  InventorySound'
  BY RowsStay, TicksStay DEF InventorySound, DeletionOK

LEMMA CreateModelSound ==
    ASSUME InventorySound, NEW v \in VendorIds, NEW name, CreateModel(v, name)
    PROVE  InventorySound' /\ Growing
  <1>1. models' = models \cup {<<v, name>>} /\ v \in Known(VendorIds)
          /\ UNCHANGED <<acs, row, tick, deletion, vendor, customers>>
    BY DEF CreateModel
  <1>2. Growing
    BY <1>1 DEF Growing, Known, Linkable
  <1>3. VendorsOK' /\ ModelsOK'
    BY <1>1 DEF InventorySound, VendorsOK, ModelsOK, Known
  <1> QED
    BY <1>1, <1>2, <1>3, Additions

\* A vendor that an operator creates or renames.
LEMMA VendorEdited ==
    ASSUME InventorySound, NEW v \in VendorIds, NEW new \in VendorRows, new # NoVendor,
           ~Duplicate(v, new.slug, new.name), vendor' = [vendor EXCEPT ![v] = new],
           UNCHANGED <<acs, row, tick, deletion, models, customers>>
    PROVE  InventorySound' /\ Growing
  <1>1. VendorsOK' /\ Known(VendorIds)' = Known(VendorIds) \cup {v}
    BY VendorWritten DEF InventorySound
  <1>2. Growing
    BY <1>1 DEF Growing, Linkable
  <1>3. ModelsOK'
    BY <1>1 DEF InventorySound, ModelsOK
  <1> QED
    BY <1>1, <1>2, <1>3, Additions

LEMMA NewVendorSound ==
    ASSUME InventorySound, NEW v \in VendorIds, NEW form \in VendorForms, NewVendor(v, form)
    PROVE  InventorySound' /\ Growing
  <1>1. form \in VendorRows /\ form # NoVendor
    BY InventoryAssumption DEF VendorRows
  <1>2. /\ ~Duplicate(v, form.slug, form.name) /\ vendor' = [vendor EXCEPT ![v] = form]
        /\ UNCHANGED <<acs, row, tick, deletion, models, customers>>
    BY DEF NewVendor
  <1> QED
    BY <1>1, <1>2, VendorEdited

LEMMA RenameVendorSound ==
    ASSUME InventorySound, NEW v \in VendorIds, NEW name \in DOMAIN Slug, RenameVendor(v, name)
    PROVE  InventorySound' /\ Growing
  <1>1. PICK new : new = [slug |-> Slug[name], name |-> name]
    OBVIOUS
  <1>2. new \in VendorRows /\ new # NoVendor
    BY <1>1, InventoryAssumption DEF VendorRows
  <1>3. /\ ~Duplicate(v, new.slug, new.name) /\ vendor' = [vendor EXCEPT ![v] = new]
        /\ UNCHANGED <<acs, row, tick, deletion, models, customers>>
    BY <1>1 DEF RenameVendor
  <1> QED
    BY <1>2, <1>3, VendorEdited

-----------------------------------------------------------------------------
(* The rows homologation sessions refer to.                                *)

\* What keeps a session's row: it is never deleted, and no upsert leaves NoRow.
TestedOK ==
    /\ models \subseteq VendorIds \X {Reading[r].model : r \in Reports}
    /\ tested \subseteq Devices /\ \A d \in tested : row[d] # NoRow

LEMMA RowsAreRows == ASSUME TestedOK, NEW x \in DeviceRows PROVE x # NoRow
  <1>1. x \in RowValues
    BY DEF DeviceRows, RowValues, TestedOK, Linkable, Readings
  <1> QED
    BY <1>1, InventoryAssumption

\* The steps that leave models, sessions and rows as they are.
LEMMA TestedStays ==
    ASSUME TestedOK, UNCHANGED <<row, models, tested>> PROVE TestedOK'
  BY DEF TestedOK

LEMMA TickKeepsTested ==
    ASSUME InventorySound, TestedOK, NEW t \in Ticks, Proceed(t) PROVE TestedOK'
  <1>1. CASE \/ \E d \in Devices, r \in Reports : BeginDevice(t, d, r)
             \/ \E v \in VendorIds : CreateVendor(t, v)
             \/ ReadVendorAgain(t) \/ FindCustomer(t) \/ FindExisting(t)
    BY <1>1, TestedStays DEF BeginDevice, CreateVendor, ReadVendorAgain, FindCustomer,
                             FindExisting, inventoryVars
  <1>2. CASE ResolveModel(t)
    <2>1. tick[t].vendor \in Known(VendorIds) /\ tick[t].report \in Readings
      BY <1>2, TickRowFields DEF InventorySound, ResolveModel, TickOK
    <2>2. tick[t].vendor \in VendorIds /\ tick[t].report.model \in {Reading[r].model : r \in Reports}
      BY <2>1 DEF Known, Readings
    <2>3. models' = models \cup {<<tick[t].vendor, tick[t].report.model>>}
            /\ UNCHANGED <<row, tested>>
      BY <1>2 DEF ResolveModel
    <2> QED
      BY <2>2, <2>3 DEF TestedOK
  <1>3. CASE UpsertDevice(t)
    <2>1. RowsOK' /\ UNCHANGED <<models, tested, customers>>
      BY <1>3, UpsertDeviceSound DEF UpsertDevice, InventorySound
    <2>2. PICK d \in Devices : \E x : row' = [row EXCEPT ![d] = x] /\ x \in DeviceRows
      BY <1>3, UpsertedRow
    <2>3. ASSUME NEW e \in tested PROVE row'[e] # NoRow
      BY <2>2, RowsAreRows DEF TestedOK, InventorySound, RowsOK
    <2> QED
      BY <2>1, <2>3 DEF TestedOK
  <1> QED
    BY <1>1, <1>2, <1>3 DEF Proceed

LEMMA OperatorsKeepTested ==
    ASSUME InventorySound, TestedOK, Operators PROVE TestedOK'
  <1>1. CASE \E d \in Devices : BeginDeletion(d)
    BY <1>1, TestedStays DEF BeginDeletion, inventoryVars
  <1>2. CASE \E d \in Devices : StartSession(d)
    BY <1>2 DEF StartSession, TestedOK, inventoryVars
  <1>3. ASSUME NEW d \in Devices, NEW m \in models \cup {Missing}, SetModel(d, m) PROVE TestedOK'
    <2>1. UNCHANGED <<models, tested>>
      BY <1>3 DEF SetModel
    <2>2. \E x \in DeviceRows : row' = [row EXCEPT ![d] = x]
      BY <1>3, ModelSet
    <2>3. ASSUME NEW e \in tested PROVE row'[e] # NoRow
      BY <2>2, RowsAreRows DEF TestedOK, InventorySound, RowsOK
    <2> QED
      BY <2>1, <2>3 DEF TestedOK
  <1>4. CASE \E v \in VendorIds : \/ \E form \in VendorForms : NewVendor(v, form)
                                  \/ \E name \in DOMAIN Slug : RenameVendor(v, name)
    BY <1>4, TestedStays DEF NewVendor, RenameVendor
  <1>5. ASSUME NEW v \in VendorIds, NEW r \in Reports, CreateModel(v, Reading[r].model)
        PROVE  TestedOK'
    BY <1>5 DEF CreateModel, TestedOK
  <1> QED
    BY <1>1, <1>2, <1>3, <1>4, <1>5 DEF Operators

LEMMA TestedStep ==
    ASSUME InventorySound, TestedOK, [Next]_vars PROVE TestedOK'
  <1>1. CASE \E t \in Ticks : StartTick(t)
    BY <1>1, TestedStays DEF StartTick, inventoryVars
  <1>2. CASE \E t \in Ticks : Proceed(t)
    BY <1>2, TickKeepsTested
  <1>3. CASE DeleteFromACS
    BY <1>3, TestedStays DEF DeleteFromACS, inventoryVars
  <1>4. CASE DeleteRow
    <2>1. ASSUME NEW e \in tested PROVE row'[e] # NoRow
      BY <1>4 DEF DeleteRow, TestedOK, InventorySound, RowsOK
    <2> QED
      BY <1>4, <2>1 DEF DeleteRow, TestedOK
  <1>5. CASE Operators
    BY <1>5, OperatorsKeepTested
  <1>6. CASE Failures
    BY <1>6, TestedStays DEF Failures, DeviceFails, TickDies, Restart, DeletionFails, inventoryVars
  <1>7. CASE CustomerWritten
    BY <1>7, TestedStays DEF CustomerWritten, inventoryVars
  <1>8. CASE \E d \in Devices, r \in Reports \cup {Unknown} : Report(d, r)
    BY <1>8, TestedStays DEF Report, inventoryVars
  <1>9. CASE UNCHANGED vars
    BY <1>9, TestedStays DEF vars, inventoryVars
  <1> QED
    BY <1>1, <1>2, <1>3, <1>4, <1>5, <1>6, <1>7, <1>8, <1>9 DEF Next, Deleting

-----------------------------------------------------------------------------
(* Every step.                                                             *)

CountersOK == edits \in 0 .. MaxEdits /\ faults \in 0 .. MaxFaults

Sound == InventorySound /\ CustomersOK /\ TestedOK /\ CountersOK

LEMMA CountersStep ==
    ASSUME CountersOK, edits' = edits \/ Edited, faults' = faults \/ Fault
    PROVE  CountersOK'
  BY RowsAssumption DEF CountersOK, Edited, Fault

\* The steps that leave the customers alone.
LEMMA CustomersStay ==
    ASSUME CustomersOK, CountersOK, UNCHANGED customers,
           edits' = edits \/ Edited, faults' = faults \/ Fault
    PROVE  CustomersOK' /\ CountersOK'
  <1>1. CountersOK'
    BY CountersStep
  <1> QED
    BY <1>1 DEF CustomersOK

LEMMA TickStepSound ==
    ASSUME Sound, NEW t \in Ticks, StartTick(t) \/ Proceed(t)
    PROVE  InventorySound' /\ CustomersOK' /\ CountersOK'
  <1>1. UNCHANGED customers /\ (edits' = edits \/ Edited) /\ faults' = faults
    BY DEF Proceed, StartTick, BeginDevice, CreateVendor, ReadVendorAgain, ResolveModel,
           FindCustomer, FindExisting, UpsertDevice, counters
  <1>2. InventorySound'
    BY StartTickSound, BeginDeviceSound, CreateVendorSound, ReadVendorAgainSound,
       ResolveModelSound, FindCustomerSound, FindExistingSound, UpsertDeviceSound
       DEF Sound, Proceed
  <1> QED
    BY <1>1, <1>2, CustomersStay DEF Sound

LEMMA DeletingSound ==
    ASSUME Sound, Deleting PROVE InventorySound' /\ CustomersOK' /\ CountersOK'
  <1>1. UNCHANGED customers /\ UNCHANGED counters
    BY DEF Deleting, DeleteFromACS, DeleteRow
  <1>2. InventorySound'
    BY DeleteFromACSSound, DeleteRowSound DEF Sound, Deleting
  <1> QED
    BY <1>1, <1>2, CustomersStay DEF Sound, counters

LEMMA OperatorsSound ==
    ASSUME Sound, Operators PROVE InventorySound' /\ CustomersOK' /\ CountersOK'
  <1>1. UNCHANGED customers /\ (edits' = edits \/ Edited) /\ faults' = faults
    BY DEF Operators, BeginDeletion, StartSession, SetModel, NewVendor, RenameVendor,
           CreateModel, counters
  <1>2. InventorySound'
    BY BeginDeletionSound, StartSessionSound, SetModelSound, NewVendorSound,
       RenameVendorSound, CreateModelSound DEF Sound, Operators
  <1> QED
    BY <1>1, <1>2, CustomersStay DEF Sound

LEMMA FailuresSound ==
    ASSUME Sound, Failures PROVE InventorySound' /\ CustomersOK' /\ CountersOK'
  <1>1. UNCHANGED customers /\ Fault /\ edits' = edits
    BY DEF Failures, DeviceFails, TickDies, Restart, DeletionFails
  <1>2. InventorySound'
    BY DeviceFailsSound, TickDiesSound, RestartSound, DeletionFailsSound DEF Sound, Failures
  <1> QED
    BY <1>1, <1>2, CustomersStay DEF Sound

\* An upsert of the ERP's ticks: of the customers rows link to none goes.
LEMMA CustomerWrittenSound ==
    ASSUME Sound, CustomerWritten PROVE InventorySound' /\ CustomersOK' /\ CountersOK'
  <1>1. UNCHANGED <<edits, faults, acs, row, vendor, models, tick, deletion>>
    BY DEF CustomerWritten, counters, inventoryVars
  <1>2. PICK c \in Customers, login \in Values : WriteRow(c, login)
    BY DEF CustomerWritten, Values
  <1>3. CustomersOK' /\ \A k \in Customers : customers[k] # NoRow => customers'[k] # NoRow
    BY <1>2, RowWritten DEF Sound
  <1>4. Growing
    BY <1>1, <1>3 DEF Growing, Linkable, Known
  <1>5. VendorsOK' /\ ModelsOK'
    BY <1>1 DEF Sound, InventorySound, VendorsOK, ModelsOK, Known
  <1>6. InventorySound'
    BY <1>1, <1>4, <1>5, Additions DEF Sound
  <1> QED
    BY <1>1, <1>3, <1>6, CountersStep DEF Sound

LEMMA SoundStep == ASSUME Sound, [Next]_vars PROVE Sound'
  <1>1. CASE \E t \in Ticks : StartTick(t) \/ Proceed(t)
    BY <1>1, TickStepSound, TestedStep DEF Sound
  <1>2. CASE Deleting \/ Operators \/ Failures \/ CustomerWritten
    BY <1>2, DeletingSound, OperatorsSound, FailuresSound, CustomerWrittenSound, TestedStep
       DEF Sound
  <1>3. CASE \E d \in Devices, r \in Reports \cup {Unknown} : Report(d, r)
    <2>1. UNCHANGED <<customers, edits, faults>>
      BY <1>3 DEF Report, counters
    <2>2. InventorySound'
      BY <1>3, ReportSound DEF Sound
    <2> QED
      BY <2>1, <2>2, CustomersStay, TestedStep DEF Sound
  <1>4. CASE UNCHANGED vars
    <2>1. UNCHANGED <<customers, edits, faults, acs, row, vendor, models, tick, deletion>>
      BY <1>4 DEF vars, counters, inventoryVars
    <2>2. DeletionOK'
      BY <2>1 DEF Sound, InventorySound, DeletionOK
    <2>3. InventorySound'
      BY <2>1, <2>2, Elsewhere DEF Sound, InventorySound, RowsOK
    <2> QED
      BY <2>1, <2>3, CustomersStay, TestedStep DEF Sound
  <1> QED
    BY <1>1, <1>2, <1>3, <1>4 DEF Next

LEMMA SoundInit == Init => Sound
  <1> SUFFICES ASSUME Init PROVE Sound
    OBVIOUS
  <1>1. CustomersOK
    BY DEF Init, RowsInit, CustomersOK
  <1>2. CountersOK /\ TestedOK
    BY RowsAssumption DEF Init, RowsInit, CountersOK, TestedOK
  <1>3. RowsOK /\ ModelsOK /\ acs \in [Devices -> Reports \cup {Unknown}]
    BY DEF Init, RowsOK, ModelsOK
  <1>4. VendorsOK
    <2>1. vendor \in [VendorIds -> VendorRows \cup {NoVendor}]
      BY DEF Init, VendorRows
    <2>2. \A v \in Known(VendorIds) : v \in DOMAIN Seed /\ vendor[v] = Seed[v]
      BY DEF Init, Known
    <2> QED
      BY <2>1, <2>2, InventoryAssumption DEF VendorsOK
  <1>5. TicksOK
    BY IdleOK DEF Init, TicksOK
  <1>6. DeletionOK
    BY DEF Init, NoDeletion, DeletionOK
  <1> QED
    BY <1>1, <1>2, <1>3, <1>4, <1>5, <1>6 DEF Sound, InventorySound

LEMMA SoundIsTypeOK == Sound => TypeOK
  <1> SUFFICES ASSUME Sound PROVE TypeOK
    OBVIOUS
  <1>1. RowsTypeOK
    BY DEF Sound, CustomersOK, CountersOK, RowsTypeOK, Values
  <1>2. ASSUME NEW d \in Devices, row[d] # NoRow
        PROVE  /\ row[d].model \in models \cup {Missing}
               /\ row[d].customer # Missing => customers[row[d].customer] # NoRow
    <2>1. row[d] \in DeviceRows
      BY <1>2 DEF Sound, InventorySound, RowsOK
    <2> QED
      BY <2>1 DEF DeviceRows, Linkable
  <1>3. \A t \in Ticks : tick[t].at \in Stages
    BY DEF Sound, InventorySound, TicksOK, TickOK, TickRows
  <1>4. deletion.at \in {"idle", "acs", "row"}
    BY DEF Sound, InventorySound, DeletionOK
  <1>5. acs \in [Devices -> Reports \cup {Unknown}] /\ VendorsOK /\ ModelsOK
    BY DEF Sound, InventorySound
  <1>6. \A d \in tested : row[d] # NoRow
    BY DEF Sound, TestedOK
  <1> QED
    BY <1>1, <1>2, <1>3, <1>4, <1>5, <1>6 DEF TypeOK, Stages, VendorsOK, ModelsOK

\* No slug, name or login is in a table twice, and every link a device or a session has
\* is to a row there is (sync.go:66, 00010_init_homologation.sql:41), however ticks,
\* edits, deletions, sessions, failures and restarts interleave.
THEOREM TypeCorrect == Spec => []TypeOK
  <1>1. Init => Sound
    BY SoundInit
  <1>2. Sound /\ [Next]_vars => Sound'
    BY SoundStep
  <1>3. Sound => TypeOK
    BY SoundIsTypeOK
  <1> QED
    BY <1>1, <1>2, <1>3, PTL DEF Spec

-----------------------------------------------------------------------------
(* The two components together.                                            *)

\* What Inventory takes the ERP's ticks for (CustomerWritten) is all that they do:
\* whatever they, the ERP and failures do, the table changes by one upsert at a time
\* that its key accepts (erp_sync.go:95).
THEOREM ErpWritesRows ==
    ErpSpec => [][\E c \in Customers, login \in Logins \cup {Missing} :
                     WriteRow(c, login)]_customers
  <1>1. ErpInit => ErpSound
    BY ErpSoundInit
  <1>2. ErpSound /\ [ErpNext]_erpVars => ErpSound'
    BY ErpSoundStep
  <1>3. ErpSound /\ [ErpNext]_erpVars =>
            [\E c \in Customers, login \in Logins \cup {Missing} : WriteRow(c, login)]_customers
    <2> SUFFICES ASSUME ErpSound, [ErpNext]_erpVars, customers' # customers
                 PROVE  \E c \in Customers, login \in Logins \cup {Missing} : WriteRow(c, login)
      OBVIOUS
    <2>1. PICK t \in ErpTicks : UpsertNext(t)
      BY DEF ErpNext, ErpStep, StartErpTick, AskPage, PageDone, UpsertFails, ErpTickFails,
             ErpRestart, Revoke, EditCustomers, erpVars
    <2>2. PICK c : c = Least(Left(t))
      OBVIOUS
    <2>3. Left(t) # {} /\ WriteRow(c, erpTick[t].answer[c])
      BY <2>1, <2>2 DEF UpsertNext
    <2>4. c \in Customers /\ erpTick[t].answer[c] \in Logins \cup {Missing}
      BY <2>2, <2>3, LeastLeft DEF Values
    <2> QED
      BY <2>3, <2>4
  <1> QED
    BY <1>1, <1>2, <1>3, PTL DEF ErpSpec

=============================================================================
