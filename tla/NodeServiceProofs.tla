------------------------- MODULE NodeServiceProofs -------------------------
(***************************************************************************)
(* Theorems about NodeService, for any nodes, pages and rounds and a user  *)
(* who need not wait for anything: types, and that the official nodes stay *)
(* in front of every list.  Lists are changed in place, and written back   *)
(* by rounds that started before; RoundLeads says what such a round knows. *)
(***************************************************************************)
EXTENDS NodeService, FiniteSetTheorems, SequenceTheorems, WellFoundedInduction, TLAPS

(* A set of numbers that is not empty has a least member. It stands in for
   induction over numbers: strict inclusion is well-founded on finite sets. *)
LEMMA LeastNumber ==
  ASSUME NEW T \in SUBSET Nat, T # {}
  PROVE  \E m \in T : \A k \in T : m <= k
<1>1. PICK n \in T : TRUE
  OBVIOUS
<1> DEFINE F == {0 .. k : k \in T \intersect 0 .. n}
<1>2. F \subseteq FiniteSubsetsOf(0 .. n)
  <2>1. ASSUME NEW k \in T \intersect 0 .. n
        PROVE  0 .. k \in SUBSET (0 .. n) /\ IsFiniteSet(0 .. k)
    BY <2>1, FS_Interval
  <2> QED BY <2>1 DEF FiniteSubsetsOf
<1>3. F # {}
  BY <1>1
<1>4. PICK x \in F : \A y \in F : ~ (<<y, x>> \in StrictSubsetOrdering(0 .. n))
  <2>1. IsWellFoundedOn(StrictSubsetOrdering(0 .. n), FiniteSubsetsOf(0 .. n))
    BY FS_StrictSubsetOrderingWellFounded
  <2> HIDE DEF F
  <2> QED BY <2>1, <1>2, <1>3, WFMin
<1>5. PICK m \in T \intersect 0 .. n : x = 0 .. m
  BY <1>4
<1>6. ASSUME NEW k \in T, k < m PROVE FALSE
  <2>1. k \in T \intersect 0 .. n
    BY <1>5, <1>6
  <2>2. /\ 0 .. k \in F /\ 0 .. k \subseteq 0 .. m /\ m \notin 0 .. k /\ m \in 0 .. m
    BY <2>1, <1>5, <1>6
  <2>3. <<0 .. k, x>> \in StrictSubsetOrdering(0 .. n)
    BY <2>2, <2>1, <1>5 DEF StrictSubsetOrdering
  <2> QED BY <2>2, <2>3, <1>4
<1> QED BY <1>5, <1>6

(* f is the function CustomRows is made of, over the first n rows. *)
KeptTo(rows, n, f) ==
  f = [i \in 0 .. n |-> IF i = 0 THEN <<>>
                        ELSE IF rows[i].urls \in Custom THEN Append(f[i - 1], rows[i])
                        ELSE f[i - 1]]

(* The recursion of CustomRows has a solution: otherwise take the least number of rows
   for which it has none. *)
LEMMA KeptExists ==
  ASSUME NEW rows, NEW n \in Nat
  PROVE  \E f : KeptTo(rows, n, f)
<1> DEFINE Bad == {k \in Nat : ~ \E f : KeptTo(rows, k, f)}
<1> SUFFICES ASSUME Bad # {} PROVE FALSE
  OBVIOUS
<1>1. PICK m \in Bad : \A k \in Bad : m <= k
  BY LeastNumber
<1>2. m # 0
  <2>1. KeptTo(rows, 0, [i \in 0 .. 0 |-> <<>>])
    BY DEF KeptTo
  <2> QED BY <2>1
<1>3. m - 1 \in Nat /\ m - 1 \notin Bad
  BY <1>1, <1>2
<1>4. PICK f : KeptTo(rows, m - 1, f)
  BY <1>3
<1> DEFINE g == [i \in 0 .. m |-> IF i < m THEN f[i]
                 ELSE IF rows[m].urls \in Custom THEN Append(f[m - 1], rows[m])
                 ELSE f[m - 1]]
<1>5. KeptTo(rows, m, g)
  <2>1. ASSUME NEW i \in 0 .. m
        PROVE  g[i] = IF i = 0 THEN <<>>
                      ELSE IF rows[i].urls \in Custom THEN Append(g[i - 1], rows[i])
                      ELSE g[i - 1]
    <3>1. CASE i = 0
      BY <3>1, <1>2, <1>3, <1>4 DEF KeptTo
    <3>2. CASE i # 0 /\ i < m
      <4>1. i \in 0 .. m - 1 /\ i - 1 < m /\ i - 1 \in 0 .. m
        BY <3>2, <1>3
      <4>2. g[i] = f[i] /\ g[i - 1] = f[i - 1]
        BY <4>1, <3>2
      <4>3. f[i] = IF rows[i].urls \in Custom THEN Append(f[i - 1], rows[i]) ELSE f[i - 1]
        BY <4>1, <3>2, <1>4 DEF KeptTo
      <4> QED BY <4>2, <4>3, <3>2
    <3>3. CASE i = m
      BY <3>3, <1>2, <1>3
    <3> QED BY <3>1, <3>2, <3>3
  <2> QED BY <2>1 DEF KeptTo
<1> QED BY <1>5, <1>1

(* CustomRows is the last value of such a function. *)
LEMMA CustomRowsDef ==
  ASSUME NEW rows, Len(rows) \in Nat
  PROVE  \E f : KeptTo(rows, Len(rows), f) /\ CustomRows(rows) = f[Len(rows)]
<1> DEFINE f == CHOOSE f : KeptTo(rows, Len(rows), f)
<1>1. KeptTo(rows, Len(rows), f)
  BY KeptExists
<1>2. CustomRows(rows) = f[Len(rows)]
  BY Zenon DEF CustomRows, KeptTo
<1> QED BY <1>1, <1>2
-----------------------------------------------------------------------------

(* A reload keeps rows. *)
LEMMA CustomRowsType ==
  ASSUME NEW rows \in Seq(Row)
  PROVE  CustomRows(rows) \in Seq(Row)
<1> DEFINE n == Len(rows)
<1>1. n \in Nat /\ DOMAIN rows = 1 .. n
  OBVIOUS
<1>2. PICK f : KeptTo(rows, n, f) /\ CustomRows(rows) = f[n]
  BY <1>1, CustomRowsDef
<1> DEFINE Bad == {k \in 0 .. n : f[k] \notin Seq(Row)}
<1>3. SUFFICES ASSUME Bad # {} PROVE FALSE
  BY <1>1, <1>2, <1>3
<1>4. PICK m \in Bad : \A k \in Bad : m <= k
  <2>1. Bad \in SUBSET Nat
    BY <1>1
  <2> HIDE DEF Bad
  <2> QED BY <2>1, <1>3, LeastNumber
<1>5. m # 0
  BY <1>1, <1>2 DEF KeptTo
<1>6. m - 1 \in 0 .. n /\ m \in 1 .. n /\ f[m - 1] \in Seq(Row)
  BY <1>1, <1>4, <1>5
<1>7. f[m] = IF rows[m].urls \in Custom THEN Append(f[m - 1], rows[m]) ELSE f[m - 1]
  BY <1>1, <1>2, <1>5 DEF KeptTo
<1>8. rows[m] \in Row
  BY <1>6
<1>9. f[m] \in Seq(Row)
  BY <1>6, <1>7, <1>8
<1> QED BY <1>4, <1>9

(* The nodes of a stored list in their order. *)
Urls(rows) == [i \in DOMAIN rows |-> rows[i].urls]

LEMMA RowsSound ==
  ASSUME NEW list \in Seq(Nodes), NEW e \in [Nodes -> Entry]
  PROVE  Rows(list, e) \in Seq(Row) /\ Urls(Rows(list, e)) = list
<1>1. DOMAIN Rows(list, e) = DOMAIN list /\ DOMAIN list = 1 .. Len(list) /\ Len(list) \in Nat
  BY DEF Rows
<1>2. \A i \in 1 .. Len(list) : Rows(list, e)[i] \in Row /\ Rows(list, e)[i].urls = list[i]
  BY DEF Rows, Row, Entry
<1> QED BY <1>1, <1>2 DEF Rows, Urls

LEMMA UrlsType ==
  ASSUME NEW rows \in Seq(Row)
  PROVE  Urls(rows) \in Seq(Nodes)
<1>1. \A i \in 1 .. Len(rows) : rows[i] \in Row
  OBVIOUS
<1> QED BY <1>1 DEF Urls, Row

(* There are official nodes, and a list they lead has a first entry. *)
LEMMA LeadsFirst ==
  ASSUME NEW list \in Seq(Nodes), Leads(list)
  PROVE  /\ Len(Official) \in Nat \ {0}
         /\ \A i \in 1 .. Len(Official) : Official[i] \in Nodes \ Custom
         /\ list # <<>> /\ Head(list) = Official[1] /\ Head(list) \in Nodes
<1>1. /\ Official \in Seq(Nodes) /\ Official # <<>>
      /\ Len(Official) \in Nat \ {0} /\ DOMAIN Official = 1 .. Len(Official)
  BY NodeConstants
<1>2. \A i \in 1 .. Len(Official) : Official[i] \in Nodes \ Custom
  BY <1>1 DEF Custom, Range
<1> QED BY <1>1, <1>2 DEF Leads

-----------------------------------------------------------------------------
(* A round knows which part of the list it has tested, as long as that part is among
   the official nodes: nobody moves these. *)
RoundLeads(rd) ==
  /\ Leads(rd.list)
  /\ rd.next >= 2
  /\ Len(rd.newData) = rd.next - 2
  /\ \A i \in 1 .. Len(Official) : i <= rd.next - 2 => rd.newData[i] = Official[i]
  /\ rd.next - 1 <= Len(Official) => rd.item = Official[rd.next - 1]

RoundsSound(rounds) ==
  /\ rounds \in [Rounds -> RunningRound \union {NoRound}]
  /\ \A r \in Rounds : rounds[r] # NoRound => RoundLeads(rounds[r])

(* editIndex is the place of a node of the user. *)
EditSound ==
  \A p \in Pages : edit[p].index = 0 \/ edit[p].index > Len(Official)

LeadInv == TypeOK /\ OfficialFirst /\ EditSound /\ RoundsSound(round)

(* A round that starts. *)
LEMMA StartSound ==
  ASSUME NEW p \in Pages, NEW list \in Seq(Nodes), Leads(list)
  PROVE  StartRound(p, list) \in RunningRound /\ RoundLeads(StartRound(p, list))
<1>1. Head(list) = Official[1] /\ Head(list) \in Nodes /\ Len(Official) \in Nat \ {0}
  BY LeadsFirst
<1>2. StartRound(p, list) \in RunningRound
  BY <1>1, EmptySeq DEF StartRound, RunningRound
<1> QED BY <1>1, <1>2 DEF StartRound, RoundLeads

(* What a change of the array, in place or not, does to the rounds. *)
LEMMA DetachedSound ==
  ASSUME NEW rounds, RoundsSound(rounds), NEW p \in Pages
  PROVE  RoundsSound(Detached(rounds, p))
<1> SUFFICES ASSUME NEW r \in Rounds
             PROVE  /\ Detached(rounds, p)[r] \in RunningRound \union {NoRound}
                    /\ Detached(rounds, p)[r] # NoRound => RoundLeads(Detached(rounds, p)[r])
  BY DEF RoundsSound, Detached
<1>1. CASE rounds[r] # NoRound /\ rounds[r].of = p
  <2>1. rounds[r] \in RunningRound /\ RoundLeads(rounds[r])
    BY <1>1 DEF RoundsSound
  <2>2. Detached(rounds, p)[r] = [rounds[r] EXCEPT !.shared = FALSE]
    BY <1>1 DEF Detached
  <2> QED BY <2>1, <2>2 DEF RunningRound, RoundLeads
<1>2. CASE ~(rounds[r] # NoRound /\ rounds[r].of = p)
  BY <1>2 DEF RoundsSound, Detached
<1> QED BY <1>1, <1>2

LEMMA InPlaceSound ==
  ASSUME NEW rounds, RoundsSound(rounds), NEW p \in Pages,
         NEW list \in Seq(Nodes), Leads(list)
  PROVE  RoundsSound(InPlace(rounds, p, list))
<1> SUFFICES ASSUME NEW r \in Rounds
             PROVE  /\ InPlace(rounds, p, list)[r] \in RunningRound \union {NoRound}
                    /\ InPlace(rounds, p, list)[r] # NoRound
                         => RoundLeads(InPlace(rounds, p, list)[r])
  BY DEF RoundsSound, InPlace
<1>1. CASE rounds[r] # NoRound /\ rounds[r].of = p /\ rounds[r].shared
  <2>1. rounds[r] \in RunningRound /\ RoundLeads(rounds[r])
    BY <1>1 DEF RoundsSound
  <2>2. InPlace(rounds, p, list)[r] = [rounds[r] EXCEPT !.list = list]
    BY <1>1 DEF InPlace
  <2> QED BY <2>1, <2>2 DEF RunningRound, RoundLeads
<1>2. CASE ~(rounds[r] # NoRound /\ rounds[r].of = p /\ rounds[r].shared)
  BY <1>2 DEF RoundsSound, InPlace
<1> QED BY <1>1, <1>2

LEMMA OneMoreSound ==
  ASSUME NEW rounds, RoundsSound(rounds), NEW r \in Rounds,
         NEW rd \in RunningRound, RoundLeads(rd)
  PROVE  RoundsSound([rounds EXCEPT ![r] = rd])
BY DEF RoundsSound

LEMMA OneLessSound ==
  ASSUME NEW rounds, RoundsSound(rounds), NEW r \in Rounds
  PROVE  RoundsSound([rounds EXCEPT ![r] = NoRound])
BY DEF RoundsSound

-----------------------------------------------------------------------------
(* The number of calls under way stays in its range. *)
LEMMA CallTypes ==
  ASSUME TypeOK, NEW n \in Nodes, SetUrlAddress(n)
  PROVE  calls' \in [Nodes -> 0 .. MaxCalls]
<1>1. MaxCalls \in Nat
  BY NodeConstants
<1> QED BY <1>1 DEF TypeOK, SetUrlAddress

(* The entry tested keeps the node in use, or another one is chosen. *)
LEMMA ChoiceTypes ==
  ASSUME TypeOK, NEW p \in Pages, NEW e \in [Nodes -> Entry], NEW n \in Nodes, NEW list,
         KeepSelected(p, e, n) \/ ChooseNearest(p, list, e, n)
  PROVE  /\ urls' \in Nodes \union {None}
         /\ entry' \in [Pages -> [Nodes -> Entry]]
         /\ calls' \in [Nodes -> 0 .. MaxCalls]
<1>1. /\ entry \in [Pages -> [Nodes -> Entry]] /\ urls \in Nodes \union {None}
      /\ calls \in [Nodes -> 0 .. MaxCalls]
  BY DEF TypeOK
<1>2. CASE KeepSelected(p, e, n)
  BY <1>1, <1>2, CallTypes DEF KeepSelected
<1>3. CASE ChooseNearest(p, list, e, n)
  <2>1. [e EXCEPT ![n].selection = TRUE] \in [Nodes -> Entry]
    BY DEF Entry
  <2> QED BY <1>1, <1>3, <2>1, CallTypes DEF ChooseNearest
<1> QED BY <1>2, <1>3

(* What a round has tested, with the entry it waits for. *)
LEMMA TestedLeads ==
  ASSUME NEW rd \in RunningRound, RoundLeads(rd)
  PROVE  LET tested == Append(rd.newData, rd.item) IN
         /\ tested \in Seq(Nodes) /\ rd.item \in Nodes /\ rd.list \in Seq(Nodes)
         /\ Len(tested) = rd.next - 1
         /\ \A i \in 1 .. Len(Official) : i <= rd.next - 1 => tested[i] = Official[i]
         /\ rd.next > Len(rd.list) => Leads(tested)
<1> DEFINE tested == Append(rd.newData, rd.item)
<1>1. /\ rd.newData \in Seq(Nodes) /\ rd.item \in Nodes /\ rd.list \in Seq(Nodes)
      /\ rd.next \in Nat /\ Len(Official) \in Nat
  BY NodeConstants DEF RunningRound
<1>2. /\ tested \in Seq(Nodes) /\ Len(tested) = rd.next - 1
      /\ tested[rd.next - 1] = rd.item
      /\ \A i \in 1 .. rd.next - 2 : tested[i] = rd.newData[i]
  BY <1>1 DEF RoundLeads
<1> HIDE DEF tested
<1>3. ASSUME NEW i \in 1 .. Len(Official), i <= rd.next - 1
      PROVE  tested[i] = Official[i]
  <2>1. CASE i = rd.next - 1
    BY <1>2, <2>1, <1>3 DEF RoundLeads
  <2>2. CASE i # rd.next - 1
    <3>1. i \in 1 .. rd.next - 2 /\ i <= rd.next - 2
      BY <1>1, <1>3, <2>2
    <3> QED BY <3>1, <1>2 DEF RoundLeads
  <2> QED BY <2>1, <2>2
<1>4. ASSUME rd.next > Len(rd.list) PROVE Leads(tested)
  <2>1. Len(Official) <= Len(rd.list) /\ Len(rd.list) \in Nat
    BY <1>1 DEF RoundLeads, Leads
  <2>2. Len(Official) <= rd.next - 1
    BY <1>1, <1>4, <2>1
  <2>3. \A i \in 1 .. Len(Official) : i <= rd.next - 1
    BY <1>1, <2>2
  <2> QED BY <1>2, <1>3, <2>2, <2>3 DEF Leads
<1> QED BY <1>1, <1>2, <1>3, <1>4 DEF tested

(* A round with another value in one of its fields. *)
LEMMA RoundFields ==
  ASSUME NEW rd \in RunningRound
  PROVE  /\ \A n \in Nodes : [rd EXCEPT !.item = n] \in RunningRound
         /\ \A k \in Nat \ {0} : [rd EXCEPT !.next = k] \in RunningRound
         /\ \A list \in Seq(Nodes) : [rd EXCEPT !.newData = list] \in RunningRound
         /\ \A b \in BOOLEAN : [rd EXCEPT !.isUrl = b] \in RunningRound
<1>1. ASSUME NEW n \in Nodes PROVE [rd EXCEPT !.item = n] \in RunningRound
  BY DEF RunningRound
<1>2. ASSUME NEW k \in Nat \ {0} PROVE [rd EXCEPT !.next = k] \in RunningRound
  BY DEF RunningRound
<1>3. ASSUME NEW list \in Seq(Nodes) PROVE [rd EXCEPT !.newData = list] \in RunningRound
  BY DEF RunningRound
<1>4. ASSUME NEW b \in BOOLEAN PROVE [rd EXCEPT !.isUrl = b] \in RunningRound
  BY DEF RunningRound
<1> QED BY <1>1, <1>2, <1>3, <1>4

(* A round that has a next entry to test. *)
LEMMA RoundGoesOn ==
  ASSUME NEW rd \in RunningRound, RoundLeads(rd), rd.next <= Len(rd.list),
         NEW isUrl \in BOOLEAN
  PROVE  LET next == [rd EXCEPT !.item = rd.list[rd.next], !.next = @ + 1,
                                !.newData = Append(rd.newData, rd.item), !.isUrl = isUrl]
         IN  next \in RunningRound /\ RoundLeads(next)
<1> DEFINE tested == Append(rd.newData, rd.item)
           next == [rd EXCEPT !.item = rd.list[rd.next], !.next = @ + 1,
                              !.newData = tested, !.isUrl = isUrl]
<1>1. /\ tested \in Seq(Nodes) /\ rd.list \in Seq(Nodes) /\ Len(tested) = rd.next - 1
      /\ \A i \in 1 .. Len(Official) : i <= rd.next - 1 => tested[i] = Official[i]
  BY TestedLeads
<1>2. /\ rd.next \in Nat \ {0} /\ rd.of \in Pages /\ rd.shared \in BOOLEAN
      /\ Len(Official) \in Nat /\ rd.next >= 2 /\ Leads(rd.list)
  BY NodeConstants DEF RunningRound, RoundLeads
<1> HIDE DEF tested
<1>3. /\ next.of = rd.of /\ next.list = rd.list /\ next.shared = rd.shared
      /\ next.next = rd.next + 1 /\ next.newData = tested
      /\ next.item = rd.list[rd.next] /\ next.isUrl = isUrl
  BY DEF RunningRound
<1>4. rd.list[rd.next] \in Nodes
  BY <1>1, <1>2
<1>5. next \in RunningRound
  <2> DEFINE moved == [rd EXCEPT !.item = rd.list[rd.next]]
             counted == [moved EXCEPT !.next = rd.next + 1]
             noted == [counted EXCEPT !.newData = tested]
  <2>1. next = [noted EXCEPT !.isUrl = isUrl]
    OBVIOUS
  <2>2. moved \in RunningRound /\ rd.next + 1 \in Nat \ {0}
    BY <1>2, <1>4, RoundFields
  <2> HIDE DEF moved, next
  <2>3. counted \in RunningRound
    BY <2>2, RoundFields
  <2> HIDE DEF counted
  <2>4. noted \in RunningRound
    BY <1>1, <2>3, RoundFields
  <2> HIDE DEF noted
  <2> QED BY <2>1, <2>4, RoundFields
<1> HIDE DEF next
<1>6. RoundLeads(next)
  <2>1. (rd.next + 1) - 2 = rd.next - 1 /\ (rd.next + 1) - 1 = rd.next
    BY <1>2
  <2>2. rd.next <= Len(Official) => rd.list[rd.next] = Official[rd.next]
    BY <1>2 DEF Leads
  <2> QED BY <1>1, <1>2, <1>3, <2>1, <2>2 DEF RoundLeads
<1> QED BY <1>5, <1>6 DEF next, tested

(* getDelays: an answer lets the round go on, or ends it and writes its list. *)
LEMMA AnswersKeep ==
  ASSUME LeadInv, NEW r \in Rounds, NEW d \in Delays, NodeAnswers(r, d)
  PROVE  LeadInv'
<1> DEFINE rd == round[r]
           n == rd.item
           e == [entry[rd.of] EXCEPT
                   ![n] = [delay |-> d, selection |-> @.selection /\ d = "ms"]]
           tested == Append(rd.newData, n)
           isUrl == rd.isUrl /\ ~e[n].selection
<1>1. /\ rd \in RunningRound /\ RoundLeads(rd) /\ rd.of \in Pages /\ rd.next \in Nat \ {0}
      /\ rd.isUrl \in BOOLEAN /\ RoundsSound(round) /\ TypeOK
  BY DEF LeadInv, RoundsSound, NodeAnswers, Running, RunningRound
<1>2. /\ tested \in Seq(Nodes) /\ n \in Nodes /\ rd.list \in Seq(Nodes)
      /\ Len(tested) = rd.next - 1
      /\ \A i \in 1 .. Len(Official) : i <= rd.next - 1 => tested[i] = Official[i]
      /\ rd.next > Len(rd.list) => Leads(tested)
  BY <1>1, TestedLeads
<1>3. e \in [Nodes -> Entry]
  <2>1. entry[rd.of] \in [Nodes -> Entry]
    BY <1>1 DEF TypeOK
  <2>2. [delay |-> d, selection |-> entry[rd.of][n].selection /\ d = "ms"] \in Entry
    BY <1>2, <2>1 DEF Entry
  <2> QED BY <2>1, <2>2
<1>4. UNCHANGED <<shown, loading, edit, wallet, told>>
  BY DEF NodeAnswers
<1>5. CASE rd.next <= Len(rd.list)
  <2> DEFINE next == [rd EXCEPT !.item = rd.list[rd.next], !.next = @ + 1,
                                !.newData = tested, !.isUrl = isUrl]
  <2>1. /\ KeepSelected(rd.of, e, n)
        /\ round' = [round EXCEPT ![r] = next]
        /\ UNCHANGED <<urlsData, nodeServiceData>>
    BY <1>5 DEF NodeAnswers
  <2>2. rd.list[rd.next] \in Nodes /\ isUrl \in BOOLEAN
    BY <1>1, <1>2, <1>3, <1>5 DEF Entry
  <2> HIDE DEF tested, e, isUrl
  <2>4. next \in RunningRound /\ RoundLeads(next)
    BY <1>1, <1>5, <2>2, RoundGoesOn DEF tested
  <2> HIDE DEF next
  <2>5. RoundsSound(round')
    BY <1>1, <2>1, <2>4, OneMoreSound
  <2>6. /\ urls' \in Nodes \union {None}
        /\ entry' \in [Pages -> [Nodes -> Entry]]
        /\ calls' \in [Nodes -> 0 .. MaxCalls]
    BY <1>1, <1>2, <1>3, <2>1, ChoiceTypes
  <2> QED BY <1>1, <1>4, <2>1, <2>5, <2>6
          DEF LeadInv, TypeOK, OfficialFirst, EditSound, RoundsSound
<1>6. CASE ~(rd.next <= Len(rd.list))
  <2>1. /\ IF isUrl THEN \E near \in Nodes : ChooseNearest(rd.of, tested, e, near)
           ELSE KeepSelected(rd.of, e, n)
        /\ nodeServiceData' = [nodeServiceData EXCEPT ![rd.of] = tested]
        /\ urlsData' = Rows(tested, entry'[rd.of])
        /\ round' = Detached([round EXCEPT ![r] = NoRound], rd.of)
    BY <1>6 DEF NodeAnswers
  <2>2. Leads(tested)
    <3>1. Len(rd.list) \in Nat
      BY <1>2
    <3> QED BY <1>1, <1>2, <1>6, <3>1
  <2> HIDE DEF tested, e, isUrl
  <2>3. /\ urls' \in Nodes \union {None}
        /\ entry' \in [Pages -> [Nodes -> Entry]]
        /\ calls' \in [Nodes -> 0 .. MaxCalls]
    BY <1>1, <1>2, <1>3, <2>1, ChoiceTypes
  <2>4. urlsData' \in Seq(Row) /\ Urls(urlsData') = tested
    BY <1>1, <1>2, <2>1, <2>3, RowsSound
  <2>5. RoundsSound(round')
    BY <1>1, <2>1, OneLessSound, DetachedSound
  <2>6. nodeServiceData' \in [Pages -> Seq(Nodes)]
    BY <1>1, <1>2, <2>1 DEF TypeOK
  <2>7. OfficialFirst'
    <3>1. Leads(Urls(urlsData'))
      BY <2>2, <2>4
    <3>2. ASSUME shown # None PROVE Leads(nodeServiceData'[shown])
      BY <1>1, <2>1, <2>2, <3>2 DEF LeadInv, OfficialFirst, TypeOK
    <3> QED BY <1>4, <3>1, <3>2 DEF OfficialFirst, Urls
  <2> QED BY <1>1, <1>4, <2>3, <2>4, <2>5, <2>6, <2>7
          DEF LeadInv, TypeOK, EditSound, RoundsSound
<1> QED BY <1>5, <1>6

-----------------------------------------------------------------------------
(* What getDelay writes, given a list the official nodes lead. *)
LEMMA GetDelayKeeps ==
  ASSUME TypeOK, NEW p \in Pages, NEW rounds, RoundsSound(rounds),
         NEW list \in Seq(Nodes), Leads(list), NEW e \in [Nodes -> Entry],
         GetDelay(p, rounds, list, e)
  PROVE  /\ entry' \in [Pages -> [Nodes -> Entry]]
         /\ nodeServiceData' \in [Pages -> Seq(Nodes)] /\ nodeServiceData'[p] = list
         /\ urlsData' \in Seq(Row) /\ Urls(urlsData') = list
         /\ RoundsSound(round')
<1> DEFINE marked == [n \in Nodes |->
             [e[n] EXCEPT !.delay = IF n \in Range(list) THEN "testing" ELSE @]]
<1>1. PICK r \in Rounds :
        /\ entry' = [entry EXCEPT ![p] = marked]
        /\ nodeServiceData' = [nodeServiceData EXCEPT ![p] = list]
        /\ urlsData' = Rows(list, marked)
        /\ round' = [Detached(rounds, p) EXCEPT ![r] = StartRound(p, list)]
  BY DEF GetDelay
<1>2. marked \in [Nodes -> Entry]
  <2>1. "testing" \in Delays
    BY DEF Delays
  <2>2. ASSUME NEW n \in Nodes
        PROVE  [e[n] EXCEPT !.delay = IF n \in Range(list) THEN "testing" ELSE @] \in Entry
    <3>1. (IF n \in Range(list) THEN "testing" ELSE e[n].delay) \in Delays
      BY <2>1 DEF Entry
    <3> QED BY <3>1 DEF Entry
  <2> QED BY <2>2
<1> HIDE DEF marked
<1>3. entry' \in [Pages -> [Nodes -> Entry]]
  BY <1>1, <1>2 DEF TypeOK
<1>4. nodeServiceData' \in [Pages -> Seq(Nodes)] /\ nodeServiceData'[p] = list
  BY <1>1 DEF TypeOK
<1>5. urlsData' \in Seq(Row) /\ Urls(urlsData') = list
  BY <1>1, <1>2, RowsSound
<1>6. RoundsSound(round')
  BY <1>1, DetachedSound, StartSound, OneMoreSound
<1> QED BY <1>3, <1>4, <1>5, <1>6

(* Entries with another selection. *)
LEMMA OnlySelectedType ==
  ASSUME NEW list, NEW e \in [Nodes -> Entry], NEW n \in Nodes
  PROVE  OnlySelected(list, e, n) \in [Nodes -> Entry]
<1>1. ASSUME NEW m \in Nodes
      PROVE  [e[m] EXCEPT !.selection =
                IF m \in Range(list) THEN m = n ELSE @ \/ m = n] \in Entry
  <2>1. (IF m \in Range(list) THEN m = n ELSE e[m].selection \/ m = n) \in BOOLEAN
    OBVIOUS
  <2>2. ASSUME NEW b \in BOOLEAN PROVE [e[m] EXCEPT !.selection = b] \in Entry
    BY DEF Entry
  <2> QED BY <2>1, <2>2
<1> QED BY <1>1 DEF OnlySelected

(* The place of a node of the user is behind the official nodes. *)
LEMMA CustomBehind ==
  ASSUME NEW list \in Seq(Nodes), Leads(list), NEW i \in DOMAIN list, list[i] \in Custom
  PROVE  i \in 1 .. Len(list) /\ i > Len(Official) /\ Len(Official) \in Nat
BY LeadsFirst DEF Leads

(* A node added behind the official ones, at the end or over another one. *)
LEMMA SubmittedLeads ==
  ASSUME NEW list \in Seq(Nodes), Leads(list), NEW n \in Nodes,
         NEW index \in Nat, index = 0 \/ index > Len(Official), index <= Len(list) + 1
  PROVE  Submitted(list, index, n) \in Seq(Nodes) /\ Leads(Submitted(list, index, n))
<1>1. /\ Len(Official) \in Nat /\ Len(Official) <= Len(list) /\ Len(list) \in Nat
      /\ \A i \in 1 .. Len(Official) : list[i] = Official[i]
  BY LeadsFirst DEF Leads
<1>2. CASE index = 0
  <2>1. Submitted(list, index, n) = Append(list, n)
    BY <1>2 DEF Submitted
  <2> QED BY <1>1, <2>1 DEF Leads
<1>3. CASE index # 0
  <2> DEFINE len == IF index > Len(list) THEN index ELSE Len(list)
  <2>1. /\ len \in Nat /\ Len(list) <= len /\ index \in 1 .. len
        /\ \A i \in 1 .. len : i # index => i \in 1 .. Len(list)
    BY <1>1, <1>3
  <2>2. Submitted(list, index, n) = [i \in 1 .. len |-> IF i = index THEN n ELSE list[i]]
    BY <1>3 DEF Submitted
  <2> HIDE DEF len
  <2>3. \A i \in 1 .. len : (IF i = index THEN n ELSE list[i]) \in Nodes
    BY <2>1
  <2>4. Submitted(list, index, n) \in [1 .. len -> Nodes]
    BY <2>2, <2>3, Zenon
  <2>4a. Submitted(list, index, n) \in Seq(Nodes) /\ Len(Submitted(list, index, n)) = len
    BY <2>1, <2>4
  <2>5. \A i \in 1 .. Len(Official) : i \in 1 .. len /\ i # index
    BY <1>1, <1>3, <2>1
  <2> QED BY <1>1, <2>1, <2>2, <2>4a, <2>5 DEF Leads
<1> QED BY <1>2, <1>3

(* A node of the user is taken out. *)
LEMMA RemovedLeads ==
  ASSUME NEW list \in Seq(Nodes), Leads(list), NEW i \in DOMAIN list, list[i] \in Custom
  PROVE  RemoveAt(list, i) \in Seq(Nodes) /\ Leads(RemoveAt(list, i))
<1>1. /\ i \in 1 .. Len(list) /\ i > Len(Official) /\ Len(Official) \in Nat
      /\ Len(list) \in Nat
      /\ \A k \in 1 .. Len(Official) : list[k] = Official[k]
  BY CustomBehind DEF Leads
<1> DEFINE front == SubSeq(list, 1, i - 1)
           back == SubSeq(list, i + 1, Len(list))
<1>2. /\ front \in Seq(Nodes) /\ Len(front) = i - 1
      /\ \A k \in 1 .. i - 1 : front[k] = list[k]
  BY <1>1
<1>3. back \in Seq(Nodes) /\ Len(back) \in Nat
  BY <1>1, SubSeqProperties
<1>4. RemoveAt(list, i) = front \o back
  BY DEF RemoveAt
<1> HIDE DEF front, back
<1>5. /\ front \o back \in Seq(Nodes) /\ Len(front \o back) = i - 1 + Len(back)
      /\ \A k \in 1 .. i - 1 : (front \o back)[k] = front[k]
  <2>1. i - 1 \in Nat /\ \A k \in 1 .. i - 1 : k <= Len(front) /\ k \in 1 .. Len(front) + Len(back)
    BY <1>1, <1>2, <1>3
  <2> QED BY <1>2, <1>3, <2>1, ConcatProperties
<1>6. Len(Official) <= Len(front \o back) /\ 1 .. Len(Official) \subseteq 1 .. i - 1
  BY <1>1, <1>3, <1>5
<1> QED BY <1>1, <1>2, <1>4, <1>5, <1>6 DEF Leads

(* BottomBar puts the official nodes in front. *)
LEMMA RestoredLeads ==
  ASSUME NEW selected, NEW rows \in Seq(Row)
  PROVE  /\ OfficialRows(selected) \o rows \in Seq(Row)
         /\ Leads(Urls(OfficialRows(selected) \o rows))
<1> DEFINE front == OfficialRows(selected)
<1>1. Official \in Seq(Nodes) /\ Len(Official) \in Nat /\ DOMAIN Official = 1 .. Len(Official)
  BY NodeConstants
<1>2. /\ front \in Seq(Row) /\ Len(front) = Len(Official)
      /\ \A i \in 1 .. Len(Official) : front[i].urls = Official[i]
  BY <1>1 DEF OfficialRows, Row
<1> HIDE DEF front
<1>3. /\ front \o rows \in Seq(Row) /\ Len(front \o rows) = Len(front) + Len(rows)
      /\ \A i \in 1 .. Len(front) : (front \o rows)[i] = front[i]
      /\ Len(rows) \in Nat
  <2>1. /\ Len(front) \in Nat /\ Len(rows) \in Nat
        /\ \A i \in 1 .. Len(front) : i <= Len(front) /\ i \in 1 .. Len(front) + Len(rows)
    BY <1>1, <1>2
  <2>2. \A i \in 1 .. Len(front) + Len(rows) : (front \o rows)[i] =
          IF i <= Len(front) THEN front[i] ELSE rows[i - Len(front)]
    BY <1>2, ConcatProperties
  <2>3. front \o rows \in Seq(Row) /\ Len(front \o rows) = Len(front) + Len(rows)
    BY <1>2, ConcatProperties
  <2> QED BY <2>1, <2>2, <2>3
<1>4. /\ Urls(front \o rows) \in Seq(Nodes)
      /\ Len(Urls(front \o rows)) = Len(front) + Len(rows)
      /\ \A i \in 1 .. Len(front) : Urls(front \o rows)[i] = front[i].urls
  <2>1. Urls(front \o rows) \in Seq(Nodes)
    BY <1>3, UrlsType
  <2>2. /\ DOMAIN (front \o rows) = 1 .. Len(front) + Len(rows)
        /\ Len(front) \in Nat
    BY <1>1, <1>2, <1>3
  <2>3. Urls(front \o rows) = [i \in 1 .. Len(front) + Len(rows) |-> (front \o rows)[i].urls]
    BY <2>2 DEF Urls
  <2>4. \A i \in 1 .. Len(front) : i \in 1 .. Len(front) + Len(rows)
    BY <1>3, <2>2
  <2> QED BY <1>3, <2>1, <2>2, <2>3, <2>4
<1> QED BY <1>1, <1>2, <1>3, <1>4 DEF Leads, front

-----------------------------------------------------------------------------
(* What OfficialFirst says, in terms of Urls. *)
LEMMA OfficialFirstUrls ==
  /\ OfficialFirst <=> Leads(Urls(urlsData)) /\ (shown # None => Leads(nodeServiceData[shown]))
  /\ OfficialFirst' <=>
       Leads(Urls(urlsData')) /\ (shown' # None => Leads(nodeServiceData'[shown']))
BY DEF OfficialFirst, Urls

(* created and mounted. *)
LEMMA OpenPageKeeps ==
  ASSUME LeadInv, NEW p \in Pages, OpenPage(p)
  PROVE  LeadInv'
<1> DEFINE list == Urls(urlsData)
           e == [n \in Nodes |-> [delay |-> "testing", selection |-> n \in Selected(urlsData)]]
<1>1. /\ TypeOK /\ RoundsSound(round) /\ EditSound /\ None \notin Pages
      /\ list \in Seq(Nodes) /\ Leads(list)
  BY NodeConstants, UrlsType, OfficialFirstUrls DEF LeadInv, TypeOK
<1>2. e \in [Nodes -> Entry]
  BY DEF Entry, Delays
<1>3. /\ shown' = p /\ loading' = FALSE /\ edit' = [edit EXCEPT ![p] = NoEdit]
      /\ GetDelay(p, round, list, e)
      /\ UNCHANGED <<urls, calls, wallet, told>>
  BY DEF OpenPage, Urls
<1> HIDE DEF list, e
<1>4. /\ entry' \in [Pages -> [Nodes -> Entry]]
      /\ nodeServiceData' \in [Pages -> Seq(Nodes)] /\ nodeServiceData'[p] = list
      /\ urlsData' \in Seq(Row) /\ Urls(urlsData') = list
      /\ RoundsSound(round')
  BY <1>1, <1>2, <1>3, GetDelayKeeps
<1>5. /\ edit' \in [Pages -> [index : Nat, node : Custom \union {None}, opened : BOOLEAN]]
      /\ EditSound'
  BY <1>1, <1>3 DEF TypeOK, EditSound, NoEdit
<1>6. OfficialFirst'
  BY <1>1, <1>3, <1>4, OfficialFirstUrls
<1> QED BY <1>1, <1>3, <1>4, <1>5, <1>6 DEF LeadInv, TypeOK, RoundsSound

(* The page is left. *)
LEMMA LeavePageKeeps ==
  ASSUME LeadInv, LeavePage
  PROVE  LeadInv'
<1>1. /\ TypeOK /\ shown \in Pages /\ shown' = None /\ loading' = FALSE
      /\ edit' = [edit EXCEPT ![shown] = NoEdit]
      /\ UNCHANGED <<urls, urlsData, round, calls, wallet, told>>
  BY DEF LeadInv, TypeOK, LeavePage, stored
<1>2. /\ nodeServiceData' \in [Pages -> Seq(Nodes)]
      /\ entry' \in [Pages -> [Nodes -> Entry]]
  <2>1. NoEntries \in [Nodes -> Entry] /\ <<>> \in Seq(Nodes)
    BY EmptySeq DEF NoEntries, Entry, Delays
  <2> QED BY <1>1, <2>1 DEF LeavePage, TypeOK
<1>3. /\ edit' \in [Pages -> [index : Nat, node : Custom \union {None}, opened : BOOLEAN]]
      /\ EditSound'
  BY <1>1 DEF LeadInv, TypeOK, EditSound, NoEdit
<1>4. OfficialFirst'
  BY <1>1, OfficialFirstUrls DEF LeadInv
<1> QED BY <1>1, <1>2, <1>3, <1>4 DEF LeadInv, TypeOK, RoundsSound

(* Another node is chosen: the list stays. *)
LEMMA EditStateKeeps ==
  ASSUME LeadInv, NEW n \in Nodes, EditState(n)
  PROVE  LeadInv'
<1> DEFINE list == nodeServiceData[shown]
           chosen == OnlySelected(list, entry[shown], n)
<1>1. /\ TypeOK /\ shown \in Pages /\ list \in Seq(Nodes) /\ Leads(list)
      /\ entry[shown] \in [Nodes -> Entry]
  BY DEF LeadInv, TypeOK, EditState, OfficialFirst
<1>2. /\ entry' = [entry EXCEPT ![shown] = chosen]
      /\ urls' = n /\ urlsData' = Rows(list, entry'[shown]) /\ loading' = TRUE
      /\ SetUrlAddress(n)
      /\ UNCHANGED <<shown, nodeServiceData, edit, round, wallet, told>>
  BY DEF EditState
<1>3. chosen \in [Nodes -> Entry]
  BY <1>1, OnlySelectedType
<1> HIDE DEF chosen
<1>4. entry' \in [Pages -> [Nodes -> Entry]] /\ entry'[shown] = chosen
  BY <1>1, <1>2, <1>3 DEF TypeOK
<1>5. urlsData' \in Seq(Row) /\ Urls(urlsData') = list
  BY <1>1, <1>2, <1>3, <1>4, RowsSound
<1>6. calls' \in [Nodes -> 0 .. MaxCalls]
  BY <1>1, <1>2, CallTypes
<1>7. OfficialFirst'
  BY <1>1, <1>2, <1>5, OfficialFirstUrls
<1> QED BY <1>1, <1>2, <1>4, <1>5, <1>6, <1>7 DEF LeadInv, TypeOK, EditSound, RoundsSound

(* The dialog of a node of the user is opened: it stands behind the official ones. *)
LEMMA EditKeeps ==
  ASSUME LeadInv, NEW n \in Nodes, Edit(n)
  PROVE  LeadInv'
<1>1. /\ TypeOK /\ shown \in Pages /\ n \in Custom
      /\ nodeServiceData[shown] \in Seq(Nodes) /\ Leads(nodeServiceData[shown])
      /\ UNCHANGED <<urls, urlsData, shown, nodeServiceData, entry, loading, round, calls,
                     wallet, told>>
  BY DEF LeadInv, TypeOK, Edit, OfficialFirst, stored
<1>2. PICK i \in DOMAIN nodeServiceData[shown] :
        /\ nodeServiceData[shown][i] = n
        /\ edit' = [edit EXCEPT ![shown] = [index |-> i, node |-> n, opened |-> TRUE]]
  BY DEF Edit
<1>3. i > Len(Official) /\ i \in Nat
  BY <1>1, <1>2, CustomBehind
<1>4. /\ edit' \in [Pages -> [index : Nat, node : Custom \union {None}, opened : BOOLEAN]]
      /\ EditSound'
  BY <1>1, <1>2, <1>3 DEF LeadInv, TypeOK, EditSound
<1> QED BY <1>1, <1>4 DEF LeadInv, TypeOK, OfficialFirst, RoundsSound

(* A node is added, at the end or over the one that came to the place of an edited one. *)
LEMMA SubmitFormKeeps ==
  ASSUME LeadInv, NEW n \in Nodes, NEW resource \in BOOLEAN, SubmitForm(n, resource)
  PROVE  LeadInv'
<1> DEFINE before == nodeServiceData[shown]
           index == edit[shown].index
           list == Submitted(before, index, n)
           added == [entry[shown] EXCEPT ![n].selection = FALSE]
           e == IF resource THEN OnlySelected(before, added, n) ELSE added
           rounds == InPlace(round, shown, list)
<1>1. /\ TypeOK /\ shown \in Pages /\ RoundsSound(round) /\ EditSound
      /\ before \in Seq(Nodes) /\ Leads(before)
      /\ entry[shown] \in [Nodes -> Entry]
      /\ index \in Nat /\ (index = 0 \/ index > Len(Official)) /\ index <= Len(before) + 1
  BY DEF LeadInv, TypeOK, SubmitForm, OfficialFirst, EditSound
<1>2. /\ GetDelay(shown, rounds, list, e)
      /\ edit' = [edit EXCEPT ![shown].opened = TRUE,
                              ![shown].node = IF n = @ THEN None ELSE @]
      /\ UNCHANGED <<urls, shown, loading, calls, wallet, told>>
  BY DEF SubmitForm
<1>3. added \in [Nodes -> Entry]
  BY <1>1 DEF Entry
<1>4. e \in [Nodes -> Entry]
  <2> HIDE DEF added
  <2> QED BY <1>3, OnlySelectedType
<1>5. list \in Seq(Nodes) /\ Leads(list)
  BY <1>1, SubmittedLeads
<1> HIDE DEF list, e
<1>6. RoundsSound(rounds)
  BY <1>1, <1>5, InPlaceSound
<1> HIDE DEF rounds
<1>7. /\ entry' \in [Pages -> [Nodes -> Entry]]
      /\ nodeServiceData' \in [Pages -> Seq(Nodes)] /\ nodeServiceData'[shown] = list
      /\ urlsData' \in Seq(Row) /\ Urls(urlsData') = list
      /\ RoundsSound(round')
  BY <1>1, <1>2, <1>4, <1>5, <1>6, GetDelayKeeps
<1>8. /\ edit' \in [Pages -> [index : Nat, node : Custom \union {None}, opened : BOOLEAN]]
      /\ EditSound'
  <2> DEFINE opened == [edit EXCEPT ![shown].opened = TRUE]
             node == IF n = edit[shown].node THEN None ELSE edit[shown].node
  <2>1. /\ opened \in [Pages -> [index : Nat, node : Custom \union {None}, opened : BOOLEAN]]
        /\ \A p \in Pages : opened[p].index = edit[p].index
        /\ opened[shown].node = edit[shown].node
    BY <1>1 DEF TypeOK
  <2>2. node \in Custom \union {None}
    BY <1>1 DEF TypeOK
  <2>3. edit' = [opened EXCEPT ![shown].node = node]
    BY <1>1, <1>2, <2>1 DEF TypeOK
  <2> HIDE DEF opened, node
  <2> QED BY <1>1, <2>1, <2>2, <2>3 DEF EditSound
<1>9. OfficialFirst'
  BY <1>2, <1>5, <1>7, OfficialFirstUrls
<1> QED BY <1>1, <1>2, <1>7, <1>8, <1>9 DEF LeadInv, TypeOK, RoundsSound

(* A node of the user is removed, once confirmed. *)
LEMMA RemoveUrlKeeps ==
  ASSUME LeadInv, NEW n \in Nodes, RemoveUrl(n)
  PROVE  LeadInv'
<1>1. /\ TypeOK /\ shown \in Pages /\ n \in Custom /\ RoundsSound(round)
      /\ nodeServiceData[shown] \in Seq(Nodes) /\ Leads(nodeServiceData[shown])
      /\ entry[shown] \in [Nodes -> Entry]
      /\ UNCHANGED <<urls, shown, entry, loading, edit, calls, wallet, told>>
  BY DEF LeadInv, TypeOK, RemoveUrl, OfficialFirst
<1>2. PICK i \in DOMAIN nodeServiceData[shown], r \in Rounds :
        LET list == RemoveAt(nodeServiceData[shown], i)
        IN  /\ nodeServiceData[shown][i] = n
            /\ nodeServiceData' = [nodeServiceData EXCEPT ![shown] = list]
            /\ urlsData' = Rows(list, entry[shown])
            /\ round' = [InPlace(round, shown, list) EXCEPT ![r] = StartRound(shown, list)]
  BY DEF RemoveUrl
<1> DEFINE list == RemoveAt(nodeServiceData[shown], i)
<1>3. list \in Seq(Nodes) /\ Leads(list)
  BY <1>1, <1>2, RemovedLeads
<1>4. /\ nodeServiceData' = [nodeServiceData EXCEPT ![shown] = list]
      /\ urlsData' = Rows(list, entry[shown])
      /\ round' = [InPlace(round, shown, list) EXCEPT ![r] = StartRound(shown, list)]
  BY <1>2
<1> HIDE DEF list
<1>5. urlsData' \in Seq(Row) /\ Urls(urlsData') = list
  BY <1>1, <1>3, <1>4, RowsSound
<1>6. RoundsSound(round')
  BY <1>1, <1>3, <1>4, InPlaceSound, StartSound, OneMoreSound
<1>7. nodeServiceData' \in [Pages -> Seq(Nodes)] /\ nodeServiceData'[shown] = list
  BY <1>1, <1>3, <1>4 DEF TypeOK
<1>8. OfficialFirst'
  BY <1>1, <1>3, <1>5, <1>7, OfficialFirstUrls
<1> QED BY <1>1, <1>5, <1>6, <1>7, <1>8 DEF LeadInv, TypeOK, EditSound, RoundsSound

(* The application is loaded again. *)
LEMMA ReloadKeeps ==
  ASSUME LeadInv, Reload
  PROVE  LeadInv'
<1>1. /\ TypeOK
      /\ shown' = None /\ loading' = FALSE
      /\ nodeServiceData' = [p \in Pages |-> <<>>] /\ entry' = [p \in Pages |-> NoEntries]
      /\ edit' = [p \in Pages |-> NoEdit] /\ round' = [r \in Rounds |-> NoRound]
      /\ urlsData' = OfficialRows(SelectionUrl(urlsData)) \o CustomRows(urlsData)
      /\ UNCHANGED <<urls, calls, wallet, told>>
  BY DEF LeadInv, Reload
<1>2. urlsData' \in Seq(Row) /\ Leads(Urls(urlsData'))
  <2>1. CustomRows(urlsData) \in Seq(Row)
    BY <1>1, CustomRowsType DEF TypeOK
  <2> QED BY <1>1, <2>1, RestoredLeads
<1>3. /\ NoEntries \in [Nodes -> Entry] /\ <<>> \in Seq(Nodes)
      /\ NoEdit \in [index : Nat, node : Custom \union {None}, opened : BOOLEAN]
  BY EmptySeq DEF NoEntries, Entry, Delays, NoEdit
<1>4. /\ nodeServiceData' \in [Pages -> Seq(Nodes)] /\ entry' \in [Pages -> [Nodes -> Entry]]
      /\ edit' \in [Pages -> [index : Nat, node : Custom \union {None}, opened : BOOLEAN]]
      /\ EditSound' /\ RoundsSound(round')
  BY <1>1, <1>3 DEF EditSound, NoEdit, RoundsSound
<1>5. OfficialFirst'
  BY <1>1, <1>2, OfficialFirstUrls
<1> QED BY <1>1, <1>2, <1>4, <1>5 DEF LeadInv, TypeOK, RoundsSound

Wallets == [apiModuleAddress : Nodes, prevApiModuleAddress : Nodes \union {None},
            isCreateNewClient : BOOLEAN, rpcHttpClient : Nodes]

(* What leaves the lists and the rounds alone. *)
LEMMA ElsewhereKeeps ==
  ASSUME LeadInv, UNCHANGED <<stored, shown, nodeServiceData, entry, edit, round>>,
         calls' \in [Nodes -> 0 .. MaxCalls], loading' \in BOOLEAN, told' \in BOOLEAN,
         wallet' \in Wallets
  PROVE  LeadInv'
<1>1. OfficialFirst'
  BY OfficialFirstUrls DEF LeadInv, stored
<1> QED BY <1>1 DEF LeadInv, TypeOK, EditSound, RoundsSound, stored, Wallets

(* The wallet, and the end of editState's timeout. *)
LEMMA WalletKeeps ==
  ASSUME LeadInv, NEW n \in Nodes,
         \/ SetProperty(n) \/ SetPropertyFails(n) \/ RemoteCall
         \/ WalletRestarts \/ LoadingEnds
  PROVE  LeadInv'
<1>1. TypeOK /\ MaxCalls \in Nat /\ Configured \in Nodes /\ wallet \in Wallets
  BY NodeConstants DEF LeadInv, TypeOK, Wallets
<1>2. ASSUME calls[n] > 0, calls' = [calls EXCEPT ![n] = @ - 1]
      PROVE  calls' \in [Nodes -> 0 .. MaxCalls]
  BY <1>1, <1>2 DEF TypeOK
<1>3. CASE SetProperty(n)
  <2>1. wallet' \in Wallets
    BY <1>1, <1>3 DEF SetProperty, Wallets
  <2> QED BY <1>1, <1>2, <1>3, <2>1, ElsewhereKeeps DEF SetProperty, TypeOK, page
<1>4. CASE SetPropertyFails(n)
  BY <1>1, <1>2, <1>4, ElsewhereKeeps DEF SetPropertyFails, TypeOK, page
<1>5. CASE RemoteCall
  <2>1. wallet' \in Wallets
    BY <1>1, <1>5 DEF RemoteCall, Wallets
  <2> QED BY <1>1, <1>5, <2>1, ElsewhereKeeps DEF RemoteCall, TypeOK, page
<1>6. CASE WalletRestarts
  <2>1. wallet' \in Wallets
    BY <1>1, <1>6 DEF WalletRestarts, Started, Wallets
  <2> QED BY <1>1, <1>6, <2>1, ElsewhereKeeps DEF WalletRestarts, TypeOK, page
<1>7. CASE LoadingEnds
  BY <1>1, <1>7, ElsewhereKeeps DEF LoadingEnds, TypeOK
<1> QED BY <1>3, <1>4, <1>5, <1>6, <1>7

-----------------------------------------------------------------------------
LEMMA LeadInit == Init => LeadInv
<1> SUFFICES ASSUME Init PROVE LeadInv
  OBVIOUS
<1>1. /\ NoEntries \in [Nodes -> Entry] /\ <<>> \in Seq(Nodes)
      /\ NoEdit \in [index : Nat, node : Custom \union {None}, opened : BOOLEAN]
      /\ Configured \in Nodes /\ MaxCalls \in Nat
  BY EmptySeq, NodeConstants DEF NoEntries, Entry, Delays, NoEdit
<1>2. urlsData \in Seq(Row) /\ Leads(Urls(urlsData))
  <2>1. Official \in Seq(Nodes) /\ DOMAIN Official = 1 .. Len(Official) /\ Len(Official) \in Nat
    BY NodeConstants
  <2>2. OfficialRows({}) \in Seq(Row) /\ Urls(OfficialRows({})) = Official
    BY <2>1 DEF OfficialRows, Row, Urls
  <2> QED BY <2>1, <2>2 DEF Init, Leads
<1>3. OfficialFirst
  BY <1>2, OfficialFirstUrls DEF Init
<1>4. RoundsSound(round) /\ EditSound
  BY DEF Init, RoundsSound, EditSound, NoEdit
<1>5. wallet \in [apiModuleAddress : Nodes, prevApiModuleAddress : Nodes \union {None},
                  isCreateNewClient : BOOLEAN, rpcHttpClient : Nodes]
  BY <1>1 DEF Init, Started
<1>6. calls \in [Nodes -> 0 .. MaxCalls]
  BY <1>1 DEF Init
<1>7. TypeOK
  BY <1>1, <1>2, <1>4, <1>5, <1>6 DEF Init, TypeOK, RoundsSound
<1> QED BY <1>3, <1>4, <1>7 DEF LeadInv

LEMMA LeadStep == LeadInv /\ [Next]_vars => LeadInv'
<1> SUFFICES ASSUME LeadInv, [Next]_vars PROVE LeadInv'
  OBVIOUS
<1>0. \E n \in Nodes : TRUE
  BY NodeConstants
<1>1. CASE UNCHANGED vars
  <2>1. UNCHANGED <<stored, shown, nodeServiceData, entry, loading, edit, round, calls,
                    wallet, told>>
    BY <1>1 DEF vars, page
  <2> QED BY <2>1, ElsewhereKeeps DEF LeadInv, TypeOK, Wallets
<1>2. CASE \E n \in Nodes :
             \/ SetProperty(n) \/ SetPropertyFails(n) \/ RemoteCall
             \/ WalletRestarts \/ LoadingEnds
  BY <1>2, WalletKeeps
<1>3. CASE \E n \in Nodes : EditState(n) \/ RemoveUrl(n) \/ Edit(n)
  BY <1>3, EditStateKeeps, RemoveUrlKeeps, EditKeeps
<1>4. CASE \E n \in Nodes, resource \in BOOLEAN : SubmitForm(n, resource)
  BY <1>4, SubmitFormKeeps
<1>5. CASE \E r \in Rounds, d \in Delays \ {"testing"} : NodeAnswers(r, d)
  BY <1>5, AnswersKeep
<1>6. CASE \E p \in Pages : OpenPage(p)
  BY <1>6, OpenPageKeeps
<1>7. CASE LeavePage \/ Reload
  BY <1>7, LeavePageKeeps, ReloadKeeps
<1> QED BY <1>0, <1>1, <1>2, <1>3, <1>4, <1>5, <1>6, <1>7 DEF Next

(* The node page, the tests, the wallet and the calls stay in their types, for any
   nodes and any number of rounds. *)
THEOREM TypeCorrect == Spec => []TypeOK
<1>1. LeadInv => TypeOK
  BY DEF LeadInv
<1> QED BY LeadInit, LeadStep, <1>1, PTL DEF Spec

(* Whatever the user does, and however many older rounds write their lists back: the
   official nodes stay in front of the stored list and of the list shown. *)
THEOREM OfficialStays == Spec => []OfficialFirst
<1>1. LeadInv => OfficialFirst
  BY DEF LeadInv
<1> QED BY LeadInit, LeadStep, <1>1, PTL DEF Spec
=============================================================================
