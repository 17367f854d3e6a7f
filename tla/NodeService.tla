---------------------------- MODULE NodeService ----------------------------
(***************************************************************************)
(* The page of the web client on which the user keeps the list of nodes    *)
(* and chooses one (views/set/NodeService.vue), the bar that restores the  *)
(* list when the application loads (components/BottomBar.vue), and the     *)
(* wallet, which is told of every choice (setProperty).                    *)
(*                                                                         *)
(* A test round (getDelays) asks one node after the other; between two     *)
(* answers the user and other rounds may change the same list and the same *)
(* entries.  A page that was left goes on testing with its own entries.    *)
(***************************************************************************)
EXTENDS Naturals, SequencesExt

CONSTANTS
  Nodes,
  Official,    \* defaultData: the nodes that cannot be removed, in order
  Configured,  \* the node the wallet is configured for when it starts
  Pages,       \* instances of the page: the one shown and ones already left
  Rounds,      \* test rounds that may run at a time
  Patient,     \* does the user wait until all nodes are tested?
  Prompt,      \* is the wallet told before the user acts again?
  MaxCalls,    \* bound: equal calls of the wallet under way at a time
  None

Custom == Nodes \ Range(Official)

ASSUME NodeConstants ==
  /\ Official \in Seq(Nodes) /\ Official # <<>> /\ IsInjective(Official)
  /\ Configured \in Nodes
  /\ {Patient, Prompt} \subseteq BOOLEAN
  /\ MaxCalls \in Nat \ {0}
  /\ None \notin Nodes \union Pages

VARIABLES
  urls, urlsData,   \* localStorage: the node in use, and the list
  shown,            \* the page on the screen
  nodeServiceData,  \* the list of each page
  entry,            \* the objects its entries are
  loading,          \* the overlay while a choice is being made
  edit,             \* editIndex and nodeServiceForm of each page
  round,            \* the test rounds
  calls,            \* setProperty calls under way, for each node
  wallet,           \* ApiModuleInfoConfig and the client of HttpClient
  told              \* did the wallet take the last call that reached it?

stored == <<urls, urlsData>>
page == <<shown, nodeServiceData, entry, loading, edit>>
vars == <<stored, page, round, calls, wallet, told>>

\* delay: milliseconds, or 100000 (no result), 200000 (no answer), 300000
Delays == {"ms", "noResult", "noAnswer", "testing"}
Entry == [delay : Delays, selection : BOOLEAN]
NoEntries == [n \in Nodes |-> [delay |-> "testing", selection |-> FALSE]]
Row == [urls : Nodes, selection : BOOLEAN]
NoRound == [of |-> None]

\* Which place of the list edit() left in editIndex (0 is 10000, none), and whose
\* entry the form is bound to; whether the dialog was opened at all.
NoEdit == [index |-> 0, node |-> None, opened |-> FALSE]
RunningRound ==
  [of : Pages, list : Seq(Nodes), shared : BOOLEAN, item : Nodes,
   next : Nat \ {0}, newData : Seq(Nodes), isUrl : BOOLEAN]

Running(r) == round[r] # NoRound
Testing == \E r \in Rounds : Running(r)
Quiet == ~Testing /\ \A n \in Nodes : calls[n] = 0
UserMayAct == (Patient => ~Testing) /\ (Prompt => \A n \in Nodes : calls[n] = 0)

\* What JSON.stringify keeps of a list.
Rows(list, e) ==
  [i \in DOMAIN list |-> [urls |-> list[i], selection |-> e[list[i]].selection]]

Listed(rows) == {rows[i].urls : i \in DOMAIN rows}
Selected(rows) == {rows[i].urls : i \in {j \in DOMAIN rows : rows[j].selection}}

-----------------------------------------------------------------------------
(***************************************************************************)
(* The wallet: setProperty("apiModuleAddress", n) and getRpcHttpClient,    *)
(* each in one step (their steps are in ApiClient)                         *)
(***************************************************************************)
\* (First a slip: no client is made.)
StartedWithoutClient ==
  [apiModuleAddress |-> Configured, prevApiModuleAddress |-> None,
   isCreateNewClient |-> FALSE, rpcHttpClient |-> None]

Started ==
  [apiModuleAddress |-> Configured, prevApiModuleAddress |-> None,
   isCreateNewClient |-> FALSE, rpcHttpClient |-> Configured]

\* setUrlAddress: a call is sent, its answer only shows a message.
SetUrlAddress(n) ==
  /\ calls[n] < MaxCalls
  /\ calls' = [calls EXCEPT ![n] = @ + 1]

SetProperty(n) ==
  /\ calls[n] > 0
  /\ calls' = [calls EXCEPT ![n] = @ - 1]
  /\ wallet' = [wallet EXCEPT !.prevApiModuleAddress = wallet.apiModuleAddress,
                              !.apiModuleAddress = n,
                              !.isCreateNewClient = TRUE]
  /\ told' = TRUE
  /\ UNCHANGED <<stored, page, round>>

\* The call is lost, refused or times out.
SetPropertyFails(n) ==
  /\ calls[n] > 0
  /\ calls' = [calls EXCEPT ![n] = @ - 1]
  /\ told' = FALSE
  /\ UNCHANGED <<stored, page, round, wallet>>

\* Any request of the wallet that needs the API module.
RemoteCall ==
  /\ wallet.isCreateNewClient
  /\ wallet.prevApiModuleAddress \notin {None, wallet.apiModuleAddress}
  /\ wallet' = [wallet EXCEPT !.rpcHttpClient = wallet.apiModuleAddress,
                              !.isCreateNewClient = FALSE]
  /\ UNCHANGED <<stored, page, round, calls, told>>

\* The address is not persisted.
WalletRestarts ==
  /\ wallet' = Started
  /\ told' = FALSE
  /\ UNCHANGED <<stored, page, round, calls>>

-----------------------------------------------------------------------------
(***************************************************************************)
(* Test rounds                                                             *)
(***************************************************************************)
\* A round iterates over the very array nodeServiceData is, while it is.
StartRound(p, list) ==
  [of |-> p, list |-> list, shared |-> TRUE, item |-> Head(list), next |-> 2,
   newData |-> <<>>, isUrl |-> TRUE]

\* nodeServiceData of p becomes another array.
Detached(rounds, p) ==
  [r \in Rounds |-> IF rounds[r] # NoRound /\ rounds[r].of = p
                    THEN [rounds[r] EXCEPT !.shared = FALSE]
                    ELSE rounds[r]]

\* A change of the array in place is seen by the rounds that iterate over it.
InPlace(rounds, p, list) ==
  [r \in Rounds |-> IF rounds[r] # NoRound /\ rounds[r].of = p /\ rounds[r].shared
                    THEN [rounds[r] EXCEPT !.list = list]
                    ELSE rounds[r]]

\* Delays as the code compares them.
Rank == [ms |-> 1, noResult |-> 2, noAnswer |-> 3, testing |-> 4]

\* The first of the entries with the smallest delay; which of two nodes that
\* answered is faster is up to the network.
Nearest(list, e) ==
  LET rank == [i \in DOMAIN list |-> Rank[e[list[i]].delay]]
      Beats(i, j) == \/ rank[i] < rank[j]
                     \/ rank[i] = rank[j] /\ (i <= j \/ rank[i] = Rank.ms)
  IN  {list[i] : i \in {j \in DOMAIN list : \A k \in DOMAIN list : Beats(j, k)}}


ChooseUntold(p, list, e, n) ==
  /\ n \in Nearest(list, e)
  /\ entry' = [entry EXCEPT ![p] = [e EXCEPT ![n].selection = TRUE]]
  /\ urls' = n
  /\ UNCHANGED calls

ChooseAnswering(p, list, e, n) ==
  /\ n \in Nearest(list, e)
  /\ IF e[n].delay = "ms"
     THEN /\ entry' = [entry EXCEPT ![p] = [e EXCEPT ![n].selection = TRUE]]
          /\ urls' = n
          /\ SetUrlAddress(n)
     ELSE /\ entry' = [entry EXCEPT ![p] = e]
          /\ UNCHANGED <<urls, calls>>

\* The round is over: without a selected node that answered, the nearest one
\* is chosen; the tested entries become the list.
ChooseNearest(p, list, e, n) ==
  /\ n \in Nearest(list, e)
  /\ entry' = [entry EXCEPT ![p] = [e EXCEPT ![n].selection = TRUE]]
  /\ urls' = n
  /\ SetUrlAddress(n)

\* The entry just tested, if selected, is stored and told again.
KeepSelected(p, e, n) ==
  /\ entry' = [entry EXCEPT ![p] = e]
  /\ IF e[n].selection
     THEN urls' = n /\ SetUrlAddress(n)
     ELSE UNCHANGED <<urls, calls>>

NodeAnswers(r, d) ==
  /\ Running(r)
  /\ LET rd == round[r]
         n == rd.item
         e == [entry[rd.of] EXCEPT
                 ![n] = [delay |-> d, selection |-> @.selection /\ d = "ms"]]
         tested == Append(rd.newData, n)
         isUrl == rd.isUrl /\ ~e[n].selection
     IN  IF rd.next <= Len(rd.list)
         THEN /\ KeepSelected(rd.of, e, n)
              /\ round' = [round EXCEPT ![r] =
                   [rd EXCEPT !.item = rd.list[rd.next], !.next = @ + 1,
                              !.newData = tested, !.isUrl = isUrl]]
              /\ UNCHANGED <<urlsData, nodeServiceData>>
         ELSE /\ IF isUrl
                 THEN \E near \in Nodes : ChooseNearest(rd.of, tested, e, near)
                 ELSE KeepSelected(rd.of, e, n)
              /\ nodeServiceData' = [nodeServiceData EXCEPT ![rd.of] = tested]
              /\ urlsData' = Rows(tested, entry'[rd.of])
              /\ round' = Detached([round EXCEPT ![r] = NoRound], rd.of)
  /\ UNCHANGED <<shown, loading, edit, wallet, told>>

\* getDelay: the list becomes a new array, every entry is marked, a round
\* starts; rounds: those under way.
GetDelay(p, rounds, list, e) ==
  \E r \in Rounds :
    LET marked == [n \in Nodes |->
          [e[n] EXCEPT !.delay = IF n \in Range(list) THEN "testing" ELSE @]]
    IN  /\ ~Running(r)
        /\ entry' = [entry EXCEPT ![p] = marked]
        /\ nodeServiceData' = [nodeServiceData EXCEPT ![p] = list]
        /\ urlsData' = Rows(list, marked)
        /\ round' = [Detached(rounds, p) EXCEPT ![r] = StartRound(p, list)]

-----------------------------------------------------------------------------
(***************************************************************************)
(* What the user does                                                      *)
(***************************************************************************)
\* created and mounted: the entries are new objects, read from urlsData.
OpenPage(p) ==
  /\ UserMayAct
  /\ shown = None
  /\ \A r \in Rounds : round[r].of # p
  /\ shown' = p
  /\ loading' = FALSE
  /\ edit' = [edit EXCEPT ![p] = NoEdit]
  /\ GetDelay(p, round, [i \in DOMAIN urlsData |-> urlsData[i].urls],
              [n \in Nodes |-> [delay |-> "testing",
                                selection |-> n \in Selected(urlsData)]])
  /\ UNCHANGED <<urls, calls, wallet, told>>

\* Nothing is left of the page but its rounds, with the entries they test.
LeavePage ==
  /\ UserMayAct
  /\ shown # None
  /\ shown' = None
  /\ loading' = FALSE
  /\ edit' = [edit EXCEPT ![shown] = NoEdit]
  /\ IF \E r \in Rounds : round[r].of = shown
     THEN UNCHANGED <<nodeServiceData, entry>>
     ELSE /\ nodeServiceData' = [nodeServiceData EXCEPT ![shown] = <<>>]
          /\ entry' = [entry EXCEPT ![shown] = NoEntries]
  /\ UNCHANGED <<stored, round, calls, wallet, told>>

\* The entries with n as the only selected one of the list.
OnlySelected(list, e, n) ==
  [m \in Nodes |-> [e[m] EXCEPT !.selection =
     IF m \in Range(list) THEN m = n ELSE @ \/ m = n]]

EditState(n) ==
  /\ UserMayAct
  /\ shown # None /\ ~loading
  /\ n \in Range(nodeServiceData[shown])
  /\ entry[shown][n].delay \notin {"noAnswer", "testing"}
  /\ ~entry[shown][n].selection
  /\ entry' = [entry EXCEPT ![shown] =
                 OnlySelected(nodeServiceData[shown], @, n)]
  /\ urls' = n
  /\ urlsData' = Rows(nodeServiceData[shown], entry'[shown])
  /\ loading' = TRUE
  /\ SetUrlAddress(n)
  /\ UNCHANGED <<shown, nodeServiceData, edit, round, wallet, told>>

\* After two seconds.
LoadingEnds ==
  /\ loading
  /\ loading' = FALSE
  /\ UNCHANGED <<stored, shown, nodeServiceData, entry, edit, round, calls, wallet, told>>

\* edit: the form becomes the entry itself, and no address in it can be
\* submitted as long as the list has that entry.  The dialog is closed again,
\* which writes back the values it was first opened with.  (They are others if
\* it was opened before: what the form library does to the entry then is left out.)
Edit(n) ==
  /\ UserMayAct
  /\ shown # None /\ ~loading
  /\ n \in Custom
  /\ ~edit[shown].opened
  /\ \E i \in DOMAIN nodeServiceData[shown] :
       /\ nodeServiceData[shown][i] = n
       /\ edit' = [edit EXCEPT ![shown] = [index |-> i, node |-> n, opened |-> TRUE]]
  /\ UNCHANGED <<stored, shown, nodeServiceData, entry, loading, round, calls, wallet, told>>

\* The entries of page p, and those its rounds hold on to.
HeldBy(p) ==
  UNION ({Range(nodeServiceData[p])} \union
         {{round[r].item} \union Range(round[r].list) \union Range(round[r].newData) :
            r \in {r \in Rounds : Running(r) /\ round[r].of = p}})

\* editIndex is never reset: every later node is written to that place.
Submitted(list, index, n) ==
  IF index = 0 THEN Append(list, n)
  ELSE [i \in 1 .. (IF index > Len(list) THEN index ELSE Len(list)) |->
          IF i = index THEN n ELSE list[i]]

\* submitForm, after the node has answered a test: it is new to the list, and
\* it may be used at once.  The array changes in place before getDelay.  (Bounds:
\* no place is left empty in the list, and neither the node nor the one edited is
\* still in a round that took it up before it was removed.)
SubmitForm(n, resource) ==
  /\ UserMayAct
  /\ shown # None /\ ~loading
  /\ edit[shown].index <= Len(nodeServiceData[shown]) + 1
  /\ {n, edit[shown].node} \intersect HeldBy(shown) = {}
  /\ LET before == nodeServiceData[shown]
         list == Submitted(before, edit[shown].index, n)
         e == [entry[shown] EXCEPT ![n].selection = FALSE]
     IN  GetDelay(shown, InPlace(round, shown, list), list,
                  IF resource THEN OnlySelected(before, e, n) ELSE e)
  /\ edit' = [edit EXCEPT ![shown].opened = TRUE,
                          ![shown].node = IF n = @ THEN None ELSE @]
  /\ UNCHANGED <<urls, shown, loading, calls, wallet, told>>

\* removeUrl, once confirmed: a round starts on the list as it is.
RemoveUrl(n) ==
  /\ UserMayAct
  /\ shown # None /\ ~loading
  /\ n \in Custom
  /\ \E i \in DOMAIN nodeServiceData[shown], r \in Rounds :
       LET list == RemoveAt(nodeServiceData[shown], i)
       IN  /\ nodeServiceData[shown][i] = n
           /\ ~Running(r)
           /\ nodeServiceData' = [nodeServiceData EXCEPT ![shown] = list]
           /\ urlsData' = Rows(list, entry[shown])
           /\ round' = [InPlace(round, shown, list) EXCEPT
                          ![r] = StartRound(shown, list)]
  /\ UNCHANGED <<urls, shown, entry, loading, edit, calls, wallet, told>>

\* The row that counts as selected is the last one.
SelectionUrl(rows) ==
  {rows[i].urls : i \in {j \in DOMAIN rows :
     rows[j].selection /\ \A k \in j + 1 .. Len(rows) : ~rows[k].selection}}


\* The rows that are not official, in their order.
CustomRows(rows) ==
  LET kept[i \in 0 .. Len(rows)] ==
        IF i = 0 THEN <<>>
        ELSE IF rows[i].urls \in Custom THEN Append(kept[i - 1], rows[i])
        ELSE kept[i - 1]
  IN  kept[Len(rows)]

OfficialRows(selected) ==
  [i \in DOMAIN Official |-> [urls |-> Official[i], selection |-> Official[i] \in selected]]

\* The application is loaded (again): pages and rounds are gone; BottomBar puts
\* the official nodes in front, selected if they were, and keeps the others.
Reload ==
  /\ shown' = None
  /\ nodeServiceData' = [p \in Pages |-> <<>>]
  /\ entry' = [p \in Pages |-> NoEntries]
  /\ loading' = FALSE
  /\ edit' = [p \in Pages |-> NoEdit]
  /\ round' = [r \in Rounds |-> NoRound]
  /\ urlsData' = OfficialRows(SelectionUrl(urlsData)) \o CustomRows(urlsData)
  /\ UNCHANGED <<urls, calls, wallet, told>>

-----------------------------------------------------------------------------
\* The first time the application is loaded.
Init ==
  /\ urls = None
  /\ urlsData = OfficialRows({})
  /\ shown = None
  /\ nodeServiceData = [p \in Pages |-> <<>>]
  /\ entry = [p \in Pages |-> NoEntries]
  /\ loading = FALSE
  /\ edit = [p \in Pages |-> NoEdit]
  /\ round = [r \in Rounds |-> NoRound]
  /\ calls = [n \in Nodes |-> 0]
  /\ wallet = Started
  /\ told = FALSE

Next ==
  \/ \E n \in Nodes :
       \/ SetProperty(n) \/ SetPropertyFails(n) \/ EditState(n) \/ RemoveUrl(n) \/ Edit(n)
       \/ \E resource \in BOOLEAN : SubmitForm(n, resource)
  \/ \E r \in Rounds, d \in Delays \ {"testing"} : NodeAnswers(r, d)
  \/ \E p \in Pages : OpenPage(p)
  \/ LeavePage \/ LoadingEnds \/ Reload
  \/ RemoteCall \/ WalletRestarts

Spec == Init /\ [][Next]_vars

\* A request is answered or times out after 28 seconds (API_TIME).
FairSpec ==
  Spec /\ \A r \in Rounds : WF_vars(\E d \in Delays \ {"testing"} : NodeAnswers(r, d))

-----------------------------------------------------------------------------
TypeOK ==
  /\ urls \in Nodes \union {None}
  /\ urlsData \in Seq(Row)
  /\ shown \in Pages \union {None}
  /\ nodeServiceData \in [Pages -> Seq(Nodes)]
  /\ entry \in [Pages -> [Nodes -> Entry]]
  /\ loading \in BOOLEAN
  /\ edit \in [Pages -> [index : Nat, node : Custom \union {None}, opened : BOOLEAN]]
  /\ round \in [Rounds -> RunningRound \union {NoRound}]
  /\ calls \in [Nodes -> 0 .. MaxCalls]
  /\ wallet \in [apiModuleAddress : Nodes, prevApiModuleAddress : Nodes \union {None},
                 isCreateNewClient : BOOLEAN, rpcHttpClient : Nodes]
  /\ told \in BOOLEAN


\* A round selects a node by default when none is selected, and only then: at its
\* end no other node gets selected beside one of those tested.  ("if no connection
\* is selected, one is selected by default", getDelays)
DefaultOnlyIfNoneSelected ==
  [][\A r \in Rounds : Running(r) /\ round'[r] = NoRound =>
       LET before == entry[round[r].of]
           after == entry'[round[r].of]
       IN  \A n \in Range(round[r].newData), m \in Nodes :
             before[n].selection /\ after[m].selection => before[m].selection]_vars

\* For a user who waits for the tests and until the wallet was told (Patient,
\* Prompt): the wallet works with the node the browser shows, if the last call that
\* told it arrived, whatever was lost before.  (setUrlAddress)
WalletFollows == Quiet /\ told => wallet.apiModuleAddress = urls

\* ... and its calls go there, now or when the next one is made.  ("now api
\* module service path", HttpClient.getRpcHttpClient; "The value of configuration
\* parameter ... changed", setProperty)
CallsFollow ==
  Quiet /\ told =>
    \/ wallet.rpcHttpClient = urls
    \/ /\ wallet.isCreateNewClient
       /\ wallet.prevApiModuleAddress \notin {None, wallet.apiModuleAddress}


\* Whether the user waits or not: the official nodes stay in front of the stored list
\* and of the one shown, in their order, whichever round writes its older list back
\* last, and whatever was added, overwritten or removed meanwhile.  (getDelays,
\* submitForm, removeUrl, BottomBar)
Leads(list) ==
  /\ Len(Official) <= Len(list)
  /\ \A i \in 1 .. Len(Official) : list[i] = Official[i]

OfficialFirst ==
  /\ Leads([i \in DOMAIN urlsData |-> urlsData[i].urls])
  /\ shown # None => Leads(nodeServiceData[shown])

\* Every round ends, and a node is in use then, also if none has answered:
\* unless the application is loaded again.  (getDelays, sort by delay)
TestsEnd == Testing ~> ~Testing /\ (urls # None \/ shown = None)
=============================================================================
