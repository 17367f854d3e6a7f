------------------------ MODULE ContractPagesProofs ------------------------
(***************************************************************************)
(* Theorems about AddressPages and ContractPages: the account selected is  *)
(* held, whatever answers are lost, refused or late, and contracts are     *)
(* deployed and called for it, every deployment after a test of its own,   *)
(* for any chains, accounts and numbers of requests.                       *)
(***************************************************************************)
EXTENDS ContractPages, TLAPS

-----------------------------------------------------------------------------
(***************************************************************************)
(* The account pages by themselves                                         *)
(***************************************************************************)

Ops == {"create", "import", "delete", "list", "header"}
Requests ==
  [op : Ops, chain : Chains, address : Addresses \union {None},
   state : {"sent", "done", "refused"}, held : SUBSET Addresses]

AddressTypeOK ==
  /\ chain \in Chains
  /\ selection \in [Chains -> Addresses \union {None}]
  /\ accounts \subseteq Addresses
  /\ page \in Pages
  /\ addressList \subseteq Addresses
  /\ selectAddressInfo \in Addresses \union {None}
  /\ passwordVisible \in BOOLEAN
  /\ request \in Requests \union {NoRequest}
  /\ unheard \subseteq Addresses

\* The account that is gone, but whose selection is not.
BeingDeleted ==
  IF request.op = "delete" /\ request.state = "done" THEN {request.address} ELSE {}

\* Accounts the client may take for held ones.
Believed == accounts \union unheard \union BeingDeleted

SelectionSound ==
  \A c \in Chains : selection[c] # None =>
    ChainOf[selection[c]] = c /\ selection[c] \in Believed

\* The rows are of the chain in use, and gone with the page.  While a list is
\* on its way they may be out of date.
RowsSound ==
  /\ page # "address" => addressList = {}
  /\ \A a \in addressList :
       /\ ChainOf[a] = chain
       /\ request.op # "list" => a \in Believed
  /\ passwordVisible => request = NoRequest /\ selectAddressInfo \in Addresses

\* What a request asks for, and what it brings.
RequestSound ==
  /\ Waiting => request.chain = chain
  /\ request.op = "delete" =>
       /\ request.address \in Addresses /\ request.address = selectAddressInfo
       /\ request.state = "done" => ChainOf[request.address] = chain
  /\ request.op \in {"create", "import"} /\ request.state = "done" =>
       /\ request.address \in accounts \union unheard
       /\ ChainOf[request.address] = chain
  /\ request.op \in {"list", "header"} =>
       \A a \in request.held : ChainOf[a] = chain /\ a \in accounts \union unheard

AddressInv == AddressTypeOK /\ SelectionSound /\ RowsSound /\ RequestSound

-----------------------------------------------------------------------------
\* A request knows what it is.
LEMMA RequestShape ==
  /\ NoRequest \notin Requests
  /\ \A r \in Requests : r # NoRequest /\ r.op \in Ops
  /\ NoRequest.op \notin Ops
<1>1. \A r \in Requests : r.op \in Ops
  BY DEF Requests
<1>2. NoRequest.op \notin Ops
  BY DEF NoRequest, Ops
<1> QED BY <1>1, <1>2

LEMMA Asked ==
  ASSUME chain \in Chains, NEW op \in Ops, NEW a \in Addresses \union {None}
  PROVE  /\ Ask(op, a) \in Requests
         /\ Ask(op, a).op = op /\ Ask(op, a).chain = chain /\ Ask(op, a).address = a
         /\ Ask(op, a).state = "sent" /\ Ask(op, a).held = {}
BY DEF Ask, Requests

LEMMA AddressStart == AddressInit => AddressInv
<1> SUFFICES ASSUME AddressInit PROVE AddressInv
  OBVIOUS
<1>1. /\ request \in Requests /\ request.op = "header" /\ request.chain = chain
      /\ request.held = {}
  BY Asked DEF AddressInit, Ops
<1>2. AddressTypeOK
  BY <1>1 DEF AddressInit, AddressTypeOK, Pages
<1> QED BY <1>1, <1>2
  DEF AddressInit, AddressInv, SelectionSound, RowsSound, RequestSound

-----------------------------------------------------------------------------
(***************************************************************************)
(* The wallet.  What it adds is believed; what it removes is being deleted *)
(* or unheard of.                                                          *)
(***************************************************************************)
LEMMA WalletStep ==
  ASSUME AddressInv, WalletDoes
  PROVE  AddressInv'
<1> USE AddressConstants, RequestShape DEF AddressInv, AddressTypeOK, Waiting
<1>1. /\ request \in Requests /\ request.state = "sent" /\ BeingDeleted = {}
      /\ unheard' = unheard \ accounts'
      /\ UNCHANGED <<storage, page, rows, late>>
  BY DEF WalletDoes, BeingDeleted
<1>2. CASE \E a \in Addresses :
             /\ Changes(request, a)
             /\ request' = [request EXCEPT !.state = "done", !.address = a]
  <2>1. PICK a \in Addresses :
          /\ Changes(request, a)
          /\ request' = [request EXCEPT !.state = "done", !.address = a]
    BY <1>2
  <2>2. /\ request' \in Requests /\ request'.op = request.op /\ request'.address = a
        /\ request'.chain = request.chain /\ request'.state = "done"
        /\ request'.held = request.held
    BY <1>1, <2>1 DEF Requests
  <2>3. CASE request.op \in {"create", "import"}
    <3>1. /\ ChainOf[a] = request.chain
          /\ accounts' = accounts \union {a} /\ BeingDeleted' = {}
      BY <2>1, <2>2, <2>3 DEF Changes, BeingDeleted
    <3> QED BY <1>1, <2>2, <2>3, <3>1
      DEF SelectionSound, RowsSound, RequestSound, Believed, storage, rows
  <2>4. CASE request.op = "delete"
    <3>1. /\ a = request.address /\ ChainOf[a] = request.chain
          /\ accounts' = accounts \ {a} /\ BeingDeleted' = {a}
      BY <2>1, <2>2, <2>4 DEF Changes, BeingDeleted, OnChain
    <3> QED BY <1>1, <2>2, <2>4, <3>1
      DEF SelectionSound, RowsSound, RequestSound, Believed, storage, rows
  <2> QED BY <2>1, <2>3, <2>4 DEF Changes
<1>3. CASE /\ request.op \notin Changing
           /\ request' = [request EXCEPT !.state = "done", !.held = OnChain(request.chain)]
           /\ UNCHANGED accounts
  <2>1. /\ request' \in Requests /\ request'.op = request.op
        /\ request'.address = request.address /\ request'.chain = request.chain
        /\ request'.held = OnChain(request.chain) /\ request'.state = "done"
    BY <1>1, <1>3 DEF Requests, OnChain
  <2> QED BY <1>1, <1>3, <2>1
    DEF SelectionSound, RowsSound, RequestSound, Believed, BeingDeleted, OnChain,
        Changing, storage, rows
<1>4. CASE /\ request' = [request EXCEPT !.state = "refused"]
           /\ UNCHANGED accounts
  <2>1. /\ request' \in Requests /\ request'.op = request.op
        /\ request'.address = request.address /\ request'.chain = request.chain
        /\ request'.held = request.held /\ request'.state = "refused"
    BY <1>1, <1>4 DEF Requests
  <2> QED BY <1>1, <1>4, <2>1
    DEF SelectionSound, RowsSound, RequestSound, Believed, BeingDeleted, storage, rows
<1> QED BY <1>2, <1>3, <1>4 DEF WalletDoes

LEMMA LateStep ==
  ASSUME AddressInv, WalletDoesLate
  PROVE  AddressInv'
<1>1. PICK a \in Addresses : Changes(late, a)
  BY DEF WalletDoesLate
<1>2. /\ accounts' \in {accounts \union {a}, accounts \ {a}}
      /\ unheard' = (unheard \union accounts) \ accounts'
      /\ UNCHANGED <<storage, page, rows, request>>
  BY <1>1 DEF WalletDoesLate, Changes
<1>3. /\ accounts' \union unheard' \in {accounts \union unheard, accounts \union unheard \union {a}}
      /\ accounts' \subseteq Addresses /\ unheard' \subseteq Addresses
  BY <1>2 DEF AddressInv, AddressTypeOK
<1> QED BY <1>2, <1>3
  DEF AddressInv, AddressTypeOK, SelectionSound, RowsSound, RequestSound, Believed,
      BeingDeleted, Waiting, storage, rows

\* Whoever stops waiting keeps in mind what may have gone.
LEMMA Forgotten ==
  ASSUME AddressInv, GivenUp, UNCHANGED accounts
  PROVE  /\ unheard' \subseteq Addresses
         /\ Believed \subseteq accounts' \union unheard'
         /\ addressList \subseteq accounts' \union unheard'
<1>1. unheard \subseteq unheard'
  BY DEF GivenUp
<1>2. CASE request.op = "delete"
  <2>1. unheard' = unheard \union ({request.address} \ accounts)
    BY <1>2 DEF GivenUp
  <2> QED BY <1>2, <2>1 DEF AddressInv, AddressTypeOK, RequestSound, RowsSound, Believed, BeingDeleted
<1>3. CASE request.op = "list"
  <2>1. unheard' = unheard \union (addressList \ accounts)
    BY <1>3 DEF GivenUp
  <2> QED BY <1>3, <2>1 DEF AddressInv, AddressTypeOK, Believed, BeingDeleted
<1>4. CASE request.op \notin {"delete", "list"}
  <2>1. unheard' = unheard
    BY <1>4 DEF GivenUp
  <2> QED BY <1>4, <2>1 DEF AddressInv, AddressTypeOK, RowsSound, Believed, BeingDeleted
<1> QED BY <1>2, <1>3, <1>4

LEMMA TimeoutStep ==
  ASSUME AddressInv, TimesOut
  PROVE  AddressInv'
<1> USE AddressConstants, RequestShape DEF AddressInv, AddressTypeOK, Waiting
<1>1. /\ request \in Requests /\ GivenUp
      /\ UNCHANGED <<storage, accounts, page, rows>>
  BY DEF TimesOut
<1>2. /\ unheard' \subseteq Addresses
      /\ Believed \subseteq accounts' \union unheard'
      /\ addressList \subseteq accounts' \union unheard'
  BY <1>1, Forgotten
<1>3. CASE request.op = "header"
  <2>1. request' = [request EXCEPT !.state = "refused"]
    BY <1>3 DEF TimesOut
  <2>2. /\ request' \in Requests /\ request'.op = "header" /\ request'.chain = request.chain
        /\ request'.held = request.held /\ request'.state = "refused"
    BY <1>1, <1>3, <2>1 DEF Requests
  <2> QED BY <1>1, <1>2, <1>3, <2>2
    DEF SelectionSound, RowsSound, RequestSound, Believed, BeingDeleted, storage, rows
<1>4. CASE request.op # "header"
  <2>1. request' = NoRequest
    BY <1>4 DEF TimesOut
  <2> QED BY <1>1, <1>2, <2>1
    DEF SelectionSound, RowsSound, RequestSound, Believed, Ops, storage, rows
<1> QED BY <1>3, <1>4

-----------------------------------------------------------------------------
(***************************************************************************)
(* The answers                                                             *)
(***************************************************************************)
\* What comes to be shown, or selected, is sound if what is believed is kept.
LEMMA ShowSound ==
  ASSUME AddressInv, UNCHANGED <<chain, accounts, unheard>>,
         SelectionSound', selection' \in [Chains -> Addresses \union {None}],
         NEW p \in Pages, Show(p)
  PROVE  AddressInv'
<1>1. /\ page' = p
      /\ addressList' = {} /\ selectAddressInfo' = None /\ passwordVisible' = FALSE
  BY DEF Show
<1>2. CASE p = "address"
  <2>1. /\ request' \in Requests /\ request'.op = "list" /\ request'.chain = chain
        /\ request'.held = {}
    BY <1>2, Asked DEF Show, Ops, AddressInv, AddressTypeOK
  <2> QED BY <1>1, <2>1
    DEF AddressInv, AddressTypeOK, RowsSound, RequestSound
<1>3. CASE p # "address"
  <2>1. request' = NoRequest
    BY <1>3 DEF Show
  <2> QED BY <1>1, <2>1, RequestShape
    DEF AddressInv, AddressTypeOK, RowsSound, RequestSound, Waiting, Ops
<1> QED BY <1>2, <1>3

LEMMA StaySound ==
  ASSUME AddressInv, UNCHANGED <<chain, accounts>>, unheard' \subseteq Addresses,
         unheard \subseteq unheard', addressList \subseteq accounts \union unheard',
         SelectionSound', selection' \in [Chains -> Addresses \union {None}], Stay
  PROVE  AddressInv'
BY RequestShape
DEF Stay, rows, AddressInv, AddressTypeOK, RowsSound, RequestSound, Waiting, Ops, Believed

\* A selection among what is believed is sound.
LEMMA SelectSound ==
  ASSUME AddressInv, UNCHANGED <<chain, accounts, unheard>>, BeingDeleted = {},
         BeingDeleted' = {},
         NEW a \in Addresses \union {None}, Select(a),
         a # None => ChainOf[a] = chain /\ a \in accounts \union unheard
  PROVE  SelectionSound' /\ selection' \in [Chains -> Addresses \union {None}]
BY DEF AddressInv, AddressTypeOK, SelectionSound, Select, Believed

LEMMA AnswerStep ==
  ASSUME AddressInv, Answered
  PROVE  AddressInv'
<1> USE RequestShape DEF AddressInv, AddressTypeOK, Waiting
<1>1. request \in Requests /\ UNCHANGED <<chain, accounts>>
  BY DEF Answered
<1>2. CASE request.state = "refused" /\ request.op # "header"
  <2>1. GivenUp /\ Stay /\ UNCHANGED selection
    BY <1>2 DEF Answered
  <2>2. /\ unheard' \subseteq Addresses /\ unheard \subseteq unheard'
        /\ Believed \subseteq accounts' \union unheard'
        /\ addressList \subseteq accounts' \union unheard'
    BY <1>1, <2>1, Forgotten DEF GivenUp
  <2>3. SelectionSound'
    BY <1>1, <2>1, <2>2 DEF SelectionSound, Believed
  <2> QED BY <1>1, <2>1, <2>2, <2>3, StaySound
<1>3. CASE ~(request.state = "refused" /\ request.op # "header")
  <2>1. /\ AccountCreated \/ AccountImported \/ AccountDeleted
             \/ ListAnswered \/ HeaderAnswered
        /\ UNCHANGED <<late, unheard>>
        /\ request.state # "sent" /\ (request.op # "header" => request.state = "done")
    <3>1. request.state \in {"sent", "done", "refused"} /\ request.state # "sent"
      BY <1>1 DEF Answered, Requests
    <3> QED BY <1>3, <3>1 DEF Answered
  <2>2. CASE AccountCreated
    <3>1. /\ request.op = "create" /\ Select(request.address) /\ Stay
          /\ request.address \in accounts \union unheard /\ ChainOf[request.address] = chain
          /\ BeingDeleted = {} /\ BeingDeleted' = {}
      BY <2>1, <2>2 DEF AccountCreated, RequestSound, BeingDeleted, Stay, Ops
    <3>2. SelectionSound' /\ selection' \in [Chains -> Addresses \union {None}]
      BY <1>1, <2>1, <3>1, SelectSound
    <3>3. addressList \subseteq accounts \union unheard'
      BY <2>1, <3>1 DEF RowsSound, Believed
    <3> QED BY <1>1, <2>1, <3>1, <3>2, <3>3, StaySound
  <2>3. CASE AccountImported
    <3>1. /\ request.op = "import" /\ Select(request.address) /\ Show("address")
          /\ request.address \in accounts \union unheard /\ ChainOf[request.address] = chain
          /\ BeingDeleted = {}
      BY <2>1, <2>3 DEF AccountImported, RequestSound, BeingDeleted
    <3>2. BeingDeleted' = {}
      BY <3>1, Asked DEF Show, BeingDeleted, Ops
    <3>3. SelectionSound' /\ selection' \in [Chains -> Addresses \union {None}]
      BY <1>1, <2>1, <3>1, <3>2, SelectSound
    <3> QED BY <1>1, <2>1, <3>1, <3>3, ShowSound DEF Pages
  <2>4. CASE AccountDeleted
    <3>1. /\ request.op = "delete" /\ request.state = "done"
          /\ request' = Ask("list", None) /\ UNCHANGED <<page, rows>>
          /\ IF selectAddressInfo = selection[chain]
             THEN Select(None) ELSE UNCHANGED selection
      BY <2>1, <2>4 DEF AccountDeleted
    <3>2. /\ request' \in Requests /\ request'.op = "list" /\ request'.chain = chain
          /\ request'.held = {}
      BY <3>1, Asked DEF Ops
    <3>3. /\ request.address = selectAddressInfo /\ ChainOf[request.address] = chain
          /\ BeingDeleted = {request.address} /\ BeingDeleted' = {}
      BY <3>1, <3>2 DEF RequestSound, BeingDeleted
    <3>4. selection' \in [Chains -> Addresses \union {None}]
      BY <3>1 DEF Select
    <3>5. \A c \in Chains : selection'[c] # None =>
            selection'[c] = selection[c] /\ selection[c] # request.address
      BY <3>1, <3>3 DEF Select, SelectionSound
    <3>6. SelectionSound'
      BY <1>1, <2>1, <3>3, <3>5 DEF SelectionSound, Believed
    <3> QED BY <1>1, <2>1, <3>1, <3>2, <3>4, <3>6
      DEF RowsSound, RequestSound, rows
  <2>5. CASE ListAnswered
    <3>1. request.op = "list" /\ UNCHANGED selection /\ BeingDeleted = {}
      BY <2>5 DEF ListAnswered, BeingDeleted
    <3>2. SelectionSound'
      BY <1>1, <2>1, <3>1 DEF SelectionSound, Believed
    <3>3. CASE request.held = {}
      BY <1>1, <2>1, <2>5, <3>1, <3>2, <3>3, ShowSound DEF ListAnswered, Pages
    <3>4. CASE request.held # {}
      <4>1. /\ addressList' = IF page = "address" THEN request.held ELSE addressList
            /\ request' = NoRequest
            /\ UNCHANGED <<page, selectAddressInfo, passwordVisible>>
        BY <2>5, <3>4 DEF ListAnswered
      <4>2. /\ request.held \subseteq Addresses
            /\ \A a \in request.held : ChainOf[a] = chain /\ a \in accounts \union unheard
        BY <1>1, <3>1 DEF Requests, RequestSound
      <4> QED BY <1>1, <2>1, <3>1, <3>2, <4>1, <4>2
        DEF RowsSound, RequestSound, Believed, Ops
    <3> QED BY <3>3, <3>4
  <2>6. CASE HeaderAnswered
    <3>1. request.op = "header" /\ BeingDeleted = {}
      BY <2>6 DEF HeaderAnswered, BeingDeleted
    <3>2. CASE request.held = {}
      <4>1. Select(None) /\ Show("newAddress")
        BY <2>6, <3>2 DEF HeaderAnswered
      <4>2. BeingDeleted' = {}
        BY <4>1 DEF Show, BeingDeleted, Ops
      <4> QED BY <1>1, <2>1, <3>1, <4>1, <4>2, SelectSound, ShowSound DEF Pages
    <3>3. CASE request.held # {}
      <4>1. UNCHANGED selection /\ (Show("address") \/ Stay)
        BY <2>6, <3>3 DEF HeaderAnswered
      <4>2. SelectionSound'
        BY <1>1, <2>1, <3>1, <4>1 DEF SelectionSound, Believed
      <4>3. addressList \subseteq accounts \union unheard'
        BY <2>1, <3>1 DEF RowsSound, Believed
      <4> QED BY <1>1, <2>1, <4>1, <4>2, <4>3, ShowSound, StaySound DEF Pages
    <3> QED BY <3>2, <3>3
  <2> QED BY <2>1, <2>2, <2>3, <2>4, <2>5, <2>6
<1> QED BY <1>2, <1>3

-----------------------------------------------------------------------------
(***************************************************************************)
(* What the user does.  Before a click nothing is under way, so that every *)
(* row shown is of an account that is held or whose removal was not heard  *)
(* of.                                                                     *)
(***************************************************************************)
LEMMA LoadStep ==
  ASSUME AddressInv, Load
  PROVE  AddressInv'
<1>1. /\ page' = "contract"
      /\ addressList' = {} /\ selectAddressInfo' = None /\ passwordVisible' = FALSE
      /\ GivenUp /\ request' = Ask("header", None) /\ UNCHANGED <<storage, accounts>>
  BY DEF Load
<1>2. unheard' \subseteq Addresses /\ Believed \subseteq accounts' \union unheard'
  BY <1>1, Forgotten
<1>3. /\ request' \in Requests /\ request'.op = "header" /\ request'.chain = chain
      /\ request'.held = {}
  BY <1>1, Asked DEF AddressInv, AddressTypeOK, Ops
<1> QED BY <1>1, <1>2, <1>3
  DEF AddressInv, AddressTypeOK, Pages, SelectionSound, RowsSound, RequestSound, Believed,
      storage

LEMMA ClickStep ==
  ASSUME AddressInv, AddressClicks
  PROVE  AddressInv'
<1> USE RequestShape DEF AddressInv, AddressTypeOK, Waiting
<1>1. request = NoRequest /\ BeingDeleted = {}
  <2>1. request = NoRequest
    BY DEF AddressClicks, SelectionAddress, DeleteAddress, Open, SubmitAccount,
           SwitchChain, PassSubmit, PasswordClose, UserMayClick, Patient, RowsSound
  <2> QED BY <2>1 DEF BeingDeleted, Ops
<1>2. \A a \in addressList :
        /\ a \in Addresses /\ ChainOf[a] = chain /\ a \in accounts \union unheard
  BY <1>1 DEF RowsSound, Believed, Ops
<1>3. ASSUME NEW a \in Addresses, SelectionAddress(a) PROVE AddressInv'
  <2>1. /\ a \in addressList /\ Select(a) /\ page' = "contract"
        /\ addressList' = {} /\ selectAddressInfo' = None
        /\ request' = Ask("list", None)
        /\ UNCHANGED <<chain, accounts, passwordVisible, late, unheard>>
        /\ ~passwordVisible
    BY <1>3 DEF SelectionAddress, UserMayClick
  <2>2. /\ request' \in Requests /\ request'.op = "list" /\ request'.chain = chain
        /\ request'.held = {}
    BY <2>1, Asked DEF Ops
  <2>3. BeingDeleted' = {}
    BY <2>2 DEF BeingDeleted
  <2>4. SelectionSound' /\ selection' \in [Chains -> Addresses \union {None}]
    BY <1>1, <1>2, <2>1, <2>3, SelectSound
  <2> QED BY <2>1, <2>2, <2>4 DEF Pages, RowsSound, RequestSound
<1>4. ASSUME NEW a \in Addresses, DeleteAddress(a) PROVE AddressInv'
  BY <1>1, <1>2, <1>4 DEF DeleteAddress, SelectionSound, RowsSound, RequestSound,
     Believed, BeingDeleted, Ops, storage
<1>5. ASSUME NEW p \in Pages, Open(p) PROVE AddressInv'
  <2>1. Show(p) /\ UNCHANGED <<storage, accounts, late, unheard>>
    BY <1>5 DEF Open
  <2>2. SelectionSound'
    BY <1>1, <2>1 DEF SelectionSound, Believed, storage
  <2> QED BY <2>1, <2>2, ShowSound DEF storage
<1>6. ASSUME NEW op \in {"create", "import"}, SubmitAccount(op) PROVE AddressInv'
  <2>1. /\ request' = Ask(op, None)
        /\ UNCHANGED <<storage, accounts, page, rows, late, unheard>>
        /\ page = "newAddress" /\ ~passwordVisible
    BY <1>6 DEF SubmitAccount, UserMayClick
  <2>2. /\ request' \in Requests /\ request'.op = op /\ request'.chain = chain
        /\ request'.state = "sent"
    BY <2>1, Asked DEF Ops
  <2> QED BY <1>1, <2>1, <2>2
    DEF SelectionSound, RowsSound, RequestSound, Believed, BeingDeleted, storage, rows
<1>7. ASSUME NEW c \in Chains, SwitchChain(c) PROVE AddressInv'
  BY <1>1, <1>7 DEF SwitchChain, UserMayClick, SelectionSound, RowsSound, RequestSound,
     Believed, BeingDeleted, Ops, rows
<1>8. CASE PassSubmit
  <2>1. /\ passwordVisible /\ passwordVisible' = FALSE
        /\ request' = Ask("delete", selectAddressInfo)
        /\ UNCHANGED <<storage, accounts, page, addressList, selectAddressInfo, late, unheard>>
    BY <1>8 DEF PassSubmit
  <2>2. /\ request' \in Requests /\ request'.op = "delete" /\ request'.chain = chain
        /\ request'.address = selectAddressInfo /\ request'.state = "sent"
    BY <2>1, Asked DEF Ops
  <2> QED BY <1>1, <1>2, <2>1, <2>2
    DEF SelectionSound, RowsSound, RequestSound, Believed, BeingDeleted, storage
<1>9. CASE PasswordClose
  BY <1>1, <1>9 DEF PasswordClose, SelectionSound, RowsSound, RequestSound,
     Believed, BeingDeleted, storage
<1> QED BY <1>3, <1>4, <1>5, <1>6, <1>7, <1>8, <1>9 DEF AddressClicks

LEMMA AddressStep ==
  ASSUME AddressInv, [AddressNext]_addressVars
  PROVE  AddressInv'
<1>1. CASE AddressNext
  BY <1>1, WalletStep, LateStep, TimeoutStep, AnswerStep, ClickStep, LoadStep
  DEF AddressNext, AddressAnswers
<1>2. CASE UNCHANGED addressVars
  BY <1>2 DEF addressVars, storage, rows, AddressInv, AddressTypeOK, SelectionSound,
     RowsSound, RequestSound, Believed, BeingDeleted, Waiting
<1> QED BY <1>1, <1>2

-----------------------------------------------------------------------------
LEMMA AddressInvImplies == AddressInv => SelectedIsHeld
<1> SUFFICES ASSUME AddressInv, request.op # "delete", NEW c \in Chains,
                    selection[c] # None
             PROVE  selection[c] \in OnChain(c) \union unheard
  BY DEF SelectedIsHeld
<1> QED BY DEF AddressInv, SelectionSound, Believed, BeingDeleted, OnChain

\* What is selected for a chain is held by the wallet, unless its removal was not
\* heard of, whatever is created, imported, removed or switched.  (Address.vue,
\* HeaderBar.vue, NewAddress.vue, ImportAddress.vue)
THEOREM SelectedHeld == AddressSpec => []SelectedIsHeld
<1>1. AddressInv /\ [AddressNext]_addressVars => AddressInv'
  BY AddressStep
<1> QED BY AddressStart, <1>1, AddressInvImplies, PTL DEF AddressSpec

-----------------------------------------------------------------------------
(***************************************************************************)
(* The account pages with the contract pages                               *)
(***************************************************************************)

FormsTypeOK ==
  /\ sender \in Addresses \union {None}
  /\ deployForm \in [hex : BOOLEAN, input : BOOLEAN, isTestSubmit : BOOLEAN]
  /\ deployLoading \in BOOLEAN
  /\ callForm \in BOOLEAN
  /\ confirming \in BOOLEAN

\* Where the user was when a request was made that changes accounts.
PageOfRequest ==
  /\ request.op = "header" => page = "contract"
  /\ request.op \in {"create", "import"} => page = "newAddress"
  /\ request.op = "delete" \/ passwordVisible => page = "address"

\* The page's account is the selected one.  Passwords are asked for by pages that
\* send contracts, and only for an account.
SenderSound ==
  /\ page \in {"contract", "call"} => sender = selection[chain]
  /\ confirming => page \in {"contract", "call"} /\ sender # None

\* What a page has under way belongs to it, and to its account.
OfDeployPage == {"getDefaultContractCode", "getContractConstructor", "uploadContractJar",
                 "validateContractCreate", "imputedContractCreateGas", "createContract"}
OfCallPage == {"validateContractCall", "imputedContractCallGas", "callContract"}
Validating == {"imputedContractCreateGas", "imputedContractCallGas"} \union Sent

Posts == [op : OfDeployPage \union OfCallPage, chain : Chains,
          sender : Addresses \union {None}, next : {None, "tipSuccess", "showPassword"}]

Fits(post) ==
  /\ post.op \in OfDeployPage => page = "contract"
  /\ post.op \in OfCallPage => page = "call"
  /\ post.op \in Validating => sender # None
  /\ post.op \in Sent => post.chain = chain /\ post.sender = sender

PostSound ==
  /\ posted \in [Slots -> Posts \union {NoPost}]
  /\ \A s \in Slots : posted[s] = NoPost \/ Fits(posted[s])

\* The deployments that can be sent without another test.
Due ==
  (IF confirming /\ page = "contract" THEN 1 ELSE 0)
    + (IF deployForm.isTestSubmit THEN 1 ELSE 0)

TestSound ==
  /\ tests \in 0..Enough
  /\ Due <= tests
  /\ tests > 0 => sender # None

ContractInv ==
  /\ AddressInv
  /\ FormsTypeOK
  /\ PageOfRequest
  /\ SenderSound
  /\ PostSound
  /\ TestSound

-----------------------------------------------------------------------------
(***************************************************************************)
(* The accounts' side                                                      *)
(***************************************************************************)
\* While a page that sends contracts stays, so does the account selected.
LEMMA SelectionStays ==
  ASSUME AddressInv, PageOfRequest, AddressAnswers \/ AddressClicks,
         page' = page, page \in {"contract", "call"}
  PROVE  chain' = chain /\ selection' = selection
<1> USE DEF AddressInv, PageOfRequest, storage
<1>0. addressList = {}
  BY DEF RowsSound
<1>1. CASE Answered
  <2>1. CASE request.state = "refused" /\ request.op # "header"
    BY <1>1, <2>1 DEF Answered
  <2>2. CASE ~(request.state = "refused" /\ request.op # "header")
    <3>1. chain' = chain /\ (ListAnswered \/ HeaderAnswered)
      BY <1>1, <2>2 DEF Answered, AccountCreated, AccountImported, AccountDeleted
    <3> QED BY <3>1 DEF ListAnswered, HeaderAnswered, Show
  <2> QED BY <2>1, <2>2
<1>2. CASE WalletDoes \/ WalletDoesLate \/ TimesOut
  BY <1>2 DEF WalletDoes, WalletDoesLate, TimesOut
<1>3. CASE AddressClicks
  BY <1>0, <1>3 DEF AddressClicks, SelectionAddress, DeleteAddress, Open, SubmitAccount,
     SwitchChain, PassSubmit, PasswordClose
<1> QED BY <1>1, <1>2, <1>3 DEF AddressAnswers

LEMMA PageOfRequestStep ==
  ASSUME AddressInv, PageOfRequest, AddressNext
  PROVE  PageOfRequest'
<1> USE RequestShape DEF PageOfRequest, rows
<1>0. /\ request \in Requests \union {NoRequest}
      /\ addressList # {} => page = "address"
      /\ chain \in Chains /\ selectAddressInfo \in Addresses \union {None}
  BY DEF AddressInv, AddressTypeOK, RowsSound
<1>1. ASSUME NEW p, Show(p) PROVE PageOfRequest'
  BY <1>0, <1>1, Asked DEF Show, Ops
<1>2. CASE Stay
  BY <1>2 DEF Stay, Ops
<1>3. CASE WalletDoes
  <2>1. request \in Requests /\ UNCHANGED <<page, rows>>
    BY <1>0, <1>3 DEF WalletDoes, Waiting
  <2>2. request'.op = request.op
    BY <1>3, <2>1 DEF WalletDoes, Requests
  <2> QED BY <2>1, <2>2
<1>4. CASE WalletDoesLate
  BY <1>4 DEF WalletDoesLate
<1>5. CASE TimesOut
  <2>1. request \in Requests /\ UNCHANGED <<page, rows>>
    BY <1>0, <1>5 DEF TimesOut, Waiting
  <2>2. request' = NoRequest \/ request'.op = request.op
    BY <1>5, <2>1 DEF TimesOut, Requests
  <2> QED BY <2>1, <2>2 DEF Ops
<1>6. CASE Answered
  <2>1. CASE AccountDeleted
    <3>1. request'.op = "list" /\ UNCHANGED <<page, rows>> /\ request.op = "delete"
      BY <1>0, <2>1, Asked DEF AccountDeleted, Ops
    <3> QED BY <3>1
  <2>2. CASE ListAnswered /\ request.held # {}
    BY <2>2 DEF ListAnswered, Ops
  <2> QED BY <1>1, <1>2, <1>6, <2>1, <2>2
          DEF Answered, AccountCreated, AccountImported, ListAnswered, HeaderAnswered
<1>7. CASE AddressClicks
  <2>1. CASE \E a \in Addresses : SelectionAddress(a)
    BY <1>0, <2>1, Asked DEF SelectionAddress, UserMayClick, Ops
  <2>2. CASE \E a \in Addresses : DeleteAddress(a)
    BY <1>0, <2>2 DEF DeleteAddress, UserMayClick, Waiting, Ops
  <2>3. CASE \E p \in Pages : Open(p)
    BY <1>1, <2>3 DEF Open
  <2>4. CASE \E op \in {"create", "import"} : SubmitAccount(op)
    <3>1. PICK op \in {"create", "import"} : SubmitAccount(op)
      BY <2>4
    <3>2. request'.op = op
      BY <1>0, <3>1, Asked DEF SubmitAccount, Ops
    <3> QED BY <3>1, <3>2 DEF SubmitAccount
  <2>5. CASE \E c \in Chains : SwitchChain(c)
    BY <2>5 DEF SwitchChain
  <2>6. CASE PassSubmit
    <3>1. request'.op = "delete"
      BY <1>0, <2>6, Asked DEF PassSubmit, Ops
    <3> QED BY <2>6, <3>1 DEF PassSubmit
  <2>7. CASE PasswordClose
    BY <2>7 DEF PasswordClose
  <2> QED BY <1>7, <2>1, <2>2, <2>3, <2>4, <2>5, <2>6, <2>7 DEF AddressClicks
<1>8. CASE Load
  BY <1>0, <1>8, Asked DEF Load, Ops
<1> QED BY <1>3, <1>4, <1>5, <1>6, <1>7, <1>8 DEF AddressNext, AddressAnswers

-----------------------------------------------------------------------------
\* What a page posts is what it was told to post.
LEMMA Posted ==
  ASSUME chain \in Chains, sender \in Addresses \union {None},
         NEW op \in OfDeployPage \union OfCallPage,
         NEW next \in {None, "tipSuccess", "showPassword"}
  PROVE  /\ Post(op, next) \in Posts
         /\ Post(op, next).op = op /\ Post(op, next).next = next
         /\ Post(op, next).chain = chain /\ Post(op, next).sender = sender
BY DEF Post, Posts

LEMMA DefaultPosted ==
  ASSUME chain \in Chains
  PROVE  /\ GetDefaultContract \in Posts
         /\ GetDefaultContract.op = "getDefaultContractCode"
<1>1. GetDefaultContract = [op |-> "getDefaultContractCode", chain |-> chain,
                            sender |-> None, next |-> None]
  BY DEF GetDefaultContract, Post
<1> QED BY <1>1 DEF Posts, OfDeployPage

LEMMA PostShape == NoPost \notin Posts /\ NoPost.op = "none"
<1>1. NoPost.op = "none"
  BY DEF NoPost
<1> QED BY <1>1 DEF Posts, OfDeployPage, OfCallPage

\* One request takes the place of another, or is over.
LEMMA Slotted ==
  ASSUME PostSound, UNCHANGED <<page, chain, sender>>, NEW s \in Slots,
         NEW post \in Posts \union {NoPost}, post = NoPost \/ Fits(post),
         posted' = [posted EXCEPT ![s] = post]
  PROVE  PostSound'
<1>1. posted' \in [Slots -> Posts \union {NoPost}]
  BY DEF PostSound
<1>2. ASSUME NEW t \in Slots PROVE (posted[t] = NoPost \/ Fits(posted[t]))'
  <2>1. posted'[t] = NoPost \/ Fits(posted'[t])
    BY DEF PostSound
  <2> QED BY <2>1 DEF Fits
<1> QED BY <1>1, <1>2 DEF PostSound

LEMMA Over ==
  ASSUME PostSound, UNCHANGED <<page, chain, sender>>, NEW s \in Slots, Ends(s)
  PROVE  PostSound'
BY Slotted DEF Ends

LEMMA FirstSound ==
  ASSUME chain \in Chains, NEW p, posted' \in FirstPosts(p)
  PROVE  /\ posted' \in [Slots -> Posts \union {NoPost}]
         /\ \A s \in Slots : posted'[s] # NoPost =>
              p = "contract" /\ posted'[s].op = "getDefaultContractCode"
BY DefaultPosted DEF FirstPosts

LEMMA ContractStart == Init => ContractInv
<1> SUFFICES ASSUME Init PROVE ContractInv
  OBVIOUS
<1>1. AddressInv
  BY AddressStart DEF Init
<1>2. /\ request.op = "header" /\ page = "contract" /\ selection[chain] = None
      /\ passwordVisible = FALSE /\ chain \in Chains
  BY Asked DEF Init, AddressInit, Ops
<1>3. PostSound
  BY <1>2, DefaultPosted
  DEF Init, FirstPosts, PostSound, Fits, OfDeployPage, OfCallPage, Validating, Sent
<1>4. TestSound
  BY DEF Init, TestSound, Due, Enough, NewDeployForm
<1> QED BY <1>1, <1>2, <1>3, <1>4
  DEF Init, NewDeployForm, ContractInv, FormsTypeOK, PageOfRequest, SenderSound

\* A page just made knows the account selected, and nothing has been tested.
LEMMA MadeSound ==
  ASSUME AddressInv', PageOfRequest', chain' = chain, Made(page')
  PROVE  ContractInv'
<1>1. /\ sender' = IF page' \in {"contract", "call"} THEN selection'[chain'] ELSE None
      /\ posted' \in FirstPosts(page') /\ Blank /\ chain \in Chains
  BY DEF Made, AddressInv, AddressTypeOK
<1>2. sender' \in Addresses \union {None}
  BY <1>1 DEF AddressInv, AddressTypeOK
<1>3. PostSound'
  BY <1>1, FirstSound DEF PostSound, Fits, OfDeployPage, OfCallPage, Validating, Sent
<1>4. TestSound'
  BY <1>1 DEF Blank, NewDeployForm, TestSound, Due, Enough
<1> QED BY <1>1, <1>2, <1>3, <1>4
  DEF Blank, NewDeployForm, ContractInv, FormsTypeOK, SenderSound

LEMMA AccountsStep ==
  ASSUME ContractInv, AccountSide
  PROVE  ContractInv'
<1>1. AddressNext /\ (AddressAnswers \/ AddressClicks)
  BY DEF AccountSide, AddressNext
<1>2. AddressInv' /\ PageOfRequest'
  BY <1>1, AddressStep, PageOfRequestStep DEF ContractInv
<1>3. CASE page' = page
  <2>1. UNCHANGED <<sender, deployForm, deployLoading, callForm, confirming, posted, tests>>
    BY <1>3 DEF AccountSide, contractVars, forms
  <2>2. page \in {"contract", "call"} => chain' = chain /\ selection' = selection
    BY <1>1, <1>3, SelectionStays DEF ContractInv
  <2>3. PostSound'
    <3>1. CASE page \in {"contract", "call"}
      BY <1>3, <2>1, <2>2, <3>1 DEF ContractInv, PostSound, Fits
    <3>2. CASE page \notin {"contract", "call"}
      <4>1. \A s \in Slots : posted[s] = NoPost
        BY <3>2 DEF ContractInv, PostSound, Fits, Posts
      <4> QED BY <2>1, <4>1 DEF ContractInv, PostSound
    <3> QED BY <3>1, <3>2
  <2>4. FormsTypeOK' /\ TestSound'
    BY <1>3, <2>1 DEF ContractInv, FormsTypeOK, TestSound, Due
  <2> QED BY <1>2, <1>3, <2>1, <2>2, <2>3, <2>4 DEF ContractInv, SenderSound
<1>4. CASE page' # page
  <2>1. chain' = chain
    BY <1>1, <1>4 DEF AddressAnswers, WalletDoes, WalletDoesLate, TimesOut, Answered,
       AddressClicks, SelectionAddress, DeleteAddress, Open, SubmitAccount, SwitchChain,
       PassSubmit, PasswordClose, storage
  <2>2. Made(page')
    BY <1>4 DEF AccountSide
  <2> QED BY <1>2, <2>1, <2>2, MadeSound
<1> QED BY <1>3, <1>4

LEMMA LoadPagesStep ==
  ASSUME ContractInv, LoadPages
  PROVE  ContractInv'
<1>1. Load /\ Made("contract") /\ page' = "contract" /\ chain' = chain
  BY DEF LoadPages, Load, storage
<1>2. AddressInv' /\ PageOfRequest'
  BY <1>1, AddressStep, PageOfRequestStep DEF AddressNext, ContractInv
<1> QED BY <1>1, <1>2, MadeSound

-----------------------------------------------------------------------------
(***************************************************************************)
(* The pages that send contracts.  Nothing changes on the accounts' side.  *)
(***************************************************************************)
\* What is left to be shown of a step of these pages.
LEMMA PageStep ==
  ASSUME ContractInv, UNCHANGED <<addressVars, sender>>,
         FormsTypeOK', PostSound', TestSound',
         confirming' => page \in {"contract", "call"} /\ sender # None
  PROVE  ContractInv'
<1>1. AddressInv'
  BY AddressStep DEF ContractInv
<1> QED BY <1>1 DEF ContractInv, PageOfRequest, SenderSound, addressVars, storage, rows

\* Forms without a new test, box or deployment
LEMMA TestKept ==
  ASSUME TestSound, UNCHANGED <<page, sender, tests>>,
         confirming' => confirming, deployForm'.isTestSubmit => deployForm.isTestSubmit
  PROVE  TestSound'
BY DEF TestSound, Due

LEMMA ParameterStep ==
  ASSUME ContractInv, UNCHANGED <<addressVars, sender>>, page = "contract",
         NEW s \in Slots, GetParameter(s)
  PROVE  /\ PostSound' /\ deployLoading' \in BOOLEAN
         /\ deployForm' \in [hex : BOOLEAN, input : BOOLEAN, isTestSubmit : BOOLEAN]
         /\ deployForm'.isTestSubmit = deployForm.isTestSubmit
<1> USE DEF ContractInv, FormsTypeOK, AddressInv, AddressTypeOK, addressVars, storage
<1>1. CASE /\ posted' = [posted EXCEPT ![s] = Post("getContractConstructor", None)]
           /\ deployForm' = [deployForm EXCEPT !.hex = TRUE]
           /\ deployLoading' = TRUE
  <2>1. Post("getContractConstructor", None) \in Posts
        /\ Fits(Post("getContractConstructor", None))
    BY Posted DEF Fits, OfDeployPage, OfCallPage, Validating, Sent
  <2> QED BY <1>1, <2>1, Slotted
<1>2. CASE /\ Ends(s)
           /\ deployForm' = [NewDeployForm EXCEPT !.isTestSubmit = deployForm.isTestSubmit]
           /\ UNCHANGED deployLoading
  BY <1>2, Over DEF NewDeployForm
<1> QED BY <1>1, <1>2 DEF GetParameter

LEMMA SendStep ==
  ASSUME ContractInv, UNCHANGED <<addressVars, sender>>, NEW s \in Slots,
         NEW op \in OfDeployPage \union OfCallPage,
         NEW next \in {None, "tipSuccess", "showPassword"}, Send(s, op, next),
         op \in OfDeployPage => page = "contract", op \in OfCallPage => page = "call",
         op \in Validating => sender # None
  PROVE  PostSound'
<1>1. /\ Post(op, next) \in Posts /\ Fits(Post(op, next))
  BY Posted DEF ContractInv, FormsTypeOK, AddressInv, AddressTypeOK, Fits
<1> QED BY <1>1, Slotted DEF Send, ContractInv, addressVars, storage

LEMMA DeployStep ==
  ASSUME ContractInv, NEW s \in Slots,
         TypeHex(s) \/ UploadJar(s) \/ Deploy(s) \/ ConfirmDeploy(s)
  PROVE  ContractInv'
<1> USE DEF ContractInv, FormsTypeOK
<1>0. UNCHANGED <<addressVars, sender>> /\ page = "contract" /\ UNCHANGED page
  BY DEF TypeHex, UploadJar, Deploy, ConfirmDeploy, MayClick, addressVars
<1>1. CASE TypeHex(s)
  <2>1. GetParameter(s) /\ UNCHANGED <<callForm, confirming, tests>>
    BY <1>1 DEF TypeHex
  <2>2. FormsTypeOK' /\ PostSound' /\ deployForm'.isTestSubmit = deployForm.isTestSubmit
    BY <1>0, <2>1, ParameterStep
  <2>3. TestSound'
    BY <1>0, <2>1, <2>2, TestKept
  <2> QED BY <1>0, <2>1, <2>2, <2>3, PageStep DEF SenderSound
<1>2. CASE UploadJar(s)
  <2>1. /\ Send(s, "uploadContractJar", None)
        /\ UNCHANGED <<deployLoading, callForm, confirming, tests>>
        /\ deployForm' \in {deployForm, [deployForm EXCEPT !.input = FALSE]}
    BY <1>2 DEF UploadJar
  <2>2. FormsTypeOK' /\ deployForm'.isTestSubmit = deployForm.isTestSubmit
    BY <1>0, <2>1
  <2>3. PostSound'
    BY <1>0, <2>1, SendStep DEF OfDeployPage, OfCallPage, Validating, Sent
  <2>4. TestSound'
    BY <1>0, <2>1, <2>2, TestKept
  <2> QED BY <1>0, <2>1, <2>2, <2>3, <2>4, PageStep DEF SenderSound
<1>3. CASE Deploy(s)
  <2>0. UNCHANGED <<deployLoading, callForm, tests>> /\ ~confirming
    BY <1>3 DEF Deploy, MayClick
  <2>1. ASSUME NEW next \in {"tipSuccess", "showPassword"}, SubmitTestDeploy(s, next)
        PROVE  ContractInv'
    <3>1. UNCHANGED <<deployForm, confirming>> /\ Send(s, "validateContractCreate", next)
      BY <2>1 DEF SubmitTestDeploy
    <3>2. PostSound'
      BY <1>0, <3>1, SendStep DEF OfDeployPage, OfCallPage, Validating, Sent
    <3>3. TestSound'
      BY <1>0, <2>0, <3>1, TestKept
    <3> QED BY <1>0, <2>0, <3>1, <3>2, <3>3, PageStep
  <2>2. CASE deployForm.isTestSubmit /\ ShowPassword /\ UNCHANGED posted
    <3>1. /\ deployForm' = [deployForm EXCEPT !.isTestSubmit = FALSE] /\ confirming' = TRUE
      BY <2>2 DEF ShowPassword
    <3>2. FormsTypeOK' /\ ~deployForm'.isTestSubmit
      BY <1>0, <2>0, <3>1
    <3>3. TestSound'
      BY <1>0, <2>0, <2>2, <3>1, <3>2 DEF TestSound, Due
    <3>4. PostSound'
      BY <1>0, <2>2 DEF PostSound, Fits, addressVars, storage
    <3>5. sender # None
      BY <2>2 DEF TestSound, Due
    <3> QED BY <1>0, <3>2, <3>3, <3>4, <3>5, PageStep
  <2> QED BY <1>3, <2>1, <2>2 DEF Deploy, SubmitDeploy
<1>4. CASE ConfirmDeploy(s)
  <2>1. /\ confirming /\ confirming' = FALSE
        /\ UNCHANGED <<deployForm, deployLoading, callForm>>
    BY <1>4 DEF ConfirmDeploy, forms
  <2>2. CASE Send(s, "createContract", None) /\ tests' = tests - 1
    <3>1. PostSound'
      BY <1>0, <2>1, <2>2, SendStep
      DEF SenderSound, OfDeployPage, OfCallPage, Validating, Sent
    <3>2. TestSound'
      BY <1>0, <2>1, <2>2 DEF TestSound, Due, Enough
    <3> QED BY <1>0, <2>1, <3>1, <3>2, PageStep
  <2>3. CASE UNCHANGED <<posted, tests>>
    <3>1. PostSound'
      BY <1>0, <2>3 DEF PostSound, Fits, addressVars, storage
    <3>2. TestSound'
      BY <1>0, <2>1, <2>3, TestKept
    <3> QED BY <1>0, <2>1, <3>1, <3>2, PageStep
  <2> QED BY <1>4, <2>2, <2>3 DEF ConfirmDeploy
<1> QED BY <1>1, <1>2, <1>3, <1>4

LEMMA CallStep ==
  ASSUME ContractInv, NEW s \in Slots, SubmitCallContract(s) \/ ConfirmCall(s)
  PROVE  ContractInv'
<1> USE DEF ContractInv, FormsTypeOK
<1>1. /\ UNCHANGED <<addressVars, sender, deployForm, deployLoading, callForm, tests>>
      /\ page = "call" /\ UNCHANGED page
      /\ confirming' \in BOOLEAN /\ (confirming' => confirming)
  <2>1. CASE SubmitCallContract(s)
    BY <2>1 DEF SubmitCallContract, MayClick, forms, addressVars
  <2>2. CASE ConfirmCall(s)
    BY <2>2 DEF ConfirmCall, forms, addressVars
  <2> QED BY <2>1, <2>2
<1>2. PostSound'
  <2>1. CASE Send(s, "validateContractCall", "showPassword")
    BY <1>1, <2>1, SendStep DEF OfDeployPage, OfCallPage, Validating, Sent
  <2>2. CASE Send(s, "callContract", None) /\ confirming
    BY <1>1, <2>2, SendStep DEF SenderSound, OfDeployPage, OfCallPage, Validating, Sent
  <2>3. CASE UNCHANGED posted
    BY <1>1, <2>3 DEF PostSound, Fits, addressVars, storage
  <2> QED BY <2>1, <2>2, <2>3 DEF SubmitCallContract, ConfirmCall
<1>3. TestSound'
  BY <1>1, TestKept
<1> QED BY <1>1, <1>2, <1>3, PageStep DEF SenderSound

\* Editing, and closing the box
LEMMA EditStep ==
  ASSUME ContractInv,
         \/ \E given \in BOOLEAN : EditDeployForm(given) \/ EditCallForm(given)
         \/ Cancel
  PROVE  ContractInv'
<1> USE DEF ContractInv, FormsTypeOK
<1> DEFINE Edited ==
             /\ UNCHANGED <<addressVars, sender, deployLoading, posted, tests>>
             /\ UNCHANGED page /\ (confirming' => confirming)
             /\ FormsTypeOK' /\ deployForm'.isTestSubmit = deployForm.isTestSubmit
<1>1. Edited
  <2>1. ASSUME NEW given \in BOOLEAN, EditDeployForm(given) PROVE Edited
    BY <2>1 DEF EditDeployForm, addressVars
  <2>2. ASSUME NEW given \in BOOLEAN, EditCallForm(given) PROVE Edited
    BY <2>2 DEF EditCallForm, addressVars
  <2>3. CASE Cancel
    BY <2>3 DEF Cancel, forms, addressVars
  <2> QED BY <2>1, <2>2, <2>3
<1>2. PostSound'
  BY <1>1 DEF PostSound, Fits, addressVars, storage
<1>3. TestSound'
  BY <1>1, TestKept
<1> QED BY <1>1, <1>2, <1>3, PageStep DEF SenderSound

\* An answer finds the page that asked, with its form as it is now.
LEMMA PostAnsweredStep ==
  ASSUME ContractInv, NEW s \in Slots, PostAnswered(s)
  PROVE  ContractInv'
<1> USE DEF ContractInv, FormsTypeOK
<1>0. UNCHANGED <<addressVars, sender>> /\ UNCHANGED <<page, chain>>
  BY DEF PostAnswered, addressVars, storage
<1>1. posted[s] # NoPost => posted[s] \in Posts /\ Fits(posted[s])
  BY DEF PostSound
<1>2. CASE ConstructorAnswered(s) \/ PostFails(s)
  <2>1. /\ Ends(s) /\ UNCHANGED <<callForm, confirming, tests>> /\ deployLoading' \in BOOLEAN
        /\ deployForm' \in {deployForm} \union {[deployForm EXCEPT !.input = given] :
                                                 given \in BOOLEAN}
    BY <1>2 DEF ConstructorAnswered, PostFails
  <2>2. FormsTypeOK' /\ deployForm'.isTestSubmit = deployForm.isTestSubmit
    BY <1>0, <2>1
  <2>3. PostSound' /\ TestSound'
    BY <1>0, <2>1, <2>2, Over, TestKept
  <2> QED BY <1>0, <2>1, <2>2, <2>3, PageStep DEF SenderSound
<1>3. CASE Validated(s)
  <2>1. /\ sender # None /\ UNCHANGED <<deployForm, deployLoading, callForm, confirming, tests>>
        /\ \E op \in {"imputedContractCreateGas", "imputedContractCallGas"} :
             /\ posted' = [posted EXCEPT ![s] = Post(op, posted[s].next)]
             /\ op = "imputedContractCreateGas" <=> posted[s].op = "validateContractCreate"
        /\ posted[s].op \in {"validateContractCreate", "validateContractCall"}
    BY <1>3 DEF Validated, forms
  <2>2. PICK op \in {"imputedContractCreateGas", "imputedContractCallGas"} :
          /\ posted' = [posted EXCEPT ![s] = Post(op, posted[s].next)]
          /\ op = "imputedContractCreateGas" <=> posted[s].op = "validateContractCreate"
    BY <2>1
  <2>3. /\ posted[s].next \in {None, "tipSuccess", "showPassword"}
        /\ op = "imputedContractCreateGas" => page = "contract"
        /\ op = "imputedContractCallGas" => page = "call"
    BY <1>1, <2>1, <2>2, PostShape DEF Posts, Fits, OfDeployPage, OfCallPage
  <2>4. Post(op, posted[s].next) \in Posts /\ Fits(Post(op, posted[s].next))
    BY <2>1, <2>3, Posted
    DEF AddressInv, AddressTypeOK, Fits, OfDeployPage, OfCallPage, Validating, Sent
  <2>5. PostSound' /\ TestSound'
    BY <1>0, <2>1, <2>2, <2>4, Slotted, TestKept
  <2> QED BY <1>0, <2>1, <2>5, PageStep DEF SenderSound
<1>4. CASE CreationImputed(s)
  <2>1. /\ Ends(s) /\ UNCHANGED <<deployLoading, callForm>>
        /\ tests' = IF tests < Enough THEN tests + 1 ELSE Enough
        /\ posted[s].op = "imputedContractCreateGas"
    BY <1>4 DEF CreationImputed
  <2>2. page = "contract" /\ sender # None
    BY <1>1, <2>1, PostShape DEF Fits, OfDeployPage, Validating
  <2>3. \/ /\ deployForm' = [deployForm EXCEPT !.isTestSubmit = FALSE] /\ confirming' = TRUE
        \/ /\ deployForm' = [deployForm EXCEPT !.isTestSubmit = TRUE] /\ UNCHANGED confirming
    BY <1>4 DEF CreationImputed, ShowPassword
  <2>4. /\ FormsTypeOK'
        /\ \/ ~deployForm'.isTestSubmit /\ confirming' = TRUE
           \/ deployForm'.isTestSubmit /\ confirming' = confirming
    BY <1>0, <2>1, <2>3
  <2>5. Due' <= Due + 1 /\ Due' <= Enough
    BY <1>0, <2>4 DEF Due, Enough
  <2>6. TestSound'
    <3>1. tests' \in 0..Enough /\ Due' <= tests'
      BY <2>1, <2>5 DEF TestSound, Enough, Due
    <3> QED BY <1>0, <2>2, <3>1 DEF TestSound
  <2>7. PostSound'
    BY <1>0, <2>1, Over
  <2> QED BY <1>0, <2>2, <2>4, <2>6, <2>7, PageStep
<1>5. CASE CallImputed(s)
  <2>1. /\ Ends(s) /\ UNCHANGED <<deployForm, deployLoading, callForm, tests>>
        /\ confirming' = TRUE /\ posted[s].op = "imputedContractCallGas"
    BY <1>5 DEF CallImputed, forms
  <2>2. page = "call" /\ sender # None
    BY <1>1, <2>1, PostShape DEF Fits, OfCallPage, Validating
  <2>3. PostSound'
    BY <1>0, <2>1, Over
  <2>4. TestSound'
    BY <1>0, <2>1, <2>2 DEF TestSound, Due
  <2> QED BY <1>0, <2>1, <2>2, <2>3, <2>4, PageStep
<1>6. CASE ContractSent(s)
  <2>1. /\ UNCHANGED <<deployForm, deployLoading, callForm, confirming, tests>>
        /\ \/ /\ posted' = [posted EXCEPT ![s] = GetDefaultContract]
              /\ posted[s].op = "createContract"
           \/ posted' = [posted EXCEPT ![s] = NoPost]
    BY <1>6 DEF ContractSent, forms
  <2>2. posted[s].op = "createContract" =>
          GetDefaultContract \in Posts /\ Fits(GetDefaultContract)
    BY <1>1, PostShape, DefaultPosted
    DEF AddressInv, AddressTypeOK, Fits, OfDeployPage, OfCallPage, Validating, Sent
  <2>3. PostSound' /\ TestSound'
    BY <1>0, <2>1, <2>2, Slotted, TestKept
  <2> QED BY <1>0, <2>1, <2>3, PageStep DEF SenderSound
<1>7. CASE CodeAnswered(s)
  <2>1. /\ UNCHANGED <<callForm, confirming, tests>>
        /\ posted[s].op \in {"uploadContractJar", "getDefaultContractCode"}
    BY <1>7 DEF CodeAnswered
  <2>2. page = "contract"
    BY <1>1, <2>1, PostShape DEF Fits, OfDeployPage
  <2>3. /\ PostSound' /\ FormsTypeOK'
        /\ deployForm'.isTestSubmit = deployForm.isTestSubmit
    <3>1. CASE GetParameter(s)
      BY <1>0, <2>1, <2>2, <3>1, ParameterStep
    <3>2. CASE /\ posted' = [posted EXCEPT ![s] = Post("getContractConstructor", None)]
               /\ deployForm' = [deployForm EXCEPT !.hex = TRUE, !.input = FALSE]
               /\ deployLoading' = TRUE
      <4>1. Post("getContractConstructor", None) \in Posts
            /\ Fits(Post("getContractConstructor", None))
        BY <2>2, Posted
        DEF AddressInv, AddressTypeOK, Fits, OfDeployPage, OfCallPage, Validating, Sent
      <4>2. PostSound'
        BY <1>0, <3>2, <4>1, Slotted
      <4> QED BY <1>0, <2>1, <3>2, <4>2
    <3> QED BY <1>7, <3>1, <3>2 DEF CodeAnswered
  <2>4. TestSound'
    BY <1>0, <2>1, <2>3, TestKept
  <2> QED BY <1>0, <2>1, <2>3, <2>4, PageStep DEF SenderSound
<1> QED BY <1>2, <1>3, <1>4, <1>5, <1>6, <1>7 DEF PostAnswered

-----------------------------------------------------------------------------
LEMMA ContractStep ==
  ASSUME ContractInv, [Next]_vars
  PROVE  ContractInv'
<1>1. CASE Next
  BY <1>1, AccountsStep, LoadPagesStep, DeployStep, CallStep, EditStep, PostAnsweredStep
  DEF Next
<1>2. CASE UNCHANGED vars
  <2>1. /\ UNCHANGED <<addressVars, sender, deployForm, deployLoading, callForm, confirming,
                       posted, tests>>
        /\ UNCHANGED <<page, chain>>
    BY <1>2 DEF vars, contractVars, forms, addressVars, storage
  <2>2. FormsTypeOK' /\ PostSound' /\ TestSound'
    BY <2>1, TestKept DEF ContractInv, FormsTypeOK, PostSound, Fits
  <2> QED BY <2>1, <2>2, PageStep DEF ContractInv, SenderSound
<1> QED BY <1>1, <1>2

LEMMA ContractInvariance == Spec => []ContractInv
<1>1. ContractInv /\ [Next]_vars => ContractInv'
  BY ContractStep
<1> QED BY ContractStart, <1>1, PTL DEF Spec

\* Also while contracts are deployed and called, what is selected is held.
THEOREM SelectedHeldWithContracts == Spec => []SelectedIsHeld
<1>1. ContractInv => SelectedIsHeld
  BY AddressInvImplies DEF ContractInv
<1> QED BY ContractInvariance, <1>1, PTL

\* Whatever a page has under way, in any order: a transaction is asked for from the
\* account the user sees selected, on its chain.  (sender of createContract and
\* callContract)
THEOREM SentCorrectly == Spec => []SentForSelected
<1>1. ContractInv => SentForSelected
  <2> SUFFICES ASSUME ContractInv, NEW s \in Slots, posted[s].op \in Sent
               PROVE  /\ posted[s].chain = chain
                      /\ posted[s].sender = selection[chain]
                      /\ ChainOf[posted[s].sender] = chain
    BY DEF SentForSelected
  <2>1. /\ posted[s].chain = chain /\ posted[s].sender = sender /\ sender # None
        /\ page \in {"contract", "call"}
    BY PostShape
    DEF ContractInv, PostSound, Fits, Posts, Sent, Validating, OfDeployPage, OfCallPage
  <2> QED BY <2>1
    DEF ContractInv, SenderSound, AddressInv, AddressTypeOK, SelectionSound
<1> QED BY ContractInvariance, <1>1, PTL

\* No test pays for two deployments, however tests, uploads and password boxes of a
\* page overlap, and however many of them.  (isTestSubmit of Deploy.vue)
THEOREM EveryDeploymentTested == Spec => []TestedAnew
<1>1. ContractInv => TestedAnew
  BY DEF ContractInv, TestSound, TestedAnew, Enough
<1> QED BY ContractInvariance, <1>1, PTL
=============================================================================
