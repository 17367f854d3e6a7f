---------------------------- MODULE AddressPages ----------------------------
(***************************************************************************)
(* The account selected in the web client: HeaderBar.vue, Address.vue,     *)
(* NewAddress.vue and ImportAddress.vue.  For each chain localStorage      *)
(* holds one selected address; which chain is meant is read again at every *)
(* access, from the node in use (chainIdNumber in api/util.js).            *)
(*                                                                         *)
(* On these pages the user waits for the answer of a request before the    *)
(* next click, or loads the application again.  That is an assumption      *)
(* about the user: the code has no such guard, and the answer of a         *)
(* creation that comes after another node was chosen selects the account   *)
(* for the wrong chain.  A request that was given up, by the user or after *)
(* 28 seconds, may still be done by the wallet later.                      *)
(***************************************************************************)
EXTENDS Naturals, FiniteSets

CONSTANTS
  Chains,
  Addresses,
  ChainOf,    \* the chain an address belongs to
  None

ASSUME AddressConstants ==
  /\ ChainOf \in [Addresses -> Chains]
  /\ None \notin Chains \union Addresses

VARIABLES
  chain,              \* chainID(): the chain of the node in use
  selection,          \* localStorage, the selected address of each chain
  accounts,           \* the accounts the wallet holds
  page,               \* the page shown
  addressList,        \* the rows of the page Address
  selectAddressInfo,  \* the row to be removed
  passwordVisible,    \* is its password asked for?
  request,            \* the request the client waits for
  late,               \* one that was given up and has not been done
  unheard             \* accounts removed without the client having noticed

storage == <<chain, selection>>
rows == <<addressList, selectAddressInfo, passwordVisible>>
addressVars == <<storage, accounts, page, rows, request, late, unheard>>

\* "nodes" is NodeService, "contract" the first page, with the form to deploy
\* contracts, "call" ContractInfo, "newAddress" also ImportAddress.
Pages == {"contract", "call", "address", "newAddress", "nodes"}

NoRequest == [op |-> "none"]
Ask(op, a) ==
  [op |-> op, chain |-> chain, address |-> a, state |-> "sent", held |-> {}]

Waiting == request # NoRequest
Changing == {"create", "import", "delete"}

OnChain(c) == {a \in accounts : ChainOf[a] = c}

-----------------------------------------------------------------------------
(***************************************************************************)
(* The wallet                                                              *)
(***************************************************************************)
\* What the account service does with account a: a created one is new, an
\* import may be of one already held, as overwrite is always true.
Changes(ask, a) ==
  \/ /\ ask.op \in {"create", "import"}
     /\ ask.op = "create" => a \notin accounts
     /\ ChainOf[a] = ask.chain
     /\ accounts' = accounts \union {a}
  \/ /\ ask.op = "delete"
     /\ a = ask.address /\ a \in OnChain(ask.chain)
     /\ accounts' = accounts \ {a}

WalletDoes ==
  /\ Waiting /\ request.state = "sent"
  /\ \/ \E a \in Addresses :
          /\ Changes(request, a)
          /\ request' = [request EXCEPT !.state = "done", !.address = a]
     \/ /\ request.op \notin Changing
        /\ request' = [request EXCEPT !.state = "done", !.held = OnChain(request.chain)]
        /\ UNCHANGED accounts
     \/ /\ request' = [request EXCEPT !.state = "refused"]
        /\ UNCHANGED accounts
  /\ unheard' = unheard \ accounts'
  /\ UNCHANGED <<storage, page, rows, late>>

\* The answer goes nowhere.
WalletDoesLate ==
  /\ late # NoRequest
  /\ late' = NoRequest
  /\ \E a \in Addresses : Changes(late, a)
  /\ unheard' = (unheard \union accounts) \ accounts'
  /\ UNCHANGED <<storage, page, rows, request>>

\* The client waits no longer.  The request may be lost or still be done.  (Nobody
\* hears of the account a late creation adds: it is like an import.)
GivenUp ==
  /\ late' \in IF Waiting /\ request.state = "sent" /\ request.op \in Changing
                  /\ late = NoRequest
               THEN {late, [request EXCEPT !.op = IF @ = "create" THEN "import" ELSE @]}
               ELSE {late}
  /\ unheard' = unheard \union
       CASE request.op = "delete" -> {request.address} \ accounts
         [] request.op = "list"   -> addressList \ accounts
         [] OTHER                 -> {}

\* 28 seconds are over.  (HeaderBar takes no answer for an empty list.)
TimesOut ==
  /\ Waiting /\ request.state # "refused"
  /\ GivenUp
  /\ request' = IF request.op = "header" THEN [request EXCEPT !.state = "refused"]
                ELSE NoRequest
  /\ UNCHANGED <<storage, accounts, page, rows>>

-----------------------------------------------------------------------------
(***************************************************************************)
(* The answers                                                             *)
(***************************************************************************)
\* localStorage.setItem(chainIdNumber(), a), or removeItem
Select(a) == selection' = [selection EXCEPT ![chain] = a]

\* The page is made; Address asks for its list.
Show(p) ==
  /\ page' = p
  /\ addressList' = {} /\ selectAddressInfo' = None /\ passwordVisible' = FALSE
  /\ request' = IF p = "address" THEN Ask("list", None) ELSE NoRequest

Stay == request' = NoRequest /\ UNCHANGED <<page, rows>>

AccountCreated ==
  /\ request.op = "create"
  /\ Select(request.address)
  /\ Stay

AccountImported ==
  /\ request.op = "import"
  /\ Select(request.address)
  /\ Show("address")

\* (First a slip: the selection stays.)
SelectionKept ==
  /\ request.op = "delete"
  /\ UNCHANGED selection
  /\ request' = Ask("list", None)
  /\ UNCHANGED <<page, rows>>

\* Address.passSubmit: the selection goes with its account, the list is asked
\* for again.
AccountDeleted ==
  /\ request.op = "delete"
  /\ IF selectAddressInfo = selection[chain] THEN Select(None) ELSE UNCHANGED selection
  /\ request' = Ask("list", None)
  /\ UNCHANGED <<page, rows>>

\* Address.getAddressList, also when the page was left for the first one.
ListAnswered ==
  /\ request.op = "list"
  /\ IF request.held = {} THEN Show("newAddress")
     ELSE /\ addressList' = IF page = "address" THEN request.held ELSE addressList
          /\ request' = NoRequest
          /\ UNCHANGED <<page, selectAddressInfo, passwordVisible>>
  /\ UNCHANGED selection

\* HeaderBar.getAddressList: without accounts nothing stays selected and the
\* first is to be made; without a selection one is to be chosen.
HeaderAnswered ==
  /\ request.op = "header"
  /\ IF request.held = {} THEN Select(None) /\ Show("newAddress")
     ELSE IF selection[chain] = None THEN Show("address") /\ UNCHANGED selection
     ELSE Stay /\ UNCHANGED selection

\* Any other refusal is only a message.
Answered ==
  /\ Waiting /\ request.state # "sent"
  /\ IF request.state = "refused" /\ request.op # "header"
     THEN GivenUp /\ Stay /\ UNCHANGED selection
     ELSE /\ \/ AccountCreated \/ AccountImported \/ AccountDeleted
             \/ ListAnswered \/ HeaderAnswered
          /\ UNCHANGED <<late, unheard>>
  /\ UNCHANGED <<chain, accounts>>

-----------------------------------------------------------------------------
(***************************************************************************)
(* What the user does                                                      *)
(***************************************************************************)
\* Assumed of the user, and not enforced by the code.
Patient == ~Waiting

\* A password box covers the page.
UserMayClick == Patient /\ ~passwordVisible

\* The application is loaded (again), whatever is under way.
Load ==
  /\ page' = "contract"
  /\ addressList' = {} /\ selectAddressInfo' = None /\ passwordVisible' = FALSE
  /\ GivenUp
  /\ request' = Ask("header", None)
  /\ UNCHANGED <<storage, accounts>>

Open(p) ==
  /\ UserMayClick
  /\ page # p
  /\ Show(p)
  /\ UNCHANGED <<storage, accounts, late, unheard>>

\* NewAddress and ImportAddress: createAccount, importAccountByPriKey
SubmitAccount(op) ==
  /\ UserMayClick
  /\ page = "newAddress"
  /\ request' = Ask(op, None)
  /\ UNCHANGED <<storage, accounts, page, rows, late, unheard>>

\* The list is asked for, and the page left.
SelectionAddress(a) ==
  /\ UserMayClick
  /\ a \in addressList
  /\ Select(a)
  /\ page' = "contract"
  /\ addressList' = {} /\ selectAddressInfo' = None
  /\ request' = Ask("list", None)
  /\ UNCHANGED <<chain, accounts, passwordVisible, late, unheard>>

DeleteAddress(a) ==
  /\ UserMayClick
  /\ a \in addressList
  /\ selectAddressInfo' = a
  /\ passwordVisible' = TRUE
  /\ UNCHANGED <<storage, accounts, page, addressList, request, late, unheard>>

PassSubmit ==
  /\ passwordVisible
  /\ passwordVisible' = FALSE
  /\ request' = Ask("delete", selectAddressInfo)
  /\ UNCHANGED <<storage, accounts, page, addressList, selectAddressInfo, late, unheard>>

PasswordClose ==
  /\ passwordVisible
  /\ passwordVisible' = FALSE
  /\ UNCHANGED <<storage, accounts, page, addressList, selectAddressInfo, request,
                 late, unheard>>

\* Another node is chosen (module NodeService).
SwitchChain(c) ==
  /\ UserMayClick
  /\ page = "nodes"
  /\ c # chain
  /\ chain' = c
  /\ UNCHANGED <<selection, accounts, page, rows, request, late, unheard>>

-----------------------------------------------------------------------------
AddressInit ==
  /\ chain \in Chains
  /\ selection = [c \in Chains |-> None]
  /\ accounts = {}
  /\ page = "contract"
  /\ addressList = {} /\ selectAddressInfo = None /\ passwordVisible = FALSE
  /\ request = Ask("header", None)
  /\ late = NoRequest
  /\ unheard = {}

AddressAnswers == WalletDoes \/ WalletDoesLate \/ TimesOut \/ Answered

AddressClicks ==
  \/ \E a \in Addresses : SelectionAddress(a) \/ DeleteAddress(a)
  \/ \E p \in Pages : Open(p)
  \/ \E op \in {"create", "import"} : SubmitAccount(op)
  \/ \E c \in Chains : SwitchChain(c)
  \/ PassSubmit \/ PasswordClose

AddressNext == AddressAnswers \/ AddressClicks \/ Load

AddressSpec == AddressInit /\ [][AddressNext]_addressVars

-----------------------------------------------------------------------------
\* What is selected for a chain is an account of that chain that the wallet
\* holds, unless its removal was not noticed.  (localStorage, written by
\* HeaderBar, Address, NewAddress and ImportAddress)
SelectedIsHeld ==
  request.op # "delete" =>
    \A c \in Chains : selection[c] \in OnChain(c) \union unheard \union {None}
=============================================================================
