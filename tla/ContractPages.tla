---------------------------- MODULE ContractPages ----------------------------
(***************************************************************************)
(* The pages of the web client on which contracts are deployed             *)
(* (Contract.vue with Deploy.vue) and called (ContractInfo.vue with        *)
(* Call.vue), together with the pages of AddressPages, on which the        *)
(* account they are sent from is selected.                                 *)
(*                                                                         *)
(* Both pages read the selected address when they are made.  A call or a   *)
(* deployment is validated, its gas is imputed, the password is asked for, *)
(* and it is sent as the form is then.  Nothing but the password box and   *)
(* the sign that parameters are being loaded keeps the user from editing   *)
(* or from clicking again, so several requests may be under way, answered  *)
(* in any order.                                                           *)
(*                                                                         *)
(* Of the forms only that is kept which decides what a click does.  Gas,   *)
(* price and remark are optional inputs: they may be changed at any time,  *)
(* also after a test, and are sent as they are then.                       *)
(***************************************************************************)
EXTENDS AddressPages, Integers

CONSTANT Slots  \* how many requests of a page may be under way at once

ASSUME SlotsNonEmpty == Slots # {}

VARIABLES
  sender,         \* addressInfo.address of the page
  deployForm,     \* of Deploy.vue: is there a code (hex), are alias and required
                  \* parameters given (input); with isTestSubmit, kept beside the form
  deployLoading,  \* is the form covered while parameters are loaded?
  callForm,       \* of Call.vue: is a method chosen that changes the contract, and is
                  \* every required argument given?
  confirming,     \* is the password asked for?
  posted,         \* the requests of the page that are under way
  tests           \* tests this page has passed and not yet sent a deployment for;
                  \* more than Enough are not counted

forms == <<deployForm, deployLoading, callForm>>
contractVars == <<sender, forms, confirming, posted, tests>>
vars == <<addressVars, contractVars>>

NewDeployForm == [hex |-> FALSE, input |-> FALSE, isTestSubmit |-> FALSE]

\* At most two deployments can be due: the box is open, the form counts as tested.
Enough == 2

\* next: what is done once a test is passed
NoPost == [op |-> "none"]
Post(op, next) == [op |-> op, chain |-> chain, sender |-> sender, next |-> next]

Sent == {"createContract", "callContract"}

Send(s, op, next) ==
  posted[s] = NoPost /\ posted' = [posted EXCEPT ![s] = Post(op, next)]
Ends(s) == posted' = [posted EXCEPT ![s] = NoPost]

MayClick(p) == page = p /\ ~confirming /\ ~deployLoading

-----------------------------------------------------------------------------
(***************************************************************************)
(* Making a page.  Answers to one that was left find nothing to change.    *)
(***************************************************************************)
GetDefaultContract == [Post("getDefaultContractCode", None) EXCEPT !.sender = None]

\* The first page asks for the code of the jar put beside the wallet.
FirstPosts(p) ==
  IF p = "contract"
  THEN {[s \in Slots |-> IF s = t THEN GetDefaultContract ELSE NoPost] : t \in Slots}
  ELSE {[s \in Slots |-> NoPost]}

Blank ==
  /\ deployForm' = NewDeployForm
  /\ deployLoading' = FALSE
  /\ callForm' = FALSE
  /\ confirming' = FALSE
  /\ tests' = 0

\* (First a slip: the address selected before the page was opened.)
MadeTooEarly(p) ==
  /\ sender' = IF p \in {"contract", "call"} THEN selection[chain] ELSE None
  /\ posted' \in FirstPosts(p)
  /\ Blank

\* created
Made(p) ==
  /\ sender' = IF p \in {"contract", "call"} THEN selection'[chain] ELSE None
  /\ posted' \in FirstPosts(p)
  /\ Blank

AccountSide ==
  /\ AddressAnswers \/ (AddressClicks /\ ~confirming)
  /\ IF page' = page THEN UNCHANGED contractVars ELSE Made(page')

LoadPages == Load /\ Made("contract")

-----------------------------------------------------------------------------
(***************************************************************************)
(* Deploy.vue                                                              *)
(***************************************************************************)
\* getParameter asks what the code wants; one too short clears the form.
GetParameter(s) ==
  \/ /\ posted' = [posted EXCEPT ![s] = Post("getContractConstructor", None)]
     /\ deployForm' = [deployForm EXCEPT !.hex = TRUE]
     /\ deployLoading' = TRUE
  \/ /\ Ends(s)
     /\ deployForm' = [NewDeployForm EXCEPT !.isTestSubmit = deployForm.isTestSubmit]
     /\ UNCHANGED deployLoading

TypeHex(s) ==
  /\ MayClick("contract")
  /\ posted[s] = NoPost
  /\ GetParameter(s)
  /\ UNCHANGED <<addressVars, sender, callForm, confirming, tests>>

\* Another file takes alias and parameters away (watch).
UploadJar(s) ==
  /\ MayClick("contract")
  /\ deployForm' \in {deployForm, [deployForm EXCEPT !.input = FALSE]}
  /\ Send(s, "uploadContractJar", None)
  /\ UNCHANGED <<addressVars, sender, deployLoading, callForm, confirming, tests>>

\* alias and parameters
EditDeployForm(given) ==
  /\ MayClick("contract")
  /\ deployForm' = [deployForm EXCEPT !.input = given]
  /\ UNCHANGED <<addressVars, sender, deployLoading, callForm, confirming, posted, tests>>

Complete == deployForm.hex /\ deployForm.input

\* next: show a message, or ask for the password.
SubmitTestDeploy(s, next) ==
  /\ Complete
  /\ Send(s, "validateContractCreate", next)
  /\ UNCHANGED <<deployForm, confirming>>

\* (First a slip: the form counts as tested also the next time.)
ShowPasswordAgain ==
  /\ confirming' = TRUE
  /\ UNCHANGED deployForm

\* Every further deployment is tested anew.
ShowPassword ==
  /\ confirming' = TRUE
  /\ deployForm' = [deployForm EXCEPT !.isTestSubmit = FALSE]

SubmitDeploy(s) ==
  \/ ~deployForm.isTestSubmit /\ SubmitTestDeploy(s, "showPassword")
  \/ deployForm.isTestSubmit /\ Complete /\ ShowPassword /\ UNCHANGED posted

Deploy(s) ==
  /\ MayClick("contract")
  /\ SubmitTestDeploy(s, "tipSuccess") \/ SubmitDeploy(s)
  /\ UNCHANGED <<addressVars, sender, deployLoading, callForm, tests>>

\* The box is closed.  Parameters may be missing, if they were loaded while it was
\* open; without an alias the deployment is sent all the same.
ConfirmDeploy(s) ==
  /\ confirming /\ page = "contract"
  /\ confirming' = FALSE
  /\ \/ Send(s, "createContract", None) /\ tests' = tests - 1
     \/ ~deployForm.input /\ UNCHANGED <<posted, tests>>
  /\ UNCHANGED <<addressVars, sender, forms>>

-----------------------------------------------------------------------------
(***************************************************************************)
(* Call.vue                                                                *)
(***************************************************************************)
\* Another method or other arguments
EditCallForm(given) ==
  /\ MayClick("call")
  /\ callForm' = given
  /\ UNCHANGED <<addressVars, sender, deployForm, deployLoading, confirming, posted, tests>>

\* (A method that only reads is called at once, and changes nothing.)
SubmitCallContract(s) ==
  /\ MayClick("call")
  /\ callForm
  /\ Send(s, "validateContractCall", "showPassword")
  /\ UNCHANGED <<addressVars, sender, forms, confirming, tests>>

\* As the form is now, whatever method it is about.
ConfirmCall(s) ==
  /\ confirming /\ page = "call"
  /\ confirming' = FALSE
  /\ \/ Send(s, "callContract", None)
     \/ ~callForm /\ UNCHANGED posted
  /\ UNCHANGED <<addressVars, sender, forms, tests>>

\* passwordClose
Cancel ==
  /\ confirming
  /\ confirming' = FALSE
  /\ UNCHANGED <<addressVars, sender, forms, posted, tests>>

-----------------------------------------------------------------------------
(***************************************************************************)
(* The answers                                                             *)
(***************************************************************************)
\* The new parameters may have to be filled in.
ConstructorAnswered(s) ==
  /\ posted[s].op = "getContractConstructor"
  /\ Ends(s)
  /\ deployLoading' = FALSE
  /\ \E given \in BOOLEAN : deployForm' = [deployForm EXCEPT !.input = given]
  /\ UNCHANGED <<callForm, confirming, tests>>

\* Validation is passed: the gas is asked for.  (Without a sender there is none.)
Validated(s) ==
  /\ posted[s].op \in {"validateContractCreate", "validateContractCall"}
  /\ sender # None
  /\ posted' = [posted EXCEPT ![s] =
       Post(IF posted[s].op = "validateContractCreate"
            THEN "imputedContractCreateGas" ELSE "imputedContractCallGas", posted[s].next)]
  /\ UNCHANGED <<forms, confirming, tests>>

\* A passed test sets isTestSubmit, then goes on with what it was made for.
CreationImputed(s) ==
  /\ posted[s].op = "imputedContractCreateGas"
  /\ Ends(s)
  /\ IF posted[s].next = "showPassword" THEN ShowPassword
     ELSE /\ deployForm' = [deployForm EXCEPT !.isTestSubmit = TRUE]
          /\ UNCHANGED confirming
  /\ tests' = IF tests < Enough THEN tests + 1 ELSE Enough
  /\ UNCHANGED <<deployLoading, callForm>>

CallImputed(s) ==
  /\ posted[s].op = "imputedContractCallGas"
  /\ Ends(s)
  /\ confirming' = TRUE
  /\ UNCHANGED <<forms, tests>>

\* createContract is followed by the default code.
ContractSent(s) ==
  /\ posted[s].op \in Sent
  /\ posted' = [posted EXCEPT ![s] = IF posted[s].op = "createContract"
                                     THEN GetDefaultContract ELSE NoPost]
  /\ UNCHANGED <<forms, confirming, tests>>

\* The code is put into the form; the default one clears the alias besides.
CodeAnswered(s) ==
  /\ posted[s].op \in {"uploadContractJar", "getDefaultContractCode"}
  /\ \/ posted[s].op = "uploadContractJar" /\ GetParameter(s)
     \/ /\ posted[s].op = "getDefaultContractCode"
        /\ posted' = [posted EXCEPT ![s] = Post("getContractConstructor", None)]
        /\ deployForm' = [deployForm EXCEPT !.hex = TRUE, !.input = FALSE]
        /\ deployLoading' = TRUE
  /\ UNCHANGED <<callForm, confirming, tests>>

\* An error, a missing jar or no answer: a message at most.
PostFails(s) ==
  /\ posted[s] # NoPost
  /\ Ends(s)
  /\ deployLoading' = (deployLoading /\ posted[s].op # "getContractConstructor")
  /\ UNCHANGED <<deployForm, callForm, confirming, tests>>

PostAnswered(s) ==
  /\ \/ ConstructorAnswered(s) \/ Validated(s) \/ CreationImputed(s) \/ CallImputed(s)
     \/ ContractSent(s) \/ CodeAnswered(s) \/ PostFails(s)
  /\ UNCHANGED <<addressVars, sender>>

-----------------------------------------------------------------------------
Init ==
  /\ AddressInit
  /\ sender = None
  /\ posted \in FirstPosts("contract")
  /\ deployForm = NewDeployForm
  /\ deployLoading = FALSE
  /\ callForm = FALSE
  /\ confirming = FALSE
  /\ tests = 0

Next ==
  \/ AccountSide \/ LoadPages \/ Cancel
  \/ \E s \in Slots :
       \/ TypeHex(s) \/ UploadJar(s) \/ Deploy(s) \/ ConfirmDeploy(s)
       \/ SubmitCallContract(s) \/ ConfirmCall(s)
       \/ PostAnswered(s)
  \/ \E given \in BOOLEAN : EditDeployForm(given) \/ EditCallForm(given)

Spec == Init /\ [][Next]_vars

-----------------------------------------------------------------------------
\* Whatever a page has under way, in any order, while lists and headers are
\* answered beside it: a transaction is asked for from the account the user sees
\* selected, on the chain it is asked for on.  (sender of createContract and
\* callContract)
SentForSelected ==
  \A s \in Slots :
    posted[s].op \in Sent =>
      /\ posted[s].chain = chain
      /\ posted[s].sender = selection[chain]
      /\ ChainOf[posted[s].sender] = chain

\* No test pays for two deployments: however tests, uploads and password boxes
\* overlap, a page sends no more deployments than it has passed tests.
\* (isTestSubmit of Deploy.vue)
TestedAnew == tests >= 0
=============================================================================
