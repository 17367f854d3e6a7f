----------------------------- MODULE ApiClient -----------------------------
(***************************************************************************)
(* HttpClient and ApiModuleInfoConfig: the shared client through which     *)
(* every request reaches the API module, and the address it is made for,   *)
(* which clients change while the program runs (setProperty).              *)
(*                                                                         *)
(* Neither class takes a lock.  Each action is one access to the shared    *)
(* fields; the accesses of any number of threads interleave in any order.  *)
(* (Fields that are not volatile could moreover be read late.)  A thread   *)
(* that has the client is idle here: what it calls may take long, and      *)
(* touches nothing of this module any more.                                *)
(***************************************************************************)

CONSTANTS
  Threads,
  Hosts,         \* what an address denotes, with or without "http://"
  Malformed,     \* the hosts new URL(...) rejects
  Configured,    \* addresses the properties file may give at startup
  Nothing        \* null: no previous address, no client

Address == [host : Hosts, http : BOOLEAN]

ASSUME ClientConstants ==
  /\ Malformed \subseteq Hosts
  /\ Configured \subseteq Address
  /\ Nothing \notin Address

VARIABLES
  apiModuleAddress, prevApiModuleAddress, isCreateNewClient,  \* the settings
  rpcHttpClient,  \* the address the shared client was made for
  pc,             \* what each thread does next
  arg,            \* the address it sets
  prevUrl, nowUrl,\* its local variables in getRpcHttpClient
  cut             \* history: has the setting made last been cut by another one,
                  \* or by a getRpcHttpClient, or cut one itself?

settings == <<apiModuleAddress, prevApiModuleAddress, isCreateNewClient>>
locals == <<arg, prevUrl, nowUrl>>
vars == <<settings, rpcHttpClient, pc, locals, cut>>

Setting == {"describe", "keep", "raise", "store"}
Getting == {"now", "check", "make", "clear", "use"}

\* An address without the scheme gets it; one with it is left alone.
WithHttp(a) == [a EXCEPT !.http = TRUE]

Goto(t, step) == pc' = [pc EXCEPT ![t] = step]

-----------------------------------------------------------------------------
(***************************************************************************)
(* setProperty("apiModuleAddress", a): the getter, then the setter         *)
(***************************************************************************)
SetProperty(t, a) ==
  /\ pc[t] = "idle"
  /\ cut' = (\E u \in Threads : pc[u] # "idle")
  /\ arg' = [arg EXCEPT ![t] = a]
  /\ Goto(t, "describe")
  /\ UNCHANGED <<settings, rpcHttpClient, prevUrl, nowUrl>>

\* getApiModuleAddress completes the address it returns where it is stored.
GetApiModuleAddress == apiModuleAddress' = WithHttp(apiModuleAddress)

DescribeOld(t) ==
  /\ pc[t] = "describe"
  /\ GetApiModuleAddress
  /\ Goto(t, "keep")
  /\ UNCHANGED <<prevApiModuleAddress, isCreateNewClient, rpcHttpClient, locals, cut>>

KeepPrevious(t) ==
  /\ pc[t] = "keep"
  /\ prevApiModuleAddress' = apiModuleAddress
  /\ Goto(t, "raise")
  /\ UNCHANGED <<apiModuleAddress, isCreateNewClient, rpcHttpClient, locals, cut>>

\* (First a slip: the flag is forgotten.)
NoFlag(t) ==
  /\ pc[t] = "raise"
  /\ Goto(t, "store")
  /\ UNCHANGED <<settings, rpcHttpClient, locals, cut>>

RaiseFlag(t) ==
  /\ pc[t] = "raise"
  /\ isCreateNewClient' = TRUE
  /\ Goto(t, "store")
  /\ UNCHANGED <<apiModuleAddress, prevApiModuleAddress, rpcHttpClient, locals, cut>>

StoreAddress(t) ==
  /\ pc[t] = "store"
  /\ apiModuleAddress' = WithHttp(arg[t])
  /\ Goto(t, "idle")
  /\ UNCHANGED <<prevApiModuleAddress, isCreateNewClient, rpcHttpClient, locals, cut>>

-----------------------------------------------------------------------------
(***************************************************************************)
(* getRpcHttpClient, called before every call of the API module            *)
(***************************************************************************)
ReadPrev(t) ==
  /\ pc[t] = "idle"
  /\ cut' = (cut \/ \E u \in Threads : pc[u] \in Setting)
  /\ prevUrl' = [prevUrl EXCEPT ![t] = prevApiModuleAddress]
  /\ Goto(t, "now")
  /\ UNCHANGED <<settings, rpcHttpClient, arg, nowUrl>>

ReadNow(t) ==
  /\ pc[t] = "now"
  /\ GetApiModuleAddress
  /\ nowUrl' = [nowUrl EXCEPT ![t] = WithHttp(apiModuleAddress)]
  /\ Goto(t, "check")
  /\ UNCHANGED <<prevApiModuleAddress, isCreateNewClient, rpcHttpClient, arg, prevUrl, cut>>

\* (First a slip: the flag is cleared before the client is there.)
CheckAndClear(t) ==
  /\ pc[t] = "check"
  /\ IF isCreateNewClient /\ prevUrl[t] \notin {Nothing, nowUrl[t]}
     THEN Goto(t, "make") /\ isCreateNewClient' = FALSE
     ELSE Goto(t, "use") /\ UNCHANGED isCreateNewClient
  /\ UNCHANGED <<apiModuleAddress, prevApiModuleAddress, rpcHttpClient, locals, cut>>

CheckFlag(t) ==
  /\ pc[t] = "check"
  /\ IF isCreateNewClient /\ prevUrl[t] \notin {Nothing, nowUrl[t]}
     THEN Goto(t, "make")
     ELSE Goto(t, "use")
  /\ UNCHANGED <<settings, rpcHttpClient, locals, cut>>

\* new URL throws for a malformed address: the old client is kept.
MakeClient(t) ==
  /\ pc[t] = "make"
  /\ IF nowUrl[t].host \in Malformed
     THEN Goto(t, "use") /\ UNCHANGED rpcHttpClient
     ELSE Goto(t, "clear") /\ rpcHttpClient' = nowUrl[t]
  /\ UNCHANGED <<settings, locals, cut>>

ClearFlag(t) ==
  /\ pc[t] = "clear"
  /\ isCreateNewClient' = FALSE
  /\ Goto(t, "use")
  /\ UNCHANGED <<apiModuleAddress, prevApiModuleAddress, rpcHttpClient, locals, cut>>

\* The client is returned and the call is made through it.
UseClient(t) ==
  /\ pc[t] = "use"
  /\ Goto(t, "idle")
  /\ UNCHANGED <<settings, rpcHttpClient, locals, cut>>

-----------------------------------------------------------------------------
\* The constructor of HttpClient makes the first client, if it can.
Init ==
  /\ apiModuleAddress \in {WithHttp(a) : a \in Configured}
  /\ prevApiModuleAddress = Nothing
  /\ isCreateNewClient = FALSE
  /\ rpcHttpClient =
       IF apiModuleAddress.host \in Malformed THEN Nothing ELSE apiModuleAddress
  /\ pc = [t \in Threads |-> "idle"]
  /\ arg = [t \in Threads |-> Nothing]
  /\ prevUrl = [t \in Threads |-> Nothing]
  /\ nowUrl = [t \in Threads |-> Nothing]
  /\ cut = FALSE

Next ==
  \E t \in Threads :
    \/ \E a \in Address : SetProperty(t, a)
    \/ DescribeOld(t) \/ KeepPrevious(t) \/ RaiseFlag(t) \/ StoreAddress(t)
    \/ ReadPrev(t) \/ ReadNow(t) \/ CheckFlag(t)
    \/ MakeClient(t) \/ ClearFlag(t) \/ UseClient(t)

Spec == Init /\ [][Next]_vars

-----------------------------------------------------------------------------
TypeOK ==
  /\ apiModuleAddress \in Address
  /\ prevApiModuleAddress \in Address \union {Nothing}
  /\ isCreateNewClient \in BOOLEAN
  /\ rpcHttpClient \in {a \in Address : a.http} \union {Nothing}
  /\ pc \in [Threads -> {"idle"} \union Setting \union Getting]
  /\ arg \in [Threads -> Address \union {Nothing}]
  /\ prevUrl \in [Threads -> Address \union {Nothing}]
  /\ nowUrl \in [Threads -> Address \union {Nothing}]
  /\ cut \in BOOLEAN

\* The address set last is the one that was set before it: equals(prevUrl)
\* then hides that there is no client for it.
Repeated == prevApiModuleAddress = apiModuleAddress

\* A setting is only lost if the same address is set twice without a call in
\* between, or if a setting and another request are in these lines at once,
\* whatever was set, lost or cut before it.  Otherwise, when no thread is at
\* work, calls go to the address set last, or the next one will make the
\* client for it; unless it is malformed.
\* (HttpClient.getRpcHttpClient, "now api module service path: "+nowUrl;
\* setProperty, "The value of configuration parameter ... changed ... to")
SettingNotLost ==
  (\A t \in Threads : pc[t] = "idle") =>
    \/ Repeated \/ cut
    \/ apiModuleAddress.host \in Malformed
    \/ rpcHttpClient = apiModuleAddress
    \/ isCreateNewClient /\ prevApiModuleAddress # Nothing

\* After such a setting every call goes to its address, however many threads
\* call at once: none sees the flag cleared before the new client is there.
\* (getRpcHttpClient: new JsonRpcHttpClient, then setCreateNewClient(false))
CallsGoWhereSet ==
  \A t \in Threads :
    pc[t] = "use" /\ apiModuleAddress.host \notin Malformed =>
      Repeated \/ cut \/ rpcHttpClient = apiModuleAddress
=============================================================================
