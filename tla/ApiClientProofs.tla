-------------------------- MODULE ApiClientProofs --------------------------
(***************************************************************************)
(* Theorems about ApiClient, for any number of threads and any addresses,  *)
(* with every interleaving: a setting is lost only if it repeats the one   *)
(* before it or is cut, and after any other setting, whatever came before  *)
(* it, every call goes to its address.                                     *)
(***************************************************************************)
EXTENDS ApiClient, TLAPS

\* What threads carry from one access to the next.
Carried ==
  \A t \in Threads :
    /\ pc[t] \in Setting => arg[t] \in Address
    /\ pc[t] \in {"check", "make"} => nowUrl[t] \in Address /\ nowUrl[t].http

\* While a setting that is not cut is made, no other thread is in these lines.
Alone ==
  \A t \in Threads : pc[t] \in Setting =>
    \A u \in Threads \ {t} : pc[u] = "idle"

\* What the setter has done so far.
SetterSound ==
  \A t \in Threads :
    /\ pc[t] \in {"raise", "store"} => prevApiModuleAddress = apiModuleAddress
    /\ pc[t] = "store" => isCreateNewClient

\* The address is in use, or the next request will notice that it is not.
Noticed ==
  \/ Repeated
  \/ apiModuleAddress.host \in Malformed
  \/ rpcHttpClient = apiModuleAddress
  \/ isCreateNewClient /\ prevApiModuleAddress # Nothing

\* What a request has read is still so.
GetterSound ==
  \A t \in Threads :
    /\ pc[t] \in {"now", "check"} => prevUrl[t] = prevApiModuleAddress
    /\ pc[t] \in {"check", "make"} => nowUrl[t] = apiModuleAddress
    /\ pc[t] = "clear" => rpcHttpClient = apiModuleAddress
    /\ pc[t] = "use" => \/ Repeated \/ apiModuleAddress.host \in Malformed
                        \/ rpcHttpClient = apiModuleAddress

UncutSound ==
  /\ Alone
  /\ SetterSound
  /\ (\A t \in Threads : pc[t] \notin Setting) => Noticed
  /\ GetterSound

\* A setting that starts while nobody else is in these lines makes UncutSound
\* true, whatever was the case before.
ClientInv ==
  /\ TypeOK
  /\ Carried
  /\ apiModuleAddress.http
  /\ ~cut => UncutSound

-----------------------------------------------------------------------------
\* A completed address is an address, and completing it again changes nothing.
LEMMA Completed ==
  ASSUME NEW a \in Address
  PROVE  /\ WithHttp(a) \in Address
         /\ WithHttp(a).http
         /\ WithHttp(a).host = a.host
         /\ a.http => WithHttp(a) = a
BY DEF Address, WithHttp

LEMMA InitSound == Init => ClientInv
<1> SUFFICES ASSUME Init PROVE ClientInv
  OBVIOUS
<1>1. PICK a \in Configured : apiModuleAddress = WithHttp(a)
  BY DEF Init
<1>2. a \in Address
  BY <1>1, ClientConstants
<1>3. apiModuleAddress \in Address /\ apiModuleAddress.http
  BY <1>1, <1>2, Completed
<1>4. TypeOK
  BY <1>3 DEF Init, TypeOK
<1>5. \A t \in Threads : pc[t] = "idle"
  BY DEF Init
<1>6. Noticed
  BY DEF Init, Noticed
<1>7. Carried /\ UncutSound
  BY <1>5, <1>6 DEF Carried, UncutSound, Alone, SetterSound, GetterSound, Setting
<1> QED BY <1>3, <1>4, <1>7 DEF ClientInv

-----------------------------------------------------------------------------
(***************************************************************************)
(* Types, and what threads carry, in every interleaving                    *)
(***************************************************************************)
SetterMoves(t) ==
  \/ \E a \in Address : SetProperty(t, a)
  \/ DescribeOld(t) \/ KeepPrevious(t) \/ RaiseFlag(t) \/ StoreAddress(t)

GetterMoves(t) ==
  \/ ReadPrev(t) \/ ReadNow(t) \/ CheckFlag(t)
  \/ MakeClient(t) \/ ClearFlag(t) \/ UseClient(t)

LEMMA TypesKept ==
  ASSUME ClientInv, NEW t \in Threads, SetterMoves(t) \/ GetterMoves(t)
  PROVE  TypeOK' /\ Carried' /\ apiModuleAddress'.http
<1> USE DEF ClientInv, TypeOK, Carried, Setting, Getting, Goto, settings, locals
<1>1. CASE \E a \in Address : SetProperty(t, a)
  BY <1>1 DEF SetProperty
<1>2. CASE DescribeOld(t)
  BY <1>2, Completed DEF DescribeOld, GetApiModuleAddress
<1>3. CASE KeepPrevious(t)
  BY <1>3 DEF KeepPrevious
<1>4. CASE RaiseFlag(t)
  BY <1>4 DEF RaiseFlag
<1>5. CASE StoreAddress(t)
  BY <1>5, Completed DEF StoreAddress
<1>6. CASE ReadPrev(t)
  BY <1>6 DEF ReadPrev
<1>7. CASE ReadNow(t)
  BY <1>7, Completed DEF ReadNow, GetApiModuleAddress
<1>8. CASE CheckFlag(t)
  BY <1>8 DEF CheckFlag
<1>9. CASE MakeClient(t)
  BY <1>9 DEF MakeClient
<1>10. CASE ClearFlag(t)
  BY <1>10 DEF ClearFlag
<1>11. CASE UseClient(t)
  BY <1>11 DEF UseClient
<1> QED BY <1>1, <1>2, <1>3, <1>4, <1>5, <1>6, <1>7, <1>8, <1>9, <1>10, <1>11
        DEF SetterMoves, GetterMoves

-----------------------------------------------------------------------------
(***************************************************************************)
(* The setter.  If it is not cut, no other thread is at work.              *)
(***************************************************************************)
LEMMA SetterStep ==
  ASSUME ClientInv, NEW t \in Threads, SetterMoves(t), ~cut'
  PROVE  UncutSound'
<1> USE DEF ClientInv, TypeOK, Carried, UncutSound, Alone, SetterSound, GetterSound,
            Setting, Getting, Goto, settings, locals
<1>1. CASE \E a \in Address : SetProperty(t, a)
  <2>1. PICK a \in Address : SetProperty(t, a)
    BY <1>1
  <2>2. \A u \in Threads : pc[u] = "idle"
    BY <2>1 DEF SetProperty
  <2>3. pc' = [pc EXCEPT ![t] = "describe"]
    BY <2>1 DEF SetProperty
  <2> QED BY <2>2, <2>3
<1>2. CASE DescribeOld(t)
  <2>1. apiModuleAddress' = apiModuleAddress
    BY <1>2, Completed DEF DescribeOld, GetApiModuleAddress
  <2> QED BY <1>2, <2>1 DEF DescribeOld
<1>3. CASE KeepPrevious(t)
  BY <1>3 DEF KeepPrevious
<1>4. CASE RaiseFlag(t)
  BY <1>4 DEF RaiseFlag
<1>5. CASE StoreAddress(t)
  <2>1. /\ pc[t] = "store" /\ pc' = [pc EXCEPT ![t] = "idle"] /\ cut' = cut
        /\ UNCHANGED <<prevApiModuleAddress, isCreateNewClient, rpcHttpClient,
                       arg, prevUrl, nowUrl>>
    BY <1>5 DEF StoreAddress
  <2>2. prevApiModuleAddress = apiModuleAddress /\ isCreateNewClient
    BY <2>1
  <2>3. \A u \in Threads : pc'[u] = "idle"
    BY <2>1
  <2>4. Noticed'
    BY <2>1, <2>2, ClientConstants DEF Noticed
  <2> QED BY <2>3, <2>4
<1> QED BY <1>1, <1>2, <1>3, <1>4, <1>5 DEF SetterMoves

(***************************************************************************)
(* getRpcHttpClient.  Requests of several threads may be in it; the        *)
(* address does not change meanwhile, and whoever makes a client makes the *)
(* same one.                                                               *)
(***************************************************************************)
LEMMA GetterStep ==
  ASSUME ClientInv, NEW t \in Threads, GetterMoves(t), ~cut'
  PROVE  UncutSound'
<1> USE DEF ClientInv, TypeOK, UncutSound, Alone, SetterSound, GetterSound,
            Setting, Getting, Goto, settings, locals
<1>0. ~cut /\ \A u \in Threads : pc[u] \notin Setting
  BY DEF GetterMoves, ReadPrev, ReadNow, CheckFlag, MakeClient, ClearFlag, UseClient
<1>1. CASE ReadPrev(t)
  BY <1>0, <1>1 DEF ReadPrev, Noticed, Repeated
<1>2. CASE ReadNow(t)
  <2>1. apiModuleAddress' = apiModuleAddress /\ WithHttp(apiModuleAddress) = apiModuleAddress
    BY <1>2, Completed DEF ReadNow, GetApiModuleAddress
  <2> QED BY <1>0, <1>2, <2>1 DEF ReadNow, Noticed, Repeated
<1>3. CASE CheckFlag(t)
  BY <1>0, <1>3 DEF CheckFlag, Noticed, Repeated
<1>4. CASE MakeClient(t)
  BY <1>0, <1>4 DEF MakeClient, Noticed, Repeated
<1>5. CASE ClearFlag(t)
  BY <1>0, <1>5 DEF ClearFlag, Noticed, Repeated
<1>6. CASE UseClient(t)
  BY <1>0, <1>6 DEF UseClient, Noticed, Repeated
<1> QED BY <1>1, <1>2, <1>3, <1>4, <1>5, <1>6 DEF GetterMoves

LEMMA NextSound == ClientInv /\ [Next]_vars => ClientInv'
<1> SUFFICES ASSUME ClientInv, [Next]_vars PROVE ClientInv'
  OBVIOUS
<1>1. CASE Next
  <2>1. PICK t \in Threads : SetterMoves(t) \/ GetterMoves(t)
    BY <1>1 DEF Next, SetterMoves, GetterMoves
  <2>2. TypeOK' /\ Carried' /\ apiModuleAddress'.http
    BY <2>1, TypesKept
  <2>3. ~cut' => UncutSound'
    BY <2>1, SetterStep, GetterStep
  <2> QED BY <2>2, <2>3 DEF ClientInv
<1>2. CASE UNCHANGED vars
  BY <1>2 DEF vars, settings, locals, ClientInv, TypeOK, Carried, UncutSound, Alone,
              SetterSound, GetterSound, Noticed, Repeated
<1> QED BY <1>1, <1>2

-----------------------------------------------------------------------------
LEMMA AlwaysSound == Spec => []ClientInv
  BY InitSound, NextSound, PTL DEF Spec

\* Settings, client and local variables keep their types.
THEOREM TypeCorrect == Spec => []TypeOK
<1>1. ClientInv => TypeOK
  BY DEF ClientInv
<1> QED BY AlwaysSound, <1>1, PTL

\* However many threads set addresses and make calls, and however they
\* interleave: a setting is lost only if it repeats the address in force or is
\* cut, and the first one after that which is neither is not lost.
\* (setApiModuleAddress, getRpcHttpClient)
THEOREM SettingsKept == Spec => []SettingNotLost
<1>1. ClientInv => SettingNotLost
  BY DEF ClientInv, UncutSound, SettingNotLost, Noticed, Setting
<1> QED BY AlwaysSound, <1>1, PTL

\* After a setting that neither repeats nor is cut, every call goes to its
\* address, in every interleaving of the calls.  (getRpcHttpClient)
THEOREM CallsCorrect == Spec => []CallsGoWhereSet
<1>1. ClientInv => CallsGoWhereSet
  BY DEF ClientInv, UncutSound, GetterSound, CallsGoWhereSet
<1> QED BY AlwaysSound, <1>1, PTL
=============================================================================
