---------------------------- MODULE Members_proofs ----------------------------
(***************************************************************************)
(* Proofs about what members use: their accounts, the HTTP API, the search  *)
(* and MCP tokens, for any number of events, requests, keys and articles.   *)
(***************************************************************************)
EXTENDS Accounts, ApiRequests, SearchQueries, OAuthTokens, NumberLemmas

-----------------------------------------------------------------------------
(* Accounts: the row, the requests that hold a copy of it, and the events   *)
(* that reached it.                                                         *)

LEMMA KeysBounded == MaxKeys \in Nat /\ 1 <= MaxKeys
  BY AccountsAssumption

LEMMA EventsDated ==
  ASSUME NEW e \in Events
  PROVE  /\ e.created \in Nat /\ 1 <= e.created /\ e.created # 0
         /\ StatusOf(e) \in Terminal \cup Paid \cup {"none", "incomplete"}
  <1>1. e \in [created : Nat \ {0}, kind : {"updated", "deleted", "checkout"},
               status : Terminal \cup Paid \cup {"incomplete"},
               ending : BOOLEAN, ours : BOOLEAN, named : BOOLEAN]
    BY AccountsAssumption
  <1>. QED  BY <1>1 DEF StatusOf, Terminal, Paid

States == {"stranger", "signed_up", "subscribed", "cancelled", "churned"}
ProfileRow ==
  [active : BOOLEAN, exists : BOOLEAN, key : 0 .. MaxKeys,
   customer : BOOLEAN, subscription : BOOLEAN,
   status : Terminal \cup Paid \cup {"none", "incomplete"}, state : States,
   created : Nat, last : Events \cup {NoEvent}]
IdsRow == [customer : BOOLEAN, subscription : BOOLEAN]
SessionRow ==
  [at : {"idle", "checkout", "prompt", "settings", "signup"}, event : Events \cup {NoEvent},
   copy : ProfileRow \cup IdsRow \cup {NoEvent}]

AccountRows ==
  /\ profile \in ProfileRow /\ keys \in 0 .. MaxKeys /\ profile.key <= keys
  /\ handled \subseteq Events /\ missed \subseteq handled
  /\ handedOut \subseteq 0 .. keys /\ overwritten \in BOOLEAN

\* A request keeps what it read of the row; only a checkout keeps an event.
CopyOK(s) ==
  /\ session[s].at = "checkout" => /\ session[s].event \in Events /\ session[s].event.kind = "checkout"
                                  /\ session[s].copy \in IdsRow
  /\ session[s].at = "settings" =>
       session[s].copy \in ProfileRow /\ session[s].copy.key <= keys
Copies == session \in [Sessions -> SessionRow] /\ \A s \in Sessions : CopyOK(s)

\* The subscription events that found the row.
Arrived == {e \in handled \ missed : e.kind # "checkout"}

\* The row is as old as the newest of them, has the status of one that is as old,
\* and has ended if one of these ended it.
RowFollows ==
  /\ profile.last \in handled \cup {NoEvent}
  /\ Arrived = {} => profile.created = 0 /\ profile.status = "none"
  /\ Arrived # {} => \E e \in Arrived : e.created = profile.created /\ StatusOf(e) = profile.status
  /\ \A f \in Arrived : /\ f.created <= profile.created
                        /\ f.created = profile.created /\ StatusOf(f) \in Terminal =>
                              profile.status \in Terminal

\* A key that was shown is the row's, or a legacy key that the shown one replaced.
KeysFollow == \A k \in handedOut : k = profile.key \/ (k = LegacyKey /\ profile.key \in handedOut)

RowIsCurrent == profile.exists /\ ~overwritten => RowFollows /\ KeysFollow
AccountInv == AccountRows /\ Copies /\ RowIsCurrent

LEMMA AccountInvInit == AccountInit => AccountInv
  <1>. SUFFICES ASSUME AccountInit PROVE AccountInv
    OBVIOUS
  <1>1. AccountRows
    <2>1. /\ keys = profile.key /\ handled = {} /\ missed = {}
          /\ handedOut \subseteq {profile.key} /\ overwritten = FALSE
      BY DEF AccountInit
    <2>2. PICK k \in {0, 1} :
            profile = [active |-> TRUE, exists |-> TRUE, key |-> k,
                       customer |-> FALSE, subscription |-> FALSE, status |-> "none",
                       state |-> "stranger", created |-> 0, last |-> NoEvent]
      <3>1. profile \in [active : {TRUE}, exists : {TRUE}, key : {0, 1},
                         customer : {FALSE}, subscription : {FALSE}, status : {"none"},
                         state : {"stranger"}, created : {0}, last : {NoEvent}]
        BY DEF AccountInit, LegacyKey
      <3>2. profile = [active |-> TRUE, exists |-> TRUE, key |-> profile.key,
                       customer |-> FALSE, subscription |-> FALSE, status |-> "none",
                       state |-> "stranger", created |-> 0, last |-> NoEvent]
        BY <3>1
      <3>. QED  BY <3>1, <3>2
    <2>3. k \in 0 .. MaxKeys /\ k \in 0 .. k /\ k <= k
      BY <2>2, KeysBounded
    <2>4. profile \in ProfileRow /\ profile.key = k
      BY <2>2, <2>3 DEF ProfileRow, States
    <2>. QED  BY <2>1, <2>2, <2>3, <2>4 DEF AccountRows
  <1>2. Copies
    BY DEF AccountInit, Copies, CopyOK, SessionRow, Idle
  <1>3. RowIsCurrent
    BY DEF AccountInit, RowIsCurrent, RowFollows, KeysFollow, Arrived
  <1>. QED  BY <1>1, <1>2, <1>3 DEF AccountInv

\* The invariant says what the property does.
LEMMA AccountInvImplies == AccountInv => AccountTypeOK /\ ProfileIsCurrent
  <1>. SUFFICES ASSUME AccountInv PROVE AccountTypeOK /\ ProfileIsCurrent
    OBVIOUS
  <1>1. AccountTypeOK
    <2>1. profile.key \in 0 .. MaxKeys /\ profile.state \in States
            /\ profile.status \in Terminal \cup Paid \cup {"none", "incomplete"}
      BY DEF AccountInv, AccountRows, ProfileRow
    <2>2. profile.key <= keys /\ keys \in 0 .. MaxKeys /\ handedOut \subseteq 0 .. keys
            /\ handled \subseteq Events /\ missed \subseteq handled
      BY DEF AccountInv, AccountRows
    <2>3. profile.key \in 0 .. keys /\ handedOut \subseteq 0 .. MaxKeys
      BY <2>1, <2>2, KeysBounded
    <2>. QED  BY <2>1, <2>2, <2>3 DEF AccountTypeOK, States
  <1>2. ASSUME profile.exists, ~overwritten PROVE RowFollows /\ KeysFollow
    BY <1>2 DEF AccountInv, RowIsCurrent
  <1>3. ShownKeyWorks
    BY <1>2 DEF ShownKeyWorks, KeysFollow, KeyWorks
  <1>4. LastEventWins
    <2>. DEFINE newest == {e \in Arrived : \A f \in Arrived : f.created <= e.created}
    <2>. SUFFICES ASSUME profile.exists, ~overwritten, Arrived # {}
                  PROVE  /\ profile.status \in {StatusOf(e) : e \in newest}
                         /\ (\E e \in newest : StatusOf(e) \in Terminal) => profile.status \in Terminal
      BY DEF LastEventWins, Arrived
    <2>1. RowFollows
      BY <1>2
    <2>2. \A e \in Arrived : e.created \in Nat
      BY EventsDated DEF AccountInv, AccountRows, Arrived
    <2>3. PICK e \in Arrived : e.created = profile.created /\ StatusOf(e) = profile.status
      BY <2>1 DEF RowFollows
    <2>4. e \in newest
      BY <2>1, <2>3 DEF RowFollows
    <2>5. ASSUME NEW f \in newest PROVE f.created = profile.created
      <3>1. f \in Arrived /\ e.created <= f.created /\ f.created <= profile.created
        BY <2>1, <2>3 DEF RowFollows
      <3>. QED  BY <2>2, <2>3, <3>1
    <2>6. profile.status \in {StatusOf(f) : f \in newest}
      BY <2>3, <2>4
    <2>7. ASSUME NEW f \in newest, StatusOf(f) \in Terminal PROVE profile.status \in Terminal
      BY <2>1, <2>5, <2>7 DEF RowFollows
    <2>. QED  BY <2>6, <2>7
  <1>. QED  BY <1>1, <1>3, <1>4 DEF ProfileIsCurrent

\* What a step does to the requests.
LEMMA CopiesStay ==
  ASSUME AccountInv, UNCHANGED session, keys' \in Nat, keys <= keys'
  PROVE  Copies'
  BY DEF AccountInv, AccountRows, Copies, CopyOK, ProfileRow

LEMMA CopiesChange ==
  ASSUME AccountInv, NEW s \in Sessions, NEW q \in SessionRow, session' = [session EXCEPT ![s] = q],
         keys' \in Nat, keys <= keys',
         q.at = "checkout" => q.event \in Events /\ q.event.kind = "checkout" /\ q.copy \in IdsRow,
         q.at = "settings" => q.copy \in ProfileRow /\ q.copy.key <= keys
  PROVE  Copies'
  <1>1. session' \in [Sessions -> SessionRow]
    BY DEF AccountInv, Copies
  <1>2. ASSUME NEW t \in Sessions PROVE CopyOK(t)'
    <2>1. CASE t = s
      <3>1. session'[t] = q
        BY <2>1 DEF AccountInv, Copies
      <3>. QED  BY <3>1 DEF CopyOK, ProfileRow, AccountInv, AccountRows
    <2>2. CASE t # s
      <3>1. session'[t] = session[t] /\ CopyOK(t)
        BY <2>2 DEF AccountInv, Copies
      <3>. QED  BY <3>1 DEF CopyOK, ProfileRow, AccountInv, AccountRows
    <2>. QED  BY <2>1, <2>2
  <1>. QED  BY <1>1, <1>2 DEF Copies

\* The same, of a step that makes no key.
LEMMA CopiesTaken ==
  ASSUME AccountInv, UNCHANGED keys, NEW s \in Sessions, NEW q \in SessionRow,
         session' = [session EXCEPT ![s] = q],
         q.at = "checkout" => q.event \in Events /\ q.event.kind = "checkout" /\ q.copy \in IdsRow,
         q.at = "settings" => q.copy = profile
  PROVE  Copies'
  <1>1. keys' \in Nat /\ keys <= keys'
    BY DEF AccountInv, AccountRows
  <1>2. profile \in ProfileRow /\ profile.key <= keys
    BY DEF AccountInv, AccountRows
  <1>. QED  BY <1>1, <1>2, CopiesChange

LEMMA IdleRow == Idle \in SessionRow /\ Idle.at = "idle"
  BY DEF Idle, SessionRow

\* A step that leaves alone what the webhooks and the keys wrote, and whose new
\* events are checkouts or found no row.
LEMMA RowStays ==
  ASSUME AccountInv, Copies',
         profile' \in ProfileRow, profile'.exists => profile.exists,
         profile'.key = profile.key,
         profile'.status = profile.status, profile'.created = profile.created,
         profile'.last = profile.last,
         handled \subseteq handled', handled' \subseteq Events, missed' \subseteq handled', Arrived' = Arrived,
         handedOut' \in {handedOut, handedOut \cup {profile.key}},
         UNCHANGED <<keys, overwritten>>
  PROVE  AccountInv'
  <1>1. AccountRows'
    <2>1. /\ profile \in ProfileRow /\ profile.key <= keys /\ keys \in 0 .. MaxKeys
          /\ handedOut \subseteq 0 .. keys /\ overwritten \in BOOLEAN
      BY DEF AccountInv, AccountRows
    <2>2. profile.key \in 0 .. keys
      BY <2>1, KeysBounded DEF ProfileRow
    <2>3. handedOut' \subseteq 0 .. keys'
      BY <2>1, <2>2
    <2>. QED  BY <2>1, <2>3 DEF AccountRows
  <1>2. RowIsCurrent'
    <2>. SUFFICES ASSUME profile'.exists, ~overwritten' PROVE RowFollows' /\ KeysFollow'
      BY DEF RowIsCurrent
    <2>1. RowFollows /\ KeysFollow
      BY DEF AccountInv, RowIsCurrent
    <2>2. RowFollows'
      BY <2>1 DEF RowFollows, StatusOf
    <2>3. KeysFollow'
      BY <2>1 DEF KeysFollow
    <2>. QED  BY <2>2, <2>3
  <1>. QED  BY <1>1, <1>2 DEF AccountInv

\* A key is made: it is the only one shown, or only a legacy key was shown before.
LEMMA KeyIsMade ==
  ASSUME AccountInv, Copies', keys < MaxKeys, profile' = NewKey(profile), keys' = keys + 1,
         handedOut' \subseteq handedOut \cup {keys + 1},
         keys + 1 \in handedOut',
         profile.exists /\ ~overwritten => handedOut' \subseteq {LegacyKey, keys + 1},
         UNCHANGED <<handled, missed, overwritten>>
  PROVE  AccountInv'
  <1>1. profile \in ProfileRow /\ keys \in 0 .. MaxKeys /\ handedOut \subseteq 0 .. keys
    BY DEF AccountInv, AccountRows
  <1>2. keys + 1 \in 0 .. MaxKeys
    BY <1>1, KeysBounded
  <1>3. /\ profile' \in ProfileRow /\ profile'.key = keys + 1
        /\ profile'.status = profile.status /\ profile'.created = profile.created
        /\ profile'.last = profile.last /\ profile'.exists = profile.exists
    BY <1>1, <1>2 DEF NewKey, ProfileRow
  <1>4. AccountRows'
    <2>1. handedOut' \subseteq 0 .. keys'
      BY <1>1, <1>2, KeysBounded
    <2>. QED  BY <1>2, <1>3, <2>1 DEF AccountInv, AccountRows
  <1>5. ASSUME profile'.exists, ~overwritten' PROVE RowFollows' /\ KeysFollow'
    <2>1. RowFollows /\ handedOut' \subseteq {LegacyKey, keys + 1} /\ Arrived' = Arrived
      BY <1>3, <1>5 DEF AccountInv, RowIsCurrent, Arrived
    <2>2. KeysFollow'
      BY <1>3, <2>1 DEF KeysFollow
    <2>3. RowFollows'
      BY <1>3, <2>1 DEF RowFollows, StatusOf
    <2>. QED  BY <2>2, <2>3
  <1>. QED  BY <1>4, <1>5 DEF AccountInv, RowIsCurrent

\* A subscription event is delivered for the first time.
LEMMA EventIsDelivered ==
  ASSUME AccountInv, NEW e \in Events, SubscriptionEvent(e)
  PROVE  AccountInv'
  <1>1. /\ e.kind # "checkout" /\ e \notin handled
        /\ handled' = handled \cup {e}
        /\ UNCHANGED <<keys, session, handedOut, overwritten>>
    BY DEF SubscriptionEvent, FirstDelivery
  <1>2. Copies'
    BY <1>1, CopiesStay DEF AccountInv, AccountRows
  <1>3. handled' \subseteq Events /\ missed' \subseteq handled'
    BY <1>1 DEF SubscriptionEvent, AccountInv, AccountRows
  <1>4. CASE ~(Concerns(e) /\ Found(e))
    <2>1. missed' = missed \cup {e} /\ profile' = profile
      BY <1>4 DEF SubscriptionEvent
    <2>2. Arrived' = Arrived
      BY <1>1, <2>1 DEF Arrived
    <2>. QED  BY <1>1, <1>2, <1>3, <2>1, <2>2, RowStays DEF AccountInv, AccountRows
  <1>5. CASE Concerns(e) /\ Found(e)
    <2>. DEFINE new == e # profile.last /\ ~Stale(e)
    <2>1. missed' = missed /\ profile' = IF new THEN Applied(e) ELSE profile
      BY <1>5 DEF SubscriptionEvent
    <2>2. Arrived' = Arrived \cup {e}
      BY <1>1, <2>1 DEF Arrived, AccountInv, AccountRows
    <2>3. profile \in ProfileRow
      BY DEF AccountInv, AccountRows
    <2>4. TargetState(e) \in States
      BY <2>3 DEF TargetState, States, ProfileRow
    <2>5. /\ Applied(e) \in ProfileRow /\ Applied(e).key = profile.key
          /\ Applied(e).exists = profile.exists
          /\ Applied(e).status = StatusOf(e) /\ Applied(e).created = e.created /\ Applied(e).last = e
      BY <2>3, <2>4, EventsDated DEF Applied, ProfileRow
    <2>6. AccountRows'
      BY <1>1, <1>3, <2>1, <2>3, <2>5 DEF AccountInv, AccountRows
    <2>7. ASSUME profile'.exists, ~overwritten' PROVE RowFollows' /\ KeysFollow'
      <3>1. RowFollows /\ KeysFollow /\ profile.last # e
        BY <1>1, <2>1, <2>5, <2>7, EventsDated DEF AccountInv, RowIsCurrent, RowFollows, NoEvent
      <3>2. KeysFollow'
        BY <1>1, <2>1, <2>5, <3>1 DEF KeysFollow
      <3>3. \A f \in Arrived \cup {e} : f.created \in Nat /\ StatusOf(f)' = StatusOf(f)
        BY EventsDated DEF AccountInv, AccountRows, Arrived, StatusOf
      <3>4. CASE ~new
        <4>1. Stale(e) /\ profile' = profile
          BY <2>1, <3>1, <3>4
        <4>2. profile.created # 0
          BY <4>1, <2>3, <3>1, EventsDated DEF Stale, ProfileRow
        <4>3. Arrived # {}
          BY <3>1, <4>2 DEF RowFollows
        <4>4. e.created <= profile.created
                /\ (e.created = profile.created /\ StatusOf(e) \in Terminal => profile.status \in Terminal)
          BY <4>1, <2>3, EventsDated DEF Stale, ProfileRow
        <4>. QED  BY <1>1, <2>2, <3>1, <3>2, <3>3, <4>1, <4>3, <4>4 DEF RowFollows
      <3>5. CASE new
        <4>1. /\ profile.created <= e.created
              /\ e.created = profile.created /\ profile.status \in Terminal => StatusOf(e) \in Terminal
          BY <3>5, <2>3, EventsDated DEF Stale, ProfileRow
        <4>2. /\ profile'.status = StatusOf(e) /\ profile'.created = e.created /\ profile'.last = e
          BY <2>1, <2>5, <3>5
        <4>3. \A f \in Arrived : /\ f.created <= e.created
                                 /\ f.created = e.created /\ StatusOf(f) \in Terminal => StatusOf(e) \in Terminal
          <5>1. \A f \in Arrived : f.created <= profile.created
                  /\ (f.created = profile.created /\ StatusOf(f) \in Terminal => profile.status \in Terminal)
            BY <3>1 DEF RowFollows
          <5>. QED  BY <2>3, <3>3, <4>1, <5>1 DEF ProfileRow
        <4>4. e \in Arrived' /\ e \in handled'
          BY <1>1, <2>2
        <4>. QED  BY <2>2, <3>2, <3>3, <4>2, <4>3, <4>4 DEF RowFollows
      <3>. QED  BY <3>4, <3>5
    <2>. QED  BY <1>2, <2>6, <2>7 DEF AccountInv, RowIsCurrent
  <1>. QED  BY <1>4, <1>5

\* The settings form: if the row changed meanwhile, nothing is claimed of it.
LEMMA SettingsAreSaved ==
  ASSUME AccountInv, NEW s \in Sessions, SaveSettings(s)
  PROVE  AccountInv'
  <1>. DEFINE row == [session[s].copy EXCEPT !.active = profile.active]
  <1>1. /\ session[s].at = "settings" /\ session' = [session EXCEPT ![s] = Idle]
        /\ profile' = (IF profile.exists THEN row ELSE profile)
        /\ overwritten' = (overwritten \/ (profile.exists /\ row # profile))
        /\ UNCHANGED <<keys, handled, missed, handedOut>>
    BY DEF SaveSettings
  <1>2. /\ profile \in ProfileRow /\ keys \in 0 .. MaxKeys /\ overwritten \in BOOLEAN
        /\ session[s].copy \in ProfileRow /\ session[s].copy.key <= keys
    BY <1>1 DEF AccountInv, AccountRows, Copies, CopyOK
  <1>3. row \in ProfileRow /\ row.key <= keys
    BY <1>2 DEF ProfileRow
  <1>4. Copies'
    BY <1>1, CopiesTaken, IdleRow
  <1>5. AccountRows'
    BY <1>1, <1>2, <1>3 DEF AccountInv, AccountRows
  <1>6. ASSUME profile'.exists, ~overwritten' PROVE RowFollows' /\ KeysFollow'
    <2>1. profile' = profile /\ ~overwritten
      BY <1>1, <1>6
    <2>2. RowFollows /\ KeysFollow
      BY <1>6, <2>1 DEF AccountInv, RowIsCurrent
    <2>3. KeysFollow'
      BY <1>1, <2>1, <2>2 DEF KeysFollow
    <2>4. RowFollows'
      BY <1>1, <2>1, <2>2 DEF RowFollows, StatusOf, Arrived
    <2>. QED  BY <2>3, <2>4
  <1>. QED  BY <1>4, <1>5, <1>6 DEF AccountInv, RowIsCurrent

\* Steps that write the row without touching keys and status, or not at all.
LEMMA RowKept ==
  ASSUME AccountInv, Copies', UNCHANGED <<keys, handled, missed, handedOut, overwritten>>,
         \/ UNCHANGED profile
         \/ profile' = [profile EXCEPT !.state = "signed_up"]
         \/ profile' = [profile EXCEPT !.exists = FALSE]
         \/ profile' = [profile EXCEPT !.active = FALSE]
  PROVE  AccountInv'
  <1>1. profile \in ProfileRow /\ handled \subseteq Events /\ missed \subseteq handled
    BY DEF AccountInv, AccountRows
  <1>2. /\ profile' \in ProfileRow /\ (profile'.exists => profile.exists)
        /\ profile'.key = profile.key
        /\ profile'.status = profile.status /\ profile'.created = profile.created
        /\ profile'.last = profile.last
    BY <1>1 DEF ProfileRow, States
  <1>3. Arrived' = Arrived
    BY DEF Arrived
  <1>. QED  BY <1>1, <1>2, <1>3, RowStays

LEMMA CheckoutIsRead ==
  ASSUME AccountInv, NEW s \in Sessions, NEW e \in Events, CheckoutRead(s, e)
  PROVE  AccountInv'
  <1>1. /\ e.kind = "checkout" /\ e \notin handled
        /\ UNCHANGED <<profile, keys, handedOut, overwritten>>
    BY DEF CheckoutRead, FirstDelivery
  <1>2. /\ profile \in ProfileRow /\ keys \in 0 .. MaxKeys /\ profile.key <= keys
        /\ handled \subseteq Events /\ missed \subseteq handled
    BY DEF AccountInv, AccountRows
  <1>3. CASE Concerns(e) /\ Found(e)
    <2>. DEFINE q == [at |-> "checkout", event |-> e, copy |-> Ids(profile)]
    <2>1. session' = [session EXCEPT ![s] = q] /\ UNCHANGED <<handled, missed>>
      BY <1>3 DEF CheckoutRead
    <2>2. q \in SessionRow /\ q.at = "checkout" /\ q.event = e /\ q.copy \in IdsRow
      <3>1. Ids(profile) \in IdsRow
        BY <1>2 DEF Ids, IdsRow, ProfileRow
      <3>. QED  BY <3>1 DEF SessionRow
    <2>. HIDE DEF q
    <2>3. Copies'
      BY <1>1, <2>1, <2>2, CopiesTaken
    <2>. QED  BY <1>1, <2>1, <2>3, RowKept
  <1>4. CASE ~(Concerns(e) /\ Found(e))
    <2>1. handled' = handled \cup {e} /\ missed' = missed \cup {e} /\ UNCHANGED session
      BY <1>4 DEF CheckoutRead
    <2>2. Copies'
      BY <1>1, <1>2, <2>1, CopiesStay
    <2>3. Arrived' = Arrived
      BY <1>1, <2>1 DEF Arrived
    <2>. QED  BY <1>1, <1>2, <2>1, <2>2, <2>3, RowStays
  <1>. QED  BY <1>3, <1>4

LEMMA CheckoutIsWritten ==
  ASSUME AccountInv, NEW s \in Sessions, CheckoutWrite(s)
  PROVE  AccountInv'
  <1>. DEFINE e == session[s].event
              old == session[s].copy
              row == [profile EXCEPT !.customer = (@ \/ ~old.customer),
                                     !.subscription = (@ \/ ~old.subscription)]
  <1>1. /\ session[s].at = "checkout" /\ session' = [session EXCEPT ![s] = Idle]
        /\ UNCHANGED <<keys, missed, handedOut, overwritten>>
    BY DEF CheckoutWrite
  <1>2. /\ profile \in ProfileRow /\ keys \in 0 .. MaxKeys
        /\ handled \subseteq Events /\ missed \subseteq handled
        /\ e \in Events /\ e.kind = "checkout" /\ old \in IdsRow
    BY <1>1 DEF AccountInv, AccountRows, Copies, CopyOK
  <1>3. Copies'
    BY <1>1, CopiesTaken, IdleRow
  <1>4. CASE profile.exists
    <2>1. profile' = row /\ handled' = handled \cup {e}
      BY <1>4 DEF CheckoutWrite
    <2>2. /\ row \in ProfileRow /\ row.exists = profile.exists
          /\ row.key = profile.key
          /\ row.status = profile.status /\ row.created = profile.created /\ row.last = profile.last
      BY <1>2 DEF ProfileRow, IdsRow
    <2>3. Arrived' = Arrived
      BY <1>1, <1>2, <2>1 DEF Arrived
    <2>. QED  BY <1>1, <1>2, <1>3, <2>1, <2>2, <2>3, RowStays
  <1>5. CASE ~profile.exists
    <2>1. UNCHANGED <<profile, handled>>
      BY <1>5 DEF CheckoutWrite
    <2>. QED  BY <1>1, <1>3, <2>1, RowKept
  <1>. QED  BY <1>4, <1>5

\* The two steps of the copied prompt.
LEMMA PromptIsCopied ==
  ASSUME AccountInv, NEW s \in Sessions, CopyPrompt(s) \/ CopyLocked(s)
  PROVE  AccountInv'
  <1>1. /\ profile \in ProfileRow /\ keys \in 0 .. MaxKeys
        /\ handled \subseteq Events /\ missed \subseteq handled
    BY DEF AccountInv, AccountRows
  <1>2. UNCHANGED <<handled, missed, overwritten>> /\ Arrived' = Arrived
    BY DEF CopyPrompt, CopyLocked, Arrived
  <1>3. [Idle EXCEPT !.at = "prompt"] \in SessionRow /\ [Idle EXCEPT !.at = "prompt"].at = "prompt"
    BY DEF Idle, SessionRow
  <1>4. CASE UNCHANGED <<profile, keys>>
    <2>1. session' = session \/ session' = [session EXCEPT ![s] = Idle]
            \/ session' = [session EXCEPT ![s] = [Idle EXCEPT !.at = "prompt"]]
      BY DEF CopyPrompt, CopyLocked
    <2>2. Copies'
      <3>1. keys' \in Nat /\ keys <= keys'
        BY <1>1, <1>4
      <3>2. CASE session' = session
        BY <3>1, <3>2, CopiesStay
      <3>3. CASE session' = [session EXCEPT ![s] = Idle]
        BY <1>4, <3>3, CopiesTaken, IdleRow
      <3>4. CASE session' = [session EXCEPT ![s] = [Idle EXCEPT !.at = "prompt"]]
        BY <1>3, <1>4, <3>4, CopiesTaken
      <3>. QED  BY <2>1, <3>2, <3>3, <3>4
    <2>3. handedOut' \in {handedOut, handedOut \cup {profile.key}}
      BY <1>1, <1>4 DEF CopyPrompt, CopyLocked, Opens, NewKey
    <2>. QED  BY <1>1, <1>2, <1>4, <2>2, <2>3, RowStays
  <1>5. CASE ~UNCHANGED <<profile, keys>>
    <2>1. /\ profile.key = LegacyKey /\ keys < MaxKeys /\ profile' = NewKey(profile) /\ keys' = keys + 1
          /\ handedOut' = handedOut \cup {keys + 1} /\ session' = [session EXCEPT ![s] = Idle]
      BY <1>5 DEF CopyPrompt, CopyLocked, Opens
    <2>2. keys' \in Nat /\ keys <= keys'
      BY <1>1, <2>1
    <2>3. Copies'
      BY <2>1, <2>2, CopiesChange, IdleRow
    <2>4. profile.exists /\ ~overwritten => handedOut \subseteq {LegacyKey}
      BY <2>1 DEF AccountInv, RowIsCurrent, KeysFollow
    <2>. QED  BY <1>2, <2>1, <2>3, <2>4, KeyIsMade
  <1>. QED  BY <1>4, <1>5

LEMMA AccountInvNext == AccountInv /\ [AccountNext]_accountVars => AccountInv'
  <1>. SUFFICES ASSUME AccountInv, [AccountNext]_accountVars PROVE AccountInv'
    OBVIOUS
  <1>1. profile \in ProfileRow /\ keys \in 0 .. MaxKeys /\ profile.key <= keys
    BY DEF AccountInv, AccountRows
  <1>2. CASE RotateApiKey
    <2>1. /\ keys < MaxKeys /\ profile' = NewKey(profile) /\ keys' = keys + 1
          /\ handedOut' = {keys + 1} /\ UNCHANGED <<handled, missed, session, overwritten>>
      BY <1>2 DEF RotateApiKey
    <2>2. Copies'
      BY <1>1, <2>1, CopiesStay
    <2>. QED  BY <2>1, <2>2, KeyIsMade
  <1>3. CASE TrackSignup \/ DeleteAccount \/ DisableAccount \/ UNCHANGED accountVars
    <2>1. Copies'
      BY <1>1, <1>3, CopiesStay DEF TrackSignup, DeleteAccount, DisableAccount, accountVars
    <2>. QED  BY <1>3, <2>1, RowKept DEF TrackSignup, DeleteAccount, DisableAccount, accountVars
  <1>4. ASSUME NEW s \in Sessions, OpenSettings(s) \/ OpenSignup(s) \/ CompleteSignup(s) PROVE AccountInv'
    <2>1. PICK q : /\ session' = [session EXCEPT ![s] = q]
                   /\ q \in {Idle, [Idle EXCEPT !.at = "signup"],
                             [Idle EXCEPT !.at = "settings", !.copy = profile]}
      BY <1>4 DEF OpenSettings, OpenSignup, CompleteSignup
    <2>2. /\ q \in SessionRow /\ q.at # "checkout"
          /\ q.at = "settings" => q.copy = profile
      <3>1. CASE q \in {Idle, [Idle EXCEPT !.at = "signup"]}
        BY <3>1 DEF Idle, SessionRow
      <3>2. CASE q = [Idle EXCEPT !.at = "settings", !.copy = profile]
        BY <1>1, <3>2 DEF Idle, SessionRow
      <3>. QED  BY <2>1, <3>1, <3>2
    <2>3. UNCHANGED <<profile, keys, handled, missed, handedOut, overwritten>>
      BY <1>4 DEF OpenSettings, OpenSignup, CompleteSignup
    <2>4. Copies'
      BY <2>1, <2>2, <2>3, CopiesTaken
    <2>. QED  BY <2>3, <2>4, RowKept
  <1>. QED
    BY <1>2, <1>3, <1>4, EventIsDelivered, CheckoutIsRead, CheckoutIsWritten, PromptIsCopied, SettingsAreSaved
    DEF AccountNext

\* A member's row can be relied on whatever the order in which Stripe's events
\* come and however often each does: the status is that of a newest event, an
\* ending among these is kept, and a key that was shown works until the member
\* rotates it, a legacy key until a prompt with a new one was copied.  The
\* exception is the row a settings form wrote back.
THEOREM ProfileIsCurrentHolds == AccountSpec => []ProfileIsCurrent
  BY AccountInvInit, AccountInvNext, AccountInvImplies, PTL DEF AccountSpec

-----------------------------------------------------------------------------
(* The HTTP API: what a call holds, and what its answer may say.            *)

\* A cause and the exit code it becomes agree.
CauseFits(why, exit) ==
  /\ exit = "ok" => why \in Shown \cup {"served"}
  /\ exit = "usage" => why \in InputCauses
  /\ exit # "none" => (exit = "auth" <=> why \in RefusedCauses)
  /\ exit \in {"network", "interrupted"} => why = "no_response"
AnswerFits(a) == CauseFits(a.why, ExitOf(a.status)) /\ (a.retryable => a.why \in PassingCauses)

Causes == {"none", "credential", "schema", "limiter", "limit", "served", "not_found"}
            \cup SubmitEnds \cup {end.code : end \in SearchEnds}
AnswerRow == [status : Nat, retryable : BOOLEAN, why : Causes]
CallRow ==
  [at : {"idle", "sent", "add", "incr", "readd", "reincr", "route", "answered", "over"},
   by : {"cli", "http", "gone"}, now : Nat, answer : AnswerRow]

\* A call may be past the limiter; until then it has not been counted.
Past(q) == q.at \in {"route", "answered", "over"}
PastCalls == {c \in Calls : Past(call[c])}

CallOK(q) ==
  /\ q \in CallRow /\ q.now <= second
  /\ q.at = "answered" <=> q.answer # NoAnswer
  /\ q.at = "answered" => AnswerFits(q.answer)
CallsOK == call \in [Calls -> CallRow] /\ \A c \in Calls : CallOK(call[c])

\* The first second after a window.
WindowEnd(w) == (w + 1) * RateWindow

\* A key lives until its window is over: its count then bounds what was granted.
Metered(w) ==
  /\ counter[w].count \in 0 .. Cardinality(PastCalls)
  /\ counter[w].expires \in Nat
  /\ counter[w].count > 0 => WindowEnd(w) <= counter[w].expires
  /\ granted[w] \subseteq Calls /\ Cardinality(granted[w]) <= RateLimit
  /\ WindowOf(second) <= w => Cardinality(granted[w]) <= counter[w].count
LimiterOK ==
  /\ second \in 0 .. MaxSeconds
  /\ counter \in [Windows -> [count : Nat, expires : Nat]] /\ granted \in [Windows -> SUBSET Calls]
  /\ \A w \in Windows : Metered(w)

ApiInv == CallsOK /\ LimiterOK /\ ExitTellsCause

LEMMA LimitsPositive ==
  /\ RateLimit \in Nat /\ 1 <= RateLimit /\ RateWindow \in Nat /\ 1 <= RateWindow
  /\ MaxSeconds \in Nat /\ IsFiniteSet(Calls)
  BY RequestAssumption

\* The window of a second, and its bounds.
LEMMA WindowBounds ==
  ASSUME NEW t \in Nat
  PROVE  /\ WindowOf(t) \in Nat /\ WindowOf(t) * RateWindow <= t
         /\ t < WindowEnd(WindowOf(t))
  BY LimitsPositive DEF WindowOf, WindowEnd

LEMMA WindowsOrdered ==
  ASSUME NEW s \in Nat, NEW t \in Nat, s <= t
  PROVE  WindowOf(s) <= WindowOf(t)
  <1>. DEFINE a == WindowOf(s)  b == WindowOf(t)
  <1>1. a \in Nat /\ b \in Nat /\ a * RateWindow <= s /\ t < (b + 1) * RateWindow
    BY WindowBounds DEF WindowEnd
  <1>. HIDE DEF a, b
  <1>2. ASSUME b < a PROVE FALSE
    <2>1. (b + 1) * RateWindow <= a * RateWindow
      BY <1>1, <1>2, LimitsPositive
    <2>. QED  BY <1>1, <2>1, LimitsPositive
  <1>3. a <= b
    BY <1>1, <1>2
  <1>. QED  BY <1>3 DEF a, b

LEMMA PastIsFinite == IsFiniteSet(PastCalls) /\ Cardinality(PastCalls) \in Nat
  BY LimitsPositive, FS_Subset, FS_CardinalityType DEF PastCalls

LEMMA ApiInvInit == ApiInit => ApiInv
  <1>. SUFFICES ASSUME ApiInit PROVE ApiInv
    OBVIOUS
  <1>1. CallsOK
    <2>1. NoAnswer \in AnswerRow
      BY DEF NoAnswer, AnswerRow, Causes
    <2>2. NoCall \in CallRow /\ NoCall.at = "idle" /\ NoCall.now = 0 /\ NoCall.answer = NoAnswer
      BY <2>1 DEF NoCall, CallRow
    <2>3. \A c \in Calls : call[c] = NoCall
      BY DEF ApiInit
    <2>. QED  BY <2>2, <2>3 DEF ApiInit, CallsOK, CallOK
  <1>2. LimiterOK
    <2>1. NoKey \in [count : Nat, expires : Nat] /\ NoKey.count = 0 /\ NoKey.expires = 0
      BY DEF NoKey
    <2>2. \A w \in Windows : counter[w] = NoKey /\ granted[w] = {}
      BY DEF ApiInit
    <2>3. Cardinality({}) = 0
      BY FS_EmptySet
    <2>4. ASSUME NEW w \in Windows PROVE Metered(w)
      <3>1. counter[w].count = 0 /\ counter[w].expires = 0 /\ granted[w] = {}
        BY <2>1, <2>2
      <3>. QED  BY <2>3, <3>1, PastIsFinite, LimitsPositive DEF Metered
    <2>. QED  BY <2>1, <2>4, LimitsPositive DEF ApiInit, LimiterOK
  <1>3. ExitTellsCause
    BY DEF ApiInit, ExitTellsCause, NoReport
  <1>. QED  BY <1>1, <1>2, <1>3 DEF ApiInv

LEMMA ApiInvImplies == ApiInv => ApiTypeOK /\ WindowBudget /\ ExitTellsCause
  <1>. SUFFICES ASSUME ApiInv PROVE ApiTypeOK /\ WindowBudget
    BY DEF ApiInv
  <1>1. Cardinality(PastCalls) <= Cardinality(Calls) /\ Cardinality(Calls) \in Nat
    BY LimitsPositive, FS_Subset, FS_CardinalityType DEF PastCalls
  <1>2. \A w \in Windows : counter[w].count \in 0 .. Cardinality(Calls)
    BY <1>1, PastIsFinite DEF ApiInv, LimiterOK, Metered
  <1>3. \A c \in Calls : /\ call[c].now \in 0 .. second
                         /\ call[c].at = "answered" <=> call[c].answer # NoAnswer
    BY DEF ApiInv, CallsOK, CallOK, CallRow, LimiterOK
  <1>4. WindowBudget
    BY DEF ApiInv, LimiterOK, Metered, WindowBudget
  <1>. QED  BY <1>2, <1>3, <1>4 DEF ApiTypeOK

\* Nothing but the limiter changes the counts: a call does one thing, and is not
\* counted again once it is past the limiter.
LEMMA CallGoesOn ==
  ASSUME ApiInv, NEW c \in Calls, NEW q, CallOK(q), Past(call[c]) => Past(q),
         call' = [call EXCEPT ![c] = q], UNCHANGED <<second, counter, granted>>, ExitTellsCause'
  PROVE  ApiInv'
  <1>1. call \in [Calls -> CallRow] /\ \A d \in Calls : CallOK(call[d])
    BY DEF ApiInv, CallsOK
  <1>2. \A d \in Calls : call'[d] = IF d = c THEN q ELSE call[d]
    BY <1>1
  <1>3. CallsOK'
    BY <1>1, <1>2 DEF CallsOK, CallOK
  <1>4. PastCalls \subseteq PastCalls'
    BY <1>2 DEF PastCalls, Past
  <1>5. Cardinality(PastCalls) <= Cardinality(PastCalls') /\ Cardinality(PastCalls') \in Nat
          /\ Cardinality(PastCalls) \in Nat
    <2>1. PastCalls' \subseteq Calls
      BY DEF PastCalls
    <2>2. IsFiniteSet(PastCalls')
      BY <2>1, LimitsPositive, FS_Subset
    <2>. QED  BY <1>4, <2>2, PastIsFinite, FS_Subset, FS_CardinalityType
  <1>6. ASSUME NEW w \in Windows PROVE Metered(w)'
    <2>1. Metered(w) /\ WindowOf(second)' = WindowOf(second) /\ WindowEnd(w)' = WindowEnd(w)
      BY DEF ApiInv, LimiterOK, WindowOf, WindowEnd
    <2>2. counter'[w].count \in 0 .. Cardinality(PastCalls')
      BY <1>5, <2>1 DEF Metered
    <2>. QED  BY <2>1, <2>2 DEF Metered
  <1>7. LimiterOK'
    BY <1>6 DEF ApiInv, LimiterOK, Windows, WindowOf
  <1>. QED  BY <1>3, <1>7 DEF ApiInv

\* How an answer ends a call, or leaves it with its caller.
LEMMA AnswerGoesOut ==
  ASSUME ApiInv, NEW c \in Calls, call[c].at \notin {"idle", "answered", "over"},
         NEW status \in Nat \ {0}, NEW retryable \in BOOLEAN, NEW why \in Causes,
         AnswerFits([status |-> status, retryable |-> retryable, why |-> why])
           \/ (call[c].by = "http" /\ (retryable => why \in PassingCauses)),
         Answered(c, status, retryable, why)
  PROVE  /\ ExitTellsCause'
         /\ \E q : CallOK(q) /\ Past(q) /\ call' = [call EXCEPT ![c] = q]
  <1>. DEFINE a == [status |-> status, retryable |-> retryable, why |-> why]
              over == [NoCall EXCEPT !.at = "over"]
              answered == [NoCall EXCEPT !.at = "answered", !.answer = a]
  <1>1. a \in AnswerRow /\ a # NoAnswer /\ NoAnswer \in AnswerRow
          /\ a.retryable = retryable /\ a.why = why /\ a.status = status
    BY DEF AnswerRow, NoAnswer, Causes
  <1>2. second \in Nat
    BY LimitsPositive DEF ApiInv, LimiterOK
  <1>. HIDE DEF a
  <1>3. CallOK(over) /\ Past(over)
    BY <1>1, <1>2 DEF CallOK, CallRow, NoCall, Past
  <1>4. AnswerFits(a) => CallOK(answered) /\ Past(answered)
    <2>1. answered \in CallRow /\ answered.at = "answered" /\ answered.answer = a /\ answered.now = 0
      BY <1>1 DEF CallRow, NoCall
    <2>. HIDE DEF answered
    <2>. QED  BY <1>1, <1>2, <2>1 DEF CallOK, Past
  <1>5. CASE call[c].by = "cli" /\ report' = NoReport /\ call' = [call EXCEPT ![c] = answered]
    <2>1. ExitTellsCause'
      BY <1>5 DEF ExitTellsCause, NoReport
    <2>2. AnswerFits(a)
      BY <1>5 DEF a
    <2>. QED  BY <1>4, <1>5, <2>1, <2>2
  <1>6. CASE call[c].by # "cli"
    <2>1. call' = [call EXCEPT ![c] = over]
      BY <1>6 DEF Answered, Over
    <2>2. report' \in {[why |-> why, exit |-> "none", retry |-> retryable],
                       [why |-> "none", exit |-> "none", retry |-> FALSE]}
      BY <1>6 DEF Answered, Over
    <2>3. retryable => why \in PassingCauses
      BY <1>1 DEF AnswerFits, a
    <2>4. ExitTellsCause'
      BY <2>2, <2>3 DEF ExitTellsCause
    <2>. QED  BY <1>3, <2>1, <2>4
  <1>. QED  BY <1>5, <1>6 DEF Answered, a

LEMMA CallAnswered ==
  ASSUME ApiInv, NEW c \in Calls, call[c].at \notin {"idle", "answered", "over"},
         NEW status \in Nat \ {0}, NEW retryable \in BOOLEAN, NEW why \in Causes,
         AnswerFits([status |-> status, retryable |-> retryable, why |-> why])
           \/ (call[c].by = "http" /\ (retryable => why \in PassingCauses)),
         Answered(c, status, retryable, why), UNCHANGED <<second, counter, granted>>
  PROVE  ApiInv'
  BY AnswerGoesOut, CallGoesOn

-----------------------------------------------------------------------------
(* The answers the server gives.                                            *)

LEMMA ServerAnswersFit ==
  /\ AnswerFits([status |-> 401, retryable |-> FALSE, why |-> "credential"])
  /\ AnswerFits([status |-> 422, retryable |-> FALSE, why |-> "schema"])
  /\ AnswerFits([status |-> 503, retryable |-> TRUE, why |-> "limiter"])
  /\ AnswerFits([status |-> 429, retryable |-> TRUE, why |-> "limit"])
  /\ AnswerFits([status |-> 200, retryable |-> FALSE, why |-> "served"])
  BY DEF AnswerFits, CauseFits, ExitOf, ExitOfKind, KindOf, InputCauses, RefusedCauses, PassingCauses, Shown

LEMMA SearchAnswersFit ==
  ASSUME NEW end \in SearchEnds
  PROVE  /\ AnswerFits([status |-> SearchStatus(end.code), retryable |-> end.retryable, why |-> end.code])
         /\ SearchStatus(end.code) \in Nat \ {0} /\ end.retryable \in BOOLEAN /\ end.code \in Causes
  <1>1. end.code \in {"served", "account", "input", "search_index_invalid", "query_embedding_invalid",
                      "internal_error", "search_index_unavailable", "query_embedding_unavailable"}
          /\ end.retryable \in BOOLEAN
          /\ (end.retryable => end.code \in {"search_index_unavailable", "query_embedding_unavailable"})
    BY DEF SearchEnds
  <1>2. SearchStatus(end.code) =
          IF end.code = "served" THEN 200 ELSE IF end.code = "account" THEN 403
          ELSE IF end.code = "input" THEN 422 ELSE IF end.code = "internal_error" THEN 500 ELSE 503
    BY <1>1 DEF SearchStatus
  <1>3. CauseFits(end.code, ExitOf(SearchStatus(end.code)))
    BY <1>1, <1>2 DEF CauseFits, ExitOf, ExitOfKind, KindOf, InputCauses, RefusedCauses, Shown
  <1>. QED  BY <1>1, <1>2, <1>3 DEF AnswerFits, PassingCauses, Causes

LEMMA SubmitAnswers ==
  ASSUME NEW end \in SubmitEnds
  PROVE  /\ SubmitStatus(end) \in Nat \ {0}
         /\ (IF end = "created" THEN "served" ELSE end) \in Causes
         /\ (end = "temporary") => (IF end = "created" THEN "served" ELSE end) \in PassingCauses
  BY DEF SubmitEnds, SubmitStatus, Causes, PassingCauses

\* What the client finds wrong by itself.
LEMMA LocalExitsFit ==
  ASSUME NEW k \in DOMAIN Commands, NEW why \in Commands[k] \cup Shown
  PROVE  CauseFits(why, LocalExit(why))
  <1>1. why \notin Shown => why \in CommandLines
    BY DEF CommandLines
  <1>2. why \notin {"credential", "account"}
    BY DEF Commands, ClientProblems, BaseProblems, Shown
  <1>3. LocalExit(why) = IF why \in Shown THEN "ok" ELSE IF why = "no_api_key" THEN "auth" ELSE "usage"
    BY DEF LocalExit, Shown
  <1>4. "no_api_key" \notin Shown
    BY DEF Shown
  <1>. QED  BY <1>1, <1>2, <1>3, <1>4 DEF CauseFits, InputCauses, RefusedCauses

-----------------------------------------------------------------------------
(* The limiter counts a call.                                               *)

\* What the count means for the call, which is past the limiter from then on.
LEMMA CountedCall ==
  ASSUME ApiInv, NEW c \in Calls, call[c].at \in {"add", "incr", "readd", "reincr"}, NEW n \in Nat,
         Count(c, n)
  PROVE  /\ ExitTellsCause'
         /\ \E q : CallOK(q) /\ Past(q) /\ call' = [call EXCEPT ![c] = q]
  <1>1. call[c] \in CallRow /\ CallOK(call[c]) /\ second \in Nat
    BY LimitsPositive DEF ApiInv, CallsOK, LimiterOK
  <1>2. CASE n <= RateLimit
    <2>. DEFINE q == [call[c] EXCEPT !.at = "route", !.now = 0]
    <2>1. call' = [call EXCEPT ![c].at = "route", ![c].now = 0] /\ report' = NoReport
      BY <1>2 DEF Count
    <2>2. call' = [call EXCEPT ![c] = q]
      BY <1>1, <2>1 DEF CallRow, ApiInv, CallsOK
    <2>3. /\ q \in CallRow /\ q.at = "route" /\ q.now = 0 /\ q.answer = call[c].answer
      BY <1>1 DEF CallRow
    <2>4. CallOK(q) /\ Past(q)
      BY <1>1, <2>3 DEF CallOK, Past
    <2>5. ExitTellsCause'
      BY <2>1 DEF ExitTellsCause, NoReport
    <2>. QED  BY <2>2, <2>4, <2>5
  <1>3. CASE ~(n <= RateLimit)
    <2>1. Answered(c, 429, TRUE, "limit")
      BY <1>3 DEF Count
    <2>2. "limit" \in Causes /\ 429 \in Nat \ {0} /\ TRUE \in BOOLEAN
            /\ call[c].at \notin {"idle", "answered", "over"}
      BY DEF Causes
    <2>3. AnswerFits([status |-> 429, retryable |-> TRUE, why |-> "limit"])
      BY ServerAnswersFit
    <2>. QED  BY <2>1, <2>2, <2>3, AnswerGoesOut
  <1>. QED  BY <1>2, <1>3

\* A set of one member more.
LEMMA OneMore ==
  ASSUME NEW S, IsFiniteSet(S), NEW x
  PROVE  Cardinality(S \cup {x}) \in Nat /\ Cardinality(S \cup {x}) <= Cardinality(S) + 1
  <1>1. Cardinality(S) \in Nat /\ IsFiniteSet(S \cup {x})
    BY FS_CardinalityType, FS_AddElement
  <1>2. Cardinality(S \cup {x}) = Cardinality(S) \/ Cardinality(S \cup {x}) = Cardinality(S) + 1
    BY FS_AddElement
  <1>. QED  BY <1>1, <1>2

\* A count that went up by one grants one call more at most, and in its window.
LEMMA CountGrants ==
  ASSUME ApiInv, NEW c \in Calls, call[c].at \in {"add", "incr", "readd", "reincr"}, NEW n \in Nat \ {0},
         NEW e \in Nat, NEW w \in Windows, w = WindowOf(call[c].now), WindowEnd(w) <= e,
         n <= counter[w].count + 1, WindowOf(second) <= w => n = counter[w].count + 1,
         counter' = [counter EXCEPT ![w] = [count |-> n, expires |-> e]],
         Count(c, n), UNCHANGED second
  PROVE  ApiInv'
  <1>1. PICK q : CallOK(q) /\ Past(q) /\ call' = [call EXCEPT ![c] = q]
    BY CountedCall
  <1>2. /\ call \in [Calls -> CallRow] /\ \A d \in Calls : CallOK(call[d])
        /\ counter \in [Windows -> [count : Nat, expires : Nat]]
        /\ granted \in [Windows -> SUBSET Calls] /\ \A v \in Windows : Metered(v)
        /\ second \in Nat
    BY LimitsPositive DEF ApiInv, CallsOK, LimiterOK
  <1>3. \A d \in Calls : call'[d] = IF d = c THEN q ELSE call[d]
    BY <1>1, <1>2
  <1>4. CallsOK'
    BY <1>1, <1>2, <1>3 DEF CallsOK, CallOK
  <1>5. PastCalls' = PastCalls \cup {c} /\ c \notin PastCalls
    BY <1>1, <1>3 DEF PastCalls, Past
  <1>6. Cardinality(PastCalls') = Cardinality(PastCalls) + 1 /\ Cardinality(PastCalls) \in Nat
    BY <1>5, PastIsFinite, FS_AddElement
  <1>7. granted' \in [Windows -> SUBSET Calls]
    BY <1>2 DEF Count
  <1>8. ASSUME NEW v \in Windows, v # w PROVE Metered(v)'
    <2>1. counter'[v] = counter[v] /\ granted'[v] = granted[v] /\ Metered(v)
      BY <1>2, <1>8 DEF Count
    <2>2. WindowOf(second)' = WindowOf(second) /\ WindowEnd(v)' = WindowEnd(v)
      BY DEF WindowOf, WindowEnd
    <2>3. counter'[v].count \in 0 .. Cardinality(PastCalls')
      BY <1>6, <2>1 DEF Metered
    <2>. QED  BY <2>1, <2>2, <2>3 DEF Metered
  <1>9. Metered(w)'
    <2>1. counter'[w].count = n /\ counter'[w].expires = e /\ Metered(w)
      BY <1>2
    <2>2. n \in 0 .. Cardinality(PastCalls')
      BY <1>6, <2>1 DEF Metered
    <2>3. IsFiniteSet(granted[w]) /\ Cardinality(granted[w]) \in Nat /\ granted[w] \subseteq Calls
      BY <2>1, LimitsPositive, FS_Subset, FS_CardinalityType DEF Metered
    <2>4. granted'[w] = granted[w] \/ (/\ granted'[w] = granted[w] \cup {c}
                                       /\ n <= RateLimit /\ WindowOf(second) = w)
      BY <1>2 DEF Count
    <2>5. Cardinality(granted[w] \cup {c}) \in Nat /\ Cardinality(granted[w] \cup {c}) <= Cardinality(granted[w]) + 1
      BY <2>3, OneMore
    <2>6. w \in Nat /\ WindowOf(second) \in Nat /\ WindowOf(second)' = WindowOf(second)
            /\ WindowEnd(w)' = WindowEnd(w)
      <3>1. w \in Nat /\ WindowOf(second) \in Nat
        <4>1. WindowOf(MaxSeconds) \in Nat /\ WindowOf(second) \in Nat
          BY <1>2, WindowBounds, LimitsPositive
        <4>. QED  BY <4>1 DEF Windows
      <3>. QED  BY <3>1 DEF WindowOf, WindowEnd
    <2>7. /\ granted'[w] \subseteq Calls /\ Cardinality(granted'[w]) <= RateLimit
          /\ WindowOf(second) <= w => Cardinality(granted'[w]) <= n
      <3>1. /\ Cardinality(granted[w]) <= RateLimit /\ counter[w].count \in Nat
            /\ WindowOf(second) <= w => Cardinality(granted[w]) <= counter[w].count
        BY <2>1, PastIsFinite DEF Metered
      <3>2. CASE granted'[w] = granted[w]
        BY <2>3, <2>6, <3>1, <3>2
      <3>3. CASE granted'[w] = granted[w] \cup {c} /\ n <= RateLimit /\ WindowOf(second) = w
        BY <2>3, <2>5, <2>6, <3>1, <3>3, LimitsPositive
      <3>. QED  BY <2>4, <3>2, <3>3
    <2>. QED  BY <2>1, <2>2, <2>6, <2>7 DEF Metered
  <1>10. counter' \in [Windows -> [count : Nat, expires : Nat]]
    BY <1>2
  <1>11. LimiterOK'
    BY <1>7, <1>8, <1>9, <1>10 DEF ApiInv, LimiterOK
  <1>. QED  BY <1>4, <1>11, CountedCall DEF ApiInv

\* A call at the limiter reads the count of a window that is not over before the
\* call read the time, so a key that was counted in it still lives.
LEMMA KeysOutliveWindows ==
  ASSUME ApiInv, NEW c \in Calls
  PROVE  LET w == WindowOf(call[c].now)
         IN  /\ w \in Windows /\ w \in Nat /\ w <= WindowOf(second)
             /\ WindowOf(second) <= w => second < WindowEnd(w)
             /\ WindowOf(second) <= w /\ ~KeyLives(w) => counter[w].count = 0
             /\ WindowEnd(w) <= second + KeyTimeout
  <1>. DEFINE t == call[c].now
              w == WindowOf(t)
  <1>1. t \in Nat /\ t <= second /\ second \in Nat /\ second <= MaxSeconds /\ MaxSeconds \in Nat
    BY LimitsPositive DEF ApiInv, CallsOK, CallOK, CallRow, LimiterOK
  <1>2. /\ w \in Nat /\ w <= WindowOf(second) /\ w <= WindowOf(MaxSeconds)
        /\ WindowOf(second) \in Nat /\ WindowOf(MaxSeconds) \in Nat
    <2>1. t <= MaxSeconds
      BY <1>1
    <2>. HIDE DEF t
    <2>. QED  BY <1>1, <2>1, WindowBounds, WindowsOrdered
  <1>3. w \in Windows
    BY <1>2 DEF Windows
  <1>4. WindowOf(second) <= w => second < WindowEnd(w)
    <2>1. second < WindowEnd(WindowOf(second))
      BY <1>1, WindowBounds
    <2>2. WindowOf(second) <= w => WindowOf(second) = w
      BY <1>2
    <2>. HIDE DEF w
    <2>. QED  BY <2>1, <2>2
  <1>5. WindowEnd(w) <= second + KeyTimeout
    <2>1. w * RateWindow <= t
      BY <1>1, WindowBounds
    <2>2. WindowEnd(w) = w * RateWindow + RateWindow
      BY <1>2, LimitsPositive DEF WindowEnd
    <2>. HIDE DEF w, t
    <2>3. w * RateWindow \in Nat
      BY <1>2, LimitsPositive
    <2>. QED  BY <1>1, <2>1, <2>2, <2>3, LimitsPositive DEF KeyTimeout
  <1>6. ASSUME WindowOf(second) <= w, ~KeyLives(w) PROVE counter[w].count = 0
    <2>1. /\ counter[w].count \in Nat /\ counter[w].expires \in Nat
          /\ counter[w].count > 0 => WindowEnd(w) <= counter[w].expires
      BY <1>3, PastIsFinite DEF ApiInv, LimiterOK, Metered
    <2>2. second < WindowEnd(w) /\ WindowEnd(w) \in Nat
      BY <1>2, <1>4, <1>6, LimitsPositive DEF WindowEnd
    <2>. HIDE DEF w
    <2>. QED  BY <1>1, <1>6, <2>1, <2>2 DEF KeyLives
  <1>. QED  BY <1>2, <1>3, <1>4, <1>5, <1>6

\* The steps of the limiter that count nothing.
LEMMA LimiterMoves ==
  ASSUME ApiInv, NEW c \in Calls, NEW at \in {"incr", "readd", "reincr"},
         call[c].at \in {"add", "incr", "readd"}, call' = [call EXCEPT ![c].at = at],
         report' = NoReport, UNCHANGED <<second, counter, granted>>
  PROVE  ApiInv'
  <1>. DEFINE q == [call[c] EXCEPT !.at = at]
  <1>1. call \in [Calls -> CallRow] /\ CallOK(call[c]) /\ call[c] \in CallRow
    BY DEF ApiInv, CallsOK
  <1>2. q \in CallRow /\ q.at = at /\ q.now = call[c].now /\ q.answer = call[c].answer
    BY <1>1 DEF CallRow
  <1>3. call' = [call EXCEPT ![c] = q]
    BY <1>1
  <1>. HIDE DEF q
  <1>4. CallOK(q) /\ ~Past(call[c])
    BY <1>1, <1>2 DEF CallOK, Past
  <1>5. ExitTellsCause'
    BY DEF ExitTellsCause, NoReport
  <1>. QED  BY <1>3, <1>4, <1>5, CallGoesOn

LEMMA CacheAdds == ASSUME ApiInv, NEW c \in Calls, CacheAdd(c) PROVE ApiInv'
  <1>. DEFINE w == WindowOf(call[c].now)
  <1>1. call[c].at \in {"add", "readd"} /\ UNCHANGED second
    BY DEF CacheAdd
  <1>2. CASE /\ ~KeyLives(w) /\ Count(c, 1)
             /\ counter' = [counter EXCEPT ![w] = [count |-> 1, expires |-> second + KeyTimeout]]
    <2>1. /\ w \in Windows /\ WindowEnd(w) <= second + KeyTimeout
          /\ WindowOf(second) <= w => counter[w].count = 0
      BY <1>2, KeysOutliveWindows
    <2>2. second + KeyTimeout \in Nat
      BY LimitsPositive DEF ApiInv, LimiterOK, KeyTimeout
    <2>3. counter[w].count \in Nat
      BY <2>1, PastIsFinite DEF ApiInv, LimiterOK, Metered
    <2>4. 1 \in Nat \ {0} /\ 1 <= counter[w].count + 1 /\ (WindowOf(second) <= w => 1 = counter[w].count + 1)
      BY <2>1, <2>3
    <2>. QED  BY <1>1, <1>2, <2>1, <2>2, <2>4, CountGrants
  <1>3. CASE /\ KeyLives(w) /\ report' = NoReport /\ UNCHANGED <<counter, granted>>
             /\ call' = [call EXCEPT ![c].at = IF @ = "add" THEN "incr" ELSE "reincr"]
    <2>1. PICK at \in {"incr", "reincr"} : call' = [call EXCEPT ![c].at = at]
      BY <1>3
    <2>. QED  BY <1>1, <1>3, <2>1, LimiterMoves
  <1>. QED  BY <1>2, <1>3 DEF CacheAdd

LEMMA CacheIncrs == ASSUME ApiInv, NEW c \in Calls, CacheIncr(c) PROVE ApiInv'
  <1>. DEFINE w == WindowOf(call[c].now)
  <1>1. call[c].at \in {"incr", "reincr"} /\ UNCHANGED second
    BY DEF CacheIncr
  <1>2. CASE /\ KeyLives(w) /\ Count(c, counter[w].count + 1)
             /\ counter' = [counter EXCEPT ![w].count = @ + 1]
    <2>. DEFINE n == counter[w].count + 1
                e == counter[w].expires
    <2>1. w \in Windows
      BY KeysOutliveWindows
    <2>2. /\ counter \in [Windows -> [count : Nat, expires : Nat]]
          /\ counter[w] \in [count : Nat, expires : Nat] /\ Metered(w)
      BY <2>1 DEF ApiInv, LimiterOK
    <2>3. n \in Nat \ {0} /\ e \in Nat /\ WindowEnd(w) <= e
      BY <1>2, <2>2 DEF Metered, KeyLives
    <2>4. counter' = [counter EXCEPT ![w] = [count |-> n, expires |-> e]]
      <3>1. [counter[w] EXCEPT !.count = n] = [count |-> n, expires |-> e]
        BY <2>2
      <3>. QED  BY <1>2, <2>1, <2>2, <3>1
    <2>5. Count(c, n) /\ n <= counter[w].count + 1 /\ n = counter[w].count + 1
      BY <1>2, <2>2
    <2>. HIDE DEF n, e
    <2>. QED  BY <1>1, <2>1, <2>3, <2>4, <2>5, CountGrants
  <1>3. CASE /\ ~KeyLives(w) /\ call[c].at = "incr" /\ report' = NoReport
             /\ call' = [call EXCEPT ![c].at = "readd"] /\ UNCHANGED <<counter, granted>>
    BY <1>1, <1>3, LimiterMoves
  <1>. QED  BY <1>2, <1>3 DEF CacheIncr

-----------------------------------------------------------------------------
(* Every step.                                                              *)

\* A call that takes a step on its way, and reports nothing.
LEMMA CallMoves ==
  ASSUME ApiInv, NEW c \in Calls, NEW q \in CallRow,
         q.at # "answered", q.answer = NoAnswer, q.now <= second, Past(call[c]) => Past(q),
         call' = [call EXCEPT ![c] = q], UNCHANGED <<second, counter, granted>>,
         CauseFits(report'.why, report'.exit), report'.retry => report'.why \in PassingCauses
  PROVE  ApiInv'
  <1>1. CallOK(q)
    BY DEF CallOK
  <1>2. ExitTellsCause'
    BY DEF ExitTellsCause, CauseFits
  <1>. QED  BY <1>1, <1>2, CallGoesOn

\* The end of a call, with what its caller makes of it.
LEMMA CallEnds ==
  ASSUME ApiInv, NEW c \in Calls, NEW why, NEW exit, NEW retry, Over(c, why, exit, retry),
         CauseFits(why, exit), retry => why \in PassingCauses, UNCHANGED <<second, counter, granted>>
  PROVE  ApiInv'
  <1>. DEFINE q == [NoCall EXCEPT !.at = "over"]
  <1>1. NoAnswer \in AnswerRow
    BY DEF NoAnswer, AnswerRow, Causes
  <1>2. q \in CallRow /\ q.at = "over" /\ q.answer = NoAnswer /\ q.now = 0
    BY <1>1 DEF NoCall, CallRow
  <1>3. call' = [call EXCEPT ![c] = q] /\ report'.why = why /\ report'.exit = exit /\ report'.retry = retry
    BY DEF Over
  <1>4. 0 <= second
    BY LimitsPositive DEF ApiInv, LimiterOK
  <1>. HIDE DEF q
  <1>. QED  BY <1>2, <1>3, <1>4, CallMoves DEF Past

\* The record of a call, field by field.
LEMMA CallFields ==
  ASSUME NEW r \in CallRow, NEW at, NEW by, NEW now
  PROVE  /\ [r EXCEPT !.at = at] = [at |-> at, by |-> r.by, now |-> r.now, answer |-> r.answer]
         /\ [r EXCEPT !.at = at, !.by = by] = [at |-> at, by |-> by, now |-> r.now, answer |-> r.answer]
         /\ [r EXCEPT !.at = at, !.now = now] = [at |-> at, by |-> r.by, now |-> now, answer |-> r.answer]
  <1>1. [r EXCEPT !.at = at] = [at |-> at, by |-> r.by, now |-> r.now, answer |-> r.answer]
    BY DEF CallRow
  <1>2. /\ [r EXCEPT !.at = at, !.by = by] = [[r EXCEPT !.at = at] EXCEPT !.by = by]
        /\ [r EXCEPT !.at = at, !.now = now] = [[r EXCEPT !.at = at] EXCEPT !.now = now]
    OBVIOUS
  <1>3. [[at |-> at, by |-> r.by, now |-> r.now, answer |-> r.answer] EXCEPT !.by = by]
          = [at |-> at, by |-> by, now |-> r.now, answer |-> r.answer]
    OBVIOUS
  <1>4. [[at |-> at, by |-> r.by, now |-> r.now, answer |-> r.answer] EXCEPT !.now = now]
          = [at |-> at, by |-> r.by, now |-> now, answer |-> r.answer]
    OBVIOUS
  <1>. QED  BY <1>1, <1>2, <1>3, <1>4

\* A call that is sent, or goes on to the limiter or its route.
LEMMA CallAdvances ==
  ASSUME ApiInv, NEW c \in Calls, call[c].at \in {"idle", "sent"},
         NEW at \in {"sent", "add", "route"}, NEW by \in {"cli", "http", "gone"}, NEW now \in Nat,
         now <= second, report' = NoReport, UNCHANGED <<second, counter, granted>>,
         call' = [call EXCEPT ![c] = [at |-> at, by |-> by, now |-> now, answer |-> call[c].answer]]
  PROVE  ApiInv'
  <1>. DEFINE q == [at |-> at, by |-> by, now |-> now, answer |-> call[c].answer]
  <1>1. call[c] \in CallRow /\ call[c].answer = NoAnswer
    BY DEF ApiInv, CallsOK, CallOK
  <1>2. /\ q \in CallRow /\ q.at # "answered" /\ q.answer = NoAnswer /\ q.now = now
    BY <1>1 DEF CallRow
  <1>3. ~Past(call[c]) /\ CauseFits(report'.why, report'.exit) /\ report'.retry = FALSE
    BY DEF Past, CauseFits, NoReport
  <1>. HIDE DEF q
  <1>4. call' = [call EXCEPT ![c] = q]
    BY DEF q
  <1>. QED  BY <1>2, <1>3, <1>4, CallMoves

LEMMA RequestsStart ==
  ASSUME ApiInv, NEW c \in Calls, Run(c) \/ Post(c)
  PROVE  ApiInv'
  <1>1. call[c].at = "idle" /\ UNCHANGED <<second, counter, granted>>
    BY DEF Run, Post
  <1>2. /\ call \in [Calls -> CallRow] /\ call[c] \in CallRow /\ call[c].now <= second
    BY DEF ApiInv, CallsOK, CallOK
  <1>3. CASE call' = [call EXCEPT ![c].at = "sent"] /\ report' = NoReport
    <2>1. call' = [call EXCEPT ![c] = [at |-> "sent", by |-> call[c].by, now |-> call[c].now,
                                       answer |-> call[c].answer]]
      <3>1. call' = [call EXCEPT ![c] = [call[c] EXCEPT !.at = "sent"]]
        BY <1>2, <1>3
      <3>. QED  BY <1>2, <3>1, CallFields
    <2>2. call[c].by \in {"cli", "http", "gone"} /\ call[c].now \in Nat
      BY <1>2 DEF CallRow
    <2>. QED  BY <1>1, <1>2, <1>3, <2>1, <2>2, CallAdvances
  <1>4. CASE Post(c)
    <2>1. call' = [call EXCEPT ![c] = [at |-> "sent", by |-> "http", now |-> call[c].now,
                                       answer |-> call[c].answer]]
      <3>1. call' = [call EXCEPT ![c] = [call[c] EXCEPT !.at = "sent", !.by = "http"]]
        BY <1>2, <1>4 DEF Post
      <3>. QED  BY <1>2, <3>1, CallFields
    <2>2. call[c].now \in Nat
      BY <1>2 DEF CallRow
    <2>. QED  BY <1>1, <1>2, <1>4, <2>1, <2>2, CallAdvances DEF Post
  <1>5. ASSUME NEW k \in DOMAIN Commands, NEW why \in Commands[k] \cup Shown, Over(c, why, LocalExit(why), FALSE)
        PROVE  ApiInv'
    BY <1>1, <1>5, LocalExitsFit, CallEnds
  <1>6. "help" \in Shown /\ "shown" \in Shown
    BY DEF Shown
  <1>7. Run(c) => \/ call' = [call EXCEPT ![c].at = "sent"] /\ report' = NoReport
                  \/ \E k \in DOMAIN Commands : \E why \in Commands[k] \cup Shown :
                       Over(c, why, LocalExit(why), FALSE)
    BY <1>6 DEF Run
  <1>. QED  BY <1>3, <1>4, <1>5, <1>7

LEMMA CallersAreChecked == ASSUME ApiInv, NEW c \in Calls, Authenticate(c) PROVE ApiInv'
  <1>1. call[c].at = "sent" /\ UNCHANGED <<second, counter, granted>>
    BY DEF Authenticate
  <1>2. /\ call \in [Calls -> CallRow] /\ call[c] \in CallRow /\ call[c].now <= second /\ second \in Nat
    BY LimitsPositive DEF ApiInv, CallsOK, CallOK, LimiterOK
  <1>3. /\ 401 \in Nat \ {0} /\ 422 \in Nat \ {0} /\ FALSE \in BOOLEAN
        /\ "credential" \in Causes /\ "schema" \in Causes
        /\ AnswerFits([status |-> 401, retryable |-> FALSE, why |-> "credential"])
        /\ AnswerFits([status |-> 422, retryable |-> FALSE, why |-> "schema"])
    BY ServerAnswersFit DEF Causes
  <1>4. CASE Answered(c, 401, FALSE, "credential")
    BY <1>1, <1>3, <1>4, CallAnswered
  <1>5. CASE Answered(c, 422, FALSE, "schema")
    BY <1>1, <1>3, <1>5, CallAnswered
  <1>6. ASSUME NEW now \in {call[c].now, second}, NEW at \in {"add", "route"}, report' = NoReport,
               call' = [call EXCEPT ![c] = [at |-> at, by |-> call[c].by, now |-> now,
                                            answer |-> call[c].answer]]
        PROVE  ApiInv'
    <2>1. now \in Nat /\ now <= second /\ call[c].by \in {"cli", "http", "gone"}
      BY <1>2 DEF CallRow
    <2>. QED  BY <1>1, <1>6, <2>1, CallAdvances
  <1>7. CASE call' = [call EXCEPT ![c].at = "add", ![c].now = second] /\ report' = NoReport
    <2>1. call' = [call EXCEPT ![c] = [at |-> "add", by |-> call[c].by, now |-> second,
                                       answer |-> call[c].answer]]
      <3>1. call' = [call EXCEPT ![c] = [call[c] EXCEPT !.at = "add", !.now = second]]
        BY <1>2, <1>7
      <3>. QED  BY <1>2, <3>1, CallFields
    <2>. QED  BY <1>6, <1>7, <2>1
  <1>8. CASE call' = [call EXCEPT ![c].at = "route"] /\ report' = NoReport
    <2>1. call' = [call EXCEPT ![c] = [at |-> "route", by |-> call[c].by, now |-> call[c].now,
                                       answer |-> call[c].answer]]
      <3>1. call' = [call EXCEPT ![c] = [call[c] EXCEPT !.at = "route"]]
        BY <1>2, <1>8
      <3>. QED  BY <1>2, <3>1, CallFields
    <2>. QED  BY <1>6, <1>8, <2>1
  <1>. QED  BY <1>4, <1>5, <1>7, <1>8 DEF Authenticate

LEMMA RoutesAnswer ==
  ASSUME ApiInv, NEW c \in Calls, LimiterFails(c) \/ ReadRoute(c) \/ SubmitRoute(c) \/ SearchRoute(c)
  PROVE  ApiInv'
  <1>1. /\ call[c].at \notin {"idle", "answered", "over"} /\ UNCHANGED <<second, counter, granted>>
        /\ FALSE \in BOOLEAN /\ TRUE \in BOOLEAN
    BY DEF LimiterFails, ReadRoute, SubmitRoute, SearchRoute
  <1>2. CASE LimiterFails(c)
    <2>1. Answered(c, 503, TRUE, "limiter")
      BY <1>2 DEF LimiterFails
    <2>2. AnswerFits([status |-> 503, retryable |-> TRUE, why |-> "limiter"])
      BY ServerAnswersFit
    <2>3. 503 \in Nat \ {0} /\ "limiter" \in Causes
      BY DEF Causes
    <2>. QED  BY <1>1, <2>1, <2>2, <2>3, CallAnswered
  <1>3. CASE Answered(c, 200, FALSE, "served")
    <2>1. 200 \in Nat \ {0} /\ "served" \in Causes
            /\ AnswerFits([status |-> 200, retryable |-> FALSE, why |-> "served"])
      BY ServerAnswersFit DEF Causes
    <2>. QED  BY <1>1, <1>3, <2>1, CallAnswered
  <1>4. CASE call[c].by = "http" /\ Answered(c, 404, FALSE, "not_found")
    <2>1. 404 \in Nat \ {0} /\ "not_found" \in Causes
      BY DEF Causes
    <2>. QED  BY <1>1, <1>4, <2>1, CallAnswered
  <1>5. CASE SubmitRoute(c)
    <2>1. PICK end \in SubmitEnds :
            Answered(c, SubmitStatus(end), end = "temporary", IF end = "created" THEN "served" ELSE end)
      BY <1>5 DEF SubmitRoute
    <2>. DEFINE retry == end = "temporary"
                why == IF end = "created" THEN "served" ELSE end
    <2>2. /\ SubmitStatus(end) \in Nat \ {0} /\ retry \in BOOLEAN /\ why \in Causes
          /\ retry => why \in PassingCauses
      BY SubmitAnswers
    <2>3. Answered(c, SubmitStatus(end), retry, why) /\ call[c].by = "http"
      BY <1>5, <2>1 DEF SubmitRoute
    <2>. HIDE DEF retry, why
    <2>. QED  BY <1>1, <2>2, <2>3, CallAnswered
  <1>6. CASE SearchRoute(c)
    <2>1. PICK end \in SearchEnds : Answered(c, SearchStatus(end.code), end.retryable, end.code)
      BY <1>6 DEF SearchRoute
    <2>. QED  BY <1>1, <2>1, SearchAnswersFit, CallAnswered
  <1>. QED  BY <1>2, <1>3, <1>4, <1>5, <1>6 DEF ReadRoute

\* The client gives up waiting, or reads the answer.
LEMMA CallersLeave ==
  ASSUME ApiInv, NEW c \in Calls, NoResponse(c) \/ Receive(c)
  PROVE  ApiInv'
  <1>1. /\ UNCHANGED <<second, counter, granted>>
        /\ call \in [Calls -> CallRow] /\ call[c] \in CallRow /\ CallOK(call[c])
    BY DEF NoResponse, Receive, ApiInv, CallsOK
  <1>2. ASSUME NEW exit \in {"network", "interrupted"} PROVE CauseFits("no_response", exit)
    BY DEF CauseFits, RefusedCauses
  <1>3. ASSUME NEW exit \in {"network", "interrupted"}, Over(c, "no_response", exit, FALSE) PROVE ApiInv'
    BY <1>1, <1>2, <1>3, CallEnds
  <1>4. ASSUME NEW exit \in {"network", "interrupted"}, call[c].at # "answered",
               call' = [call EXCEPT ![c].by = "gone"],
               report' = [NoReport EXCEPT !.why = "no_response", !.exit = exit]
        PROVE  ApiInv'
    <2>. DEFINE q == [call[c] EXCEPT !.by = "gone"]
    <2>1. q \in CallRow /\ q.at = call[c].at /\ q.now = call[c].now /\ q.answer = call[c].answer
      BY <1>1 DEF CallRow
    <2>2. call' = [call EXCEPT ![c] = q]
      BY <1>1, <1>4
    <2>3. report'.why = "no_response" /\ report'.exit = exit /\ report'.retry = FALSE
      BY <1>4 DEF NoReport
    <2>4. q.answer = NoAnswer /\ q.now <= second
      BY <1>1, <1>4, <2>1 DEF CallOK
    <2>. HIDE DEF q
    <2>. QED  BY <1>1, <1>2, <1>4, <2>1, <2>2, <2>3, <2>4, CallMoves DEF Past
  <1>5. CASE Receive(c)
    <2>. DEFINE a == call[c].answer
    <2>1. AnswerFits(a)
      BY <1>1, <1>5 DEF Receive, CallOK
    <2>2. CASE Over(c, a.why, ExitOf(a.status), a.retryable)
      BY <1>1, <2>1, <2>2, CallEnds DEF AnswerFits
    <2>3. CASE Over(c, "protocol", "server", FALSE)
      <3>1. CauseFits("protocol", "server")
        BY DEF CauseFits, RefusedCauses
      <3>. QED  BY <1>1, <2>3, <3>1, CallEnds
    <2>. QED  BY <1>5, <2>2, <2>3 DEF Receive
  <1>. QED  BY <1>3, <1>4, <1>5 DEF NoResponse

LEMMA ApiInvNext == ApiInv /\ [ApiNext]_apiVars => ApiInv'
  <1>. SUFFICES ASSUME ApiInv, [ApiNext]_apiVars PROVE ApiInv'
    OBVIOUS
  <1>1. CASE Second
    <2>1. /\ second \in Nat /\ second' = second + 1 /\ second' \in 0 .. MaxSeconds /\ report' = NoReport
          /\ UNCHANGED <<counter, call, granted>>
      BY <1>1, LimitsPositive DEF Second, ApiInv, LimiterOK
    <2>2. CallsOK'
      BY <2>1 DEF ApiInv, CallsOK, CallOK, CallRow
    <2>3. ASSUME NEW w \in Windows PROVE Metered(w)'
      <3>1. WindowOf(second) <= WindowOf(second') /\ WindowOf(second) \in Nat /\ WindowOf(second') \in Nat
        <4>1. second' \in Nat /\ second <= second'
          BY <2>1
        <4>. QED  BY <2>1, <4>1, WindowsOrdered, WindowBounds
      <3>2. w \in Nat
        BY WindowBounds, LimitsPositive DEF Windows
      <3>3. Metered(w) /\ WindowEnd(w)' = WindowEnd(w) /\ PastCalls' = PastCalls
              /\ WindowOf(second)' = WindowOf(second')
        BY <2>1 DEF ApiInv, LimiterOK, WindowEnd, PastCalls, Past, WindowOf
      <3>4. WindowOf(second)' <= w => WindowOf(second) <= w
        BY <3>1, <3>2, <3>3
      <3>. QED  BY <2>1, <3>3, <3>4 DEF Metered
    <2>4. LimiterOK'
      BY <2>1, <2>3 DEF ApiInv, LimiterOK
    <2>5. ExitTellsCause'
      BY <2>1 DEF ExitTellsCause, NoReport
    <2>. QED  BY <2>2, <2>4, <2>5 DEF ApiInv
  <1>2. CASE UNCHANGED apiVars
    <2>1. CallsOK'
      BY <1>2 DEF apiVars, ApiInv, CallsOK, CallOK
    <2>2. ASSUME NEW w \in Windows PROVE Metered(w)'
      <3>1. Metered(w) /\ WindowEnd(w)' = WindowEnd(w) /\ PastCalls' = PastCalls
              /\ WindowOf(second)' = WindowOf(second)
        BY <1>2 DEF apiVars, ApiInv, LimiterOK, WindowEnd, PastCalls, Past, WindowOf
      <3>. QED  BY <1>2, <3>1 DEF apiVars, Metered
    <2>3. LimiterOK' /\ ExitTellsCause'
      BY <1>2, <2>2 DEF apiVars, ApiInv, LimiterOK, ExitTellsCause
    <2>. QED  BY <2>1, <2>3 DEF ApiInv
  <1>. QED
    BY <1>1, <1>2, RequestsStart, CallersAreChecked, CacheAdds, CacheIncrs, RoutesAnswer, CallersLeave DEF ApiNext

\* A key is let through at most RateLimit times within a window, however many
\* requests add, increment and find expired keys at the same time: the key lives
\* until the window is over, so its count never restarts within it.
THEOREM WindowBudgetHolds == ApiSpec => []WindowBudget
  BY ApiInvInit, ApiInvNext, ApiInvImplies, PTL DEF ApiSpec

\* The exit code and the advice to retry say what became of the request, for every
\* answer of every route, and for what the client finds by itself.
THEOREM ExitTellsCauseHolds == ApiSpec => []ExitTellsCause
  BY ApiInvInit, ApiInvNext, ApiInvImplies, PTL DEF ApiSpec

-----------------------------------------------------------------------------
(* Search.  First, least and greatest numbers, and the best of a set: its    *)
(* elements are ranked by how many are better, and no two have one rank.     *)

LEMMA MaxOfTwo ==
  ASSUME NEW i \in Int, NEW j \in Int
  PROVE  /\ Max({i, j}) \in {i, j} /\ Max({i, j}) >= i /\ Max({i, j}) >= j
         /\ Min({i, j}) \in {i, j} /\ Min({i, j}) <= i /\ Min({i, j}) <= j
  BY DEF Max, Min

LEMMA BestOf ==
  ASSUME NEW S \in SUBSET Nat, IsFiniteSet(S), NEW n \in Nat
  PROVE  /\ Best(S, n) \subseteq S /\ Cardinality(Best(S, n)) <= n
         /\ \A a \in S \ Best(S, n) : /\ Cardinality(Best(S, n)) = n
                                      /\ \A b \in Best(S, n) : b > a
  <1>. DEFINE Above(a) == {b \in S : b > a}
              rank == [a \in S |-> Cardinality(Above(a))]
              size == Cardinality(S)
              kept == Best(S, n)
              held == [a \in kept |-> rank[a]]
  <1>1. \A a \in S : /\ IsFiniteSet(Above(a)) /\ rank[a] \in Nat /\ rank[a] < size
    <2>. SUFFICES ASSUME NEW a \in S PROVE IsFiniteSet(Above(a)) /\ rank[a] \in Nat /\ rank[a] < size
      OBVIOUS
    <2>1. Above(a) \in SUBSET S /\ Above(a) # S
      OBVIOUS
    <2>2. IsFiniteSet(Above(a)) /\ Cardinality(Above(a)) <= size /\ Cardinality(Above(a)) # size
      BY <2>1, FS_Subset
    <2>3. Cardinality(Above(a)) \in Nat /\ size \in Nat
      BY <2>2, FS_CardinalityType
    <2>. QED  BY <2>2, <2>3
  <1>2. \A a, b \in S : a < b => rank[b] < rank[a]
    <2>. SUFFICES ASSUME NEW a \in S, NEW b \in S, a < b PROVE rank[b] < rank[a]
      OBVIOUS
    <2>0. a \in Nat /\ b \in Nat /\ \A c \in S : c \in Nat
      OBVIOUS
    <2>1. Above(b) \in SUBSET Above(a) /\ b \in Above(a) /\ b \notin Above(b)
      <3>1. \A c \in S : c > b => c > a
        BY <2>0
      <3>2. ~(b > b) /\ b > a
        BY <2>0
      <3>. QED  BY <3>1, <3>2
    <2>2. Cardinality(Above(b)) <= Cardinality(Above(a)) /\ Cardinality(Above(b)) # Cardinality(Above(a))
      <3>1. IsFiniteSet(Above(a)) /\ Above(b) # Above(a)
        BY <1>1, <2>1
      <3>. HIDE DEF Above
      <3>. QED  BY <2>1, <3>1, FS_Subset
    <2>3. rank[a] = Cardinality(Above(a)) /\ rank[b] = Cardinality(Above(b))
      OBVIOUS
    <2>. QED  BY <1>1, <2>2, <2>3
  <1>3. size \in Nat /\ IsFiniteSet(0 .. size - 1) /\ Cardinality(0 .. size - 1) = size
        /\ IsFiniteSet(0 .. n - 1) /\ Cardinality(0 .. n - 1) = n
    <2>1. size \in Nat
      BY FS_CardinalityType
    <2>. HIDE DEF size
    <2>2. \A k \in Nat : IsFiniteSet(0 .. k - 1) /\ Cardinality(0 .. k - 1) = k
      <3>. SUFFICES ASSUME NEW k \in Nat PROVE IsFiniteSet(0 .. k - 1) /\ Cardinality(0 .. k - 1) = k
        OBVIOUS
      <3>1. 0 \in Int /\ k - 1 \in Int /\ (IF 0 > k - 1 THEN 0 ELSE k - 1 - 0 + 1) = k
        OBVIOUS
      <3>. QED  BY <3>1, FS_Interval
    <2>. QED  BY <2>1, <2>2
  <1>4. kept = {a \in S : rank[a] < n}
    BY DEF Best
  <1>. HIDE DEF rank, size, kept
  <1>5. rank \in [S -> 0 .. size - 1]
    <2>1. rank = [a \in S |-> rank[a]]
      BY DEF rank
    <2>2. ASSUME NEW a \in S PROVE rank[a] \in 0 .. size - 1
      <3>1. rank[a] \in Nat /\ rank[a] < size /\ size \in Nat
        BY <1>1, <1>3
      <3>. QED  BY <3>1
    <2>. QED  BY <2>1, <2>2
  <1>6. \A a, b \in S : rank[a] = rank[b] => a = b
    <2>. SUFFICES ASSUME NEW a \in S, NEW b \in S, rank[a] = rank[b], a # b PROVE FALSE
      OBVIOUS
    <2>1. a \in Nat /\ b \in Nat /\ rank[a] \in Nat /\ rank[b] \in Nat
      BY <1>1
    <2>2. a < b \/ b < a
      BY <2>1
    <2>3. rank[a] < rank[b] \/ rank[b] < rank[a]
      BY <1>2, <2>2
    <2>. QED  BY <2>1, <2>3
  <1>7. rank \in Surjection(S, 0 .. size - 1)
    <2>1. rank \in Injection(S, 0 .. size - 1)
      BY <1>5, <1>6 DEF Injection, IsInjective
    <2>2. size = Cardinality(0 .. size - 1) /\ size = Cardinality(S)
      BY <1>3 DEF size
    <2>. QED  BY <1>3, <2>1, <2>2, FS_Injection
  <1>8. kept \subseteq S /\ held \in Injection(kept, 0 .. n - 1)
    <2>1. kept \subseteq S
      BY <1>4
    <2>2. ASSUME NEW a \in kept PROVE held[a] \in 0 .. n - 1
      <3>1. held[a] = rank[a] /\ rank[a] \in Nat /\ rank[a] < n
        BY <1>1, <1>4
      <3>. QED  BY <3>1
    <2>3. \A a, b \in kept : held[a] = held[b] => a = b
      BY <1>6, <2>1
    <2>. QED  BY <2>1, <2>2, <2>3 DEF Injection, IsInjective
  <1>9. Cardinality(kept) <= n
    BY <1>3, <1>8, FS_Injection
  <1>10. ASSUME NEW a \in S \ kept PROVE Cardinality(kept) = n /\ \A b \in kept : b > a
    <2>1. rank[a] >= n /\ rank[a] < size /\ rank[a] \in Nat
      <3>1. a \in S /\ ~(rank[a] < n)
        BY <1>4
      <3>2. rank[a] < size /\ rank[a] \in Nat
        BY <1>1, <3>1
      <3>. QED  BY <3>1, <3>2
    <2>2. \A b \in kept : b > a
      <3>. SUFFICES ASSUME NEW b \in kept, ~(b > a) PROVE FALSE
        OBVIOUS
      <3>1. rank[b] < n /\ b \in S /\ rank[b] \in Nat
        BY <1>1, <1>4
      <3>2. b = a \/ b < a
        BY <3>1
      <3>. QED  BY <1>2, <2>1, <3>1, <3>2
    <2>3. \A k \in 0 .. n - 1 : \E b \in kept : held[b] = k
      <3>. SUFFICES ASSUME NEW k \in 0 .. n - 1 PROVE \E b \in kept : held[b] = k
        OBVIOUS
      <3>1. k \in 0 .. size - 1 /\ k < n
        BY <1>3, <2>1
      <3>2. PICK b \in S : rank[b] = k
        BY <1>7, <3>1 DEF Surjection
      <3>. QED  BY <1>4, <3>1, <3>2
    <2>4. held \in Surjection(kept, 0 .. n - 1)
      BY <1>8, <2>3 DEF Surjection, Injection
    <2>5. Cardinality(kept) = Cardinality(0 .. n - 1)
      BY <1>3, <1>8, <2>4, FS_Injection
    <2>. QED  BY <1>3, <2>2, <2>5
  <1>. QED  BY <1>8, <1>9, <1>10 DEF kept

\* An excerpt stays within its text and within its length, for every text, place of
\* the term, blanks and length.
THEOREM ExcerptWithin ==
  ASSUME NEW length \in Nat, NEW pivot \in Nat, NEW blanks \in SUBSET Nat, NEW most \in Nat \ {0}
  PROVE  LET e == Excerpt(length, pivot, blanks, most)
         IN  0 <= e.first /\ e.first <= e.end /\ e.end <= length /\ e.end - e.first <= most
  <1>. DEFINE start == Max({0, pivot - most \div 3})
              end == Min({length, start + most})
              first == IF end - start < most THEN Max({0, end - most}) ELSE start
              after == {b \in blanks : first <= b /\ b < end}
              opened == IF first > 0 /\ after # {} THEN Min(after) + 1 ELSE first
              before == {b \in blanks : opened < b /\ b < end}
              closed == IF end < length /\ before # {} THEN Max(before) ELSE end
              e == Excerpt(length, pivot, blanks, most)
  <1>1. CASE length <= most
    BY <1>1 DEF Excerpt
  <1>2. CASE length > most
    <2>1. start \in Nat
      <3>. DEFINE early == pivot - most \div 3
      <3>1. early \in Int
        OBVIOUS
      <3>. HIDE DEF early
      <3>2. Max({0, early}) \in {0, early} /\ Max({0, early}) >= 0
        BY <3>1, MaxOfTwo
      <3>3. Max({0, early}) \in Nat
        BY <3>1, <3>2
      <3>. QED  BY <3>3 DEF early
    <2>. HIDE DEF start
    <2>2. end \in Int /\ end <= length /\ end <= start + most /\ (end = length \/ end = start + most)
      BY <2>1, MaxOfTwo
    <2>. HIDE DEF end
    <2>3. first \in Nat /\ end \in Nat /\ first <= end /\ end - first <= most
      <3>1. CASE end - start < most
        <4>1. end = length /\ end - most \in Nat
          BY <1>2, <2>1, <2>2, <3>1
        <4>2. Max({0, end - most}) = end - most
          <5>. DEFINE late == end - most
          <5>1. late \in Nat
            BY <4>1
          <5>. HIDE DEF late
          <5>2. Max({0, late}) \in {0, late} /\ Max({0, late}) >= late
            BY <5>1, MaxOfTwo
          <5>3. Max({0, late}) = late
            BY <5>1, <5>2
          <5>. QED  BY <5>3 DEF late
        <4>. QED  BY <2>1, <2>2, <3>1, <4>1, <4>2
      <3>2. CASE ~(end - start < most)
        BY <2>1, <2>2, <3>2
      <3>. QED  BY <3>1, <3>2
    <2>. HIDE DEF first
    <2>4. opened \in Nat /\ first <= opened /\ opened <= end
      <3>1. after \in SUBSET Nat
        OBVIOUS
      <3>2. CASE first > 0 /\ after # {}
        <4>1. Min(after) \in after
          BY <3>1, <3>2, MinIsLeast
        <4>. DEFINE least == Min(after)
        <4>2. least \in Nat /\ first <= least /\ least < end
          BY <4>1
        <4>3. opened = least + 1
          BY <3>2
        <4>. HIDE DEF least, opened
        <4>. QED  BY <2>3, <4>2, <4>3
      <3>3. CASE ~(first > 0 /\ after # {})
        BY <2>3, <3>3
      <3>. QED  BY <3>2, <3>3
    <2>. HIDE DEF opened
    <2>5. closed \in Nat /\ opened <= closed /\ closed <= end
      <3>1. before \in SUBSET Nat
        OBVIOUS
      <3>0. \A b \in before : b <= end
        <4>1. \A b \in before : b \in Nat /\ b < end
          OBVIOUS
        <4>. HIDE DEF before
        <4>. QED  BY <2>3, <4>1
      <3>2. CASE end < length /\ before # {}
        <4>1. Max(before) \in before
          <5>. HIDE DEF before
          <5>. QED  BY <2>3, <3>0, <3>1, <3>2, MaxIsGreatest
        <4>. DEFINE most2 == Max(before)
        <4>2. most2 \in Nat /\ opened < most2 /\ most2 < end
          BY <4>1
        <4>3. closed = most2
          BY <3>2
        <4>. HIDE DEF most2, closed
        <4>. QED  BY <2>3, <2>4, <4>2, <4>3
      <3>3. CASE ~(end < length /\ before # {})
        BY <2>3, <2>4, <3>3
      <3>. QED  BY <3>2, <3>3
    <2>. HIDE DEF closed
    <2>6. e = [first |-> opened, end |-> closed]
      BY <1>2 DEF Excerpt, start, end, first, opened, closed
    <2>. HIDE DEF e
    <2>7. e.first = opened /\ e.end = closed
      BY <2>6
    <2>8. 0 <= opened /\ opened <= closed /\ closed <= length /\ closed - opened <= most
      BY <2>2, <2>3, <2>4, <2>5
    <2>. QED  BY <2>7, <2>8 DEF e
  <1>. QED  BY <1>1, <1>2

-----------------------------------------------------------------------------
(* The search under way and the articles that can be found all along.        *)

QueryStages == {"idle", "embed", "points", "judge", "answered"}
QueryRow == [at : Refusals \cup QueryStages \cup {"query_embedding_unavailable",
                   "query_embedding_invalid", "search_index_invalid", "search_index_unavailable"},
             limit : {1}, language : Tongues \cup {"any"}, excluded : SUBSET Domains,
             scope : SUBSET Sources, hits : SUBSET Articles, full : BOOLEAN, result : SUBSET Articles]
CorpusInv ==
  /\ site \in [Sources -> [host : Domains, active : BOOLEAN]]
  /\ point \in [Articles -> [host : Domains \cup {"none"}, lang : Tongues \cup {"none"}]]
  /\ \A a \in Articles : point[a] = NoPoint \/ point[a].host \in Domains
  /\ article \in [Articles -> [live : BOOLEAN, lang : Tongues, embedded : BOOLEAN]]

\* Until the answer, what is steady can be served and matches; once the points are
\* chosen, what is steady but not among them was crowded out by better ones.
SearchInv ==
  /\ query \in QueryRow /\ steady \subseteq Articles
  /\ query.at \in {"embed", "points", "judge"} => \A a \in steady : Servable(a) /\ Matches(a)
  /\ query.at = "judge" => \A a \in steady \ query.hits : query.full /\ \A b \in query.hits : b > a
  /\ query.result \subseteq query.hits /\ Cardinality(query.result) <= query.limit
  /\ query.at # "answered" => query.result = {}
  /\ SteadyIsFound
QueryInv == CorpusInv /\ SearchInv

LEMMA NoQueryOK ==
  /\ NoQuery \in QueryRow /\ NoQuery.at = "idle" /\ NoQuery.result = {} /\ NoQuery.hits = {}
  /\ Cardinality(NoQuery.result) <= NoQuery.limit
  <1>1. /\ NoQuery \in QueryRow /\ NoQuery.at = "idle" /\ NoQuery.result = {} /\ NoQuery.hits = {}
        /\ NoQuery.limit = 1
    BY DEF NoQuery, QueryRow, QueryStages
  <1>. QED  BY <1>1, FS_EmptySet

LEMMA QueryInvInit == QueryInit => QueryInv
  <1>. SUFFICES ASSUME QueryInit PROVE QueryInv
    OBVIOUS
  <1>1. CorpusInv
    <2>1. PICK h \in Hosted, l \in [Articles -> Tongues] :
            /\ site = [s \in Sources |-> [host |-> h[s], active |-> TRUE]]
            /\ article = [a \in Articles |-> [live |-> TRUE, lang |-> l[a], embedded |-> TRUE]]
            /\ point = [a \in Articles |-> [host |-> h[SourceOf[a]], lang |-> l[a]]]
      BY DEF QueryInit
    <2>2. h \in [Sources -> Domains] /\ \A a \in Articles : SourceOf[a] \in Sources
      BY QueryAssumption DEF Hosted
    <2>3. \A a \in Articles : h[SourceOf[a]] \in Domains
      BY <2>2
    <2>. QED  BY <2>1, <2>2, <2>3 DEF CorpusInv
  <1>2. query = NoQuery /\ steady = {}
    BY DEF QueryInit
  <1>. QED  BY <1>1, <1>2, NoQueryOK DEF QueryInv, SearchInv, SteadyIsFound

\* However the corpus changes, what is still steady still can be served and matches.
LEMMA ChangedKeepsSearch == ASSUME SearchInv, Changed PROVE SearchInv'
  <1>1. query' = query /\ steady' = {a \in steady : Servable(a)' /\ Matches(a)'}
    BY DEF Changed
  <1>2. steady' \subseteq steady /\ \A a \in steady' : Servable(a)' /\ Matches(a)'
    BY <1>1
  <1>3. SteadyIsFound'
    BY <1>1, <1>2 DEF SearchInv, SteadyIsFound
  <1>. QED  BY <1>1, <1>2, <1>3 DEF SearchInv

LEMMA ChangesKeepCorpus ==
  ASSUME CorpusInv,
         \/ \E a \in Articles : \/ Rewrite(a) \/ Reembed(a) \/ PutPoint(a) \/ ShowArticle(a)
                                \/ DropPoint(a) \/ HideArticle(a)
         \/ \E s \in Sources : Suspend(s) \/ RenameSite(s)
  PROVE  CorpusInv'
  <1>1. ASSUME NEW a \in Articles, Rewrite(a) PROVE CorpusInv'
    BY <1>1 DEF Rewrite, CorpusInv
  <1>2. ASSUME NEW a \in Articles, Reembed(a) PROVE CorpusInv'
    BY <1>2 DEF Reembed, CorpusInv
  <1>3. ASSUME NEW a \in Articles, PutPoint(a) PROVE CorpusInv'
    BY <1>3, QueryAssumption DEF PutPoint, CorpusInv
  <1>4. ASSUME NEW a \in Articles, ShowArticle(a) PROVE CorpusInv'
    BY <1>4 DEF ShowArticle, CorpusInv
  <1>5. ASSUME NEW a \in Articles, DropPoint(a) PROVE CorpusInv'
    <2>1. NoPoint \in [host : Domains \cup {"none"}, lang : Tongues \cup {"none"}]
      BY DEF NoPoint
    <2>. QED  BY <1>5, <2>1 DEF DropPoint, CorpusInv
  <1>6. ASSUME NEW a \in Articles, HideArticle(a) PROVE CorpusInv'
    BY <1>6 DEF HideArticle, CorpusInv
  <1>7. ASSUME NEW s \in Sources, Suspend(s) PROVE CorpusInv'
    BY <1>7 DEF Suspend, CorpusInv
  <1>8. ASSUME NEW s \in Sources, RenameSite(s) PROVE CorpusInv'
    BY <1>8 DEF RenameSite, CorpusInv
  <1>. QED  BY <1>1, <1>2, <1>3, <1>4, <1>5, <1>6, <1>7, <1>8

\* A search that ends with an error holds nothing.
LEMMA EndsKeepsSearch ==
  ASSUME NEW end \in Refusals \cup {"query_embedding_unavailable", "query_embedding_invalid",
                   "search_index_invalid", "search_index_unavailable"},
         Ends(end), steady' \subseteq Articles
  PROVE  SearchInv'
  <1>1. query' = [NoQuery EXCEPT !.at = end] /\ end \notin QueryStages
    BY DEF Ends, Refusals, QueryStages
  <1>2. query' \in QueryRow /\ query'.at = end /\ query'.result = {} /\ query'.limit = NoQuery.limit
    BY <1>1, NoQueryOK DEF QueryRow
  <1>3. Cardinality(query'.result) <= query'.limit
    BY <1>2, NoQueryOK
  <1>. QED  BY <1>1, <1>2, <1>3 DEF SearchInv, SteadyIsFound, QueryStages

LEMMA QueryInvNext == QueryInv /\ [QueryNext]_queryVars => QueryInv'
  <1>. SUFFICES ASSUME QueryInv, [QueryNext]_queryVars PROVE QueryInv'
    OBVIOUS
  <1>0. Articles \subseteq Nat /\ IsFiniteSet(Articles) /\ Oversample \in Nat
    BY QueryAssumption
  <1>1. CASE UNCHANGED queryVars
    BY <1>1 DEF queryVars, QueryInv, CorpusInv, SearchInv, SteadyIsFound, Servable, Matches
  <1>2. CASE \/ \E a \in Articles : \/ Rewrite(a) \/ Reembed(a) \/ PutPoint(a) \/ ShowArticle(a)
                                     \/ DropPoint(a) \/ HideArticle(a)
             \/ \E s \in Sources : Suspend(s) \/ RenameSite(s)
    <2>1. Changed
      BY <1>2 DEF Rewrite, Reembed, PutPoint, ShowArticle, DropPoint, HideArticle, Suspend, RenameSite
    <2>. QED  BY <1>2, <2>1, ChangedKeepsSearch, ChangesKeepCorpus DEF QueryInv
  <1>3. CASE Searching /\ (StartSearch \/ EmbedQuery \/ QueryPoints \/ Judge \/ EndSearch)
    <2>1. CorpusInv'
      BY <1>3 DEF Searching, QueryInv, CorpusInv
    <2>2. SearchInv
      BY DEF QueryInv
    <2>3. \A a : Servable(a)' = Servable(a)
      BY <1>3 DEF Searching, Servable
    <2>4. CASE StartSearch
      <3>1. CASE \E end \in Refusals : Ends(end) /\ steady' = {}
        BY <2>1, <3>1, EndsKeepsSearch DEF QueryInv
      <3>2. ASSUME NEW lang \in Tongues \cup {"any"}, NEW excluded \in kSubset(1, Domains) \cup {{}},
                   LET scope == {s \in Sources : site[s].active}
                   IN  /\ query' = [NoQuery EXCEPT !.at = IF scope = {} THEN "answered" ELSE "embed",
                                                   !.language = lang, !.excluded = excluded, !.scope = scope]
                       /\ steady' = {a \in Articles : Servable(a) /\ Matches(a)'}
            PROVE  SearchInv'
        <4>. DEFINE scope == {s \in Sources : site[s].active}
                    stage == IF scope = {} THEN "answered" ELSE "embed"
                    q == [[[[NoQuery EXCEPT !.at = stage] EXCEPT !.language = lang]
                            EXCEPT !.excluded = excluded] EXCEPT !.scope = scope]
        <4>1. query' = q /\ steady' = {a \in Articles : Servable(a) /\ Matches(a)'}
          BY <3>2
        <4>2. scope \subseteq Sources /\ excluded \subseteq Domains /\ stage \in {"answered", "embed"}
          BY DEF kSubset
        <4>3. scope = {} => stage = "answered"
          OBVIOUS
        <4>4. stage = "answered" => scope = {}
          OBVIOUS
        <4>. HIDE DEF scope, stage
        <4>5. /\ q \in QueryRow /\ q.at = stage /\ q.scope = scope /\ q.result = NoQuery.result
              /\ q.hits = NoQuery.hits /\ q.limit = NoQuery.limit
          BY <4>2, NoQueryOK DEF QueryRow, QueryStages
        <4>. HIDE DEF q
        <4>6. stage = "answered" => steady' = {}
          BY <4>1, <4>4, <4>5 DEF Matches
        <4>7. \A a \in steady' : a \in Articles /\ Servable(a)' /\ Matches(a)'
          BY <2>3, <4>1
        <4>8. query' \in QueryRow /\ query'.at = stage /\ query'.result = {} /\ query'.hits = {}
                /\ Cardinality(query'.result) <= query'.limit
          BY <4>1, <4>5, NoQueryOK
        <4>. QED  BY <4>2, <4>6, <4>7, <4>8 DEF SearchInv, SteadyIsFound
      <3>. QED  BY <2>1, <2>4, <3>1, <3>2 DEF StartSearch, QueryInv
    <2>5. CASE EmbedQuery
      <3>1. CASE \E end \in {"query_embedding_unavailable", "query_embedding_invalid"} : Ends(end)
        BY <2>1, <2>2, <2>5, <3>1, EndsKeepsSearch DEF EmbedQuery, QueryInv, SearchInv
      <3>2. CASE query' = [query EXCEPT !.at = "points"]
        <4>1. query \in QueryRow /\ query.at = "embed" /\ steady' = steady
          BY <2>2, <2>5 DEF EmbedQuery, SearchInv
        <4>2. /\ query' \in QueryRow /\ query'.at = "points" /\ query'.result = query.result
              /\ query'.hits = query.hits /\ query'.limit = query.limit /\ query'.scope = query.scope
              /\ query'.language = query.language /\ query'.excluded = query.excluded
          BY <3>2, <4>1 DEF QueryRow, QueryStages
        <4>3. \A a : Matches(a)' = Matches(a)
          BY <1>3, <4>2 DEF Matches, Searching
        <4>. QED  BY <2>1, <2>2, <2>3, <4>1, <4>2, <4>3 DEF QueryInv, SearchInv, SteadyIsFound
      <3>. QED  BY <2>5, <3>1, <3>2 DEF EmbedQuery
    <2>6. CASE QueryPoints
      <3>1. CASE \E end \in {"search_index_invalid", "search_index_unavailable"} : Ends(end)
        BY <2>1, <2>2, <2>6, <3>1, EndsKeepsSearch DEF QueryPoints, QueryInv, SearchInv
      <3>2. CASE ~\E end \in {"search_index_invalid", "search_index_unavailable"} : Ends(end)
        <4>. DEFINE matching == {a \in Articles : Matches(a)}
                    asked == Asked(query.limit)
                    found == Best(matching, asked)
                    full == Cardinality(found) = asked
                    q == [[[query EXCEPT !.at = "judge"] EXCEPT !.hits = found] EXCEPT !.full = full]
        <4>1. query \in QueryRow /\ query.at = "points" /\ steady' = steady /\ query' = q
          BY <2>2, <2>6, <3>2 DEF QueryPoints, SearchInv
        <4>2. matching \in SUBSET Nat /\ IsFiniteSet(matching) /\ asked \in Nat
          <5>1. query.limit = 1
            BY <4>1 DEF QueryRow
          <5>2. asked \in Nat
            BY <1>0, <5>1 DEF Asked
          <5>. QED  BY <1>0, <5>2, FS_Subset
        <4>. HIDE DEF matching, asked
        <4>3. /\ found \subseteq matching
              /\ \A a \in matching \ found : full /\ \A b \in found : b > a
          BY <4>2, BestOf
        <4>4. found \in SUBSET Articles /\ full \in BOOLEAN
          BY <4>3 DEF matching
        <4>. HIDE DEF found, full
        <4>5. /\ q \in QueryRow /\ q.at = "judge" /\ q.result = query.result /\ q.limit = query.limit
              /\ q.hits = found /\ q.full = full /\ q.scope = query.scope
              /\ q.language = query.language /\ q.excluded = query.excluded
          BY <4>1, <4>4 DEF QueryRow, QueryStages
        <4>. HIDE DEF q
        <4>6. \A a : Matches(a)' = Matches(a)
          BY <1>3, <4>1, <4>5 DEF Matches, Searching
        <4>7. \A a \in steady : a \in Articles /\ Servable(a) /\ Matches(a) /\ a \in matching
          BY <2>2, <4>1 DEF SearchInv, matching
        <4>8. query.result = {} /\ Cardinality(query.result) <= query.limit
          BY <2>2, <4>1 DEF SearchInv
        <4>. QED  BY <2>1, <2>2, <2>3, <4>1, <4>3, <4>5, <4>6, <4>7, <4>8
                  DEF QueryInv, SearchInv, SteadyIsFound
      <3>. QED  BY <3>1, <3>2
    <2>7. CASE Judge
      <3>. DEFINE serving == {a \in query.hits : Servable(a)}
                  best == Best(serving, query.limit)
                  q == [[query EXCEPT !.at = "answered"] EXCEPT !.result = best]
      <3>1. query \in QueryRow /\ query.at = "judge" /\ steady' = steady /\ query' = q
        BY <2>2, <2>7 DEF Judge, SearchInv
      <3>2. serving \in SUBSET Nat /\ IsFiniteSet(serving) /\ query.limit \in Nat
        <4>1. query.hits \subseteq Articles /\ query.limit = 1
          BY <3>1 DEF QueryRow
        <4>2. serving \in SUBSET Articles
          BY <4>1
        <4>. HIDE DEF serving
        <4>3. IsFiniteSet(serving)
          BY <1>0, <4>2, FS_Subset
        <4>. QED  BY <1>0, <4>1, <4>2, <4>3
      <3>3. serving \subseteq query.hits /\ query.hits \subseteq Articles
        BY <3>1 DEF QueryRow
      <3>4. ASSUME NEW a \in steady PROVE a \in serving \/ (query.full /\ \A b \in query.hits : b > a)
        BY <2>2, <3>1, <3>4 DEF SearchInv
      <3>. HIDE DEF serving
      <3>5. /\ best \subseteq serving /\ Cardinality(best) <= query.limit
            /\ \A a \in serving \ best : /\ Cardinality(best) = query.limit
                                         /\ \A b \in best : b > a
        BY <3>2, BestOf
      <3>. HIDE DEF best
      <3>6. /\ q \in QueryRow /\ q.at = "answered" /\ q.result = best /\ q.limit = query.limit
            /\ q.hits = query.hits /\ q.full = query.full
        BY <3>1, <3>3, <3>5 DEF QueryRow, QueryStages
      <3>. HIDE DEF q
      <3>7. ASSUME NEW a \in steady \ best
            PROVE  \/ Cardinality({b \in best : b > a}) = query.limit
                   \/ query.full /\ \A b \in query.hits : b > a
        <4>1. CASE a \in serving
          <5>1. Cardinality(best) = query.limit /\ \A b \in best : b > a
            BY <3>5, <3>7, <4>1
          <5>2. {b \in best : b > a} = best
            BY <5>1
          <5>. QED  BY <5>1, <5>2
        <4>. QED  BY <3>4, <3>7, <4>1
      <3>8. SteadyIsFound'
        BY <3>1, <3>6, <3>7 DEF SteadyIsFound
      <3>. QED  BY <2>1, <2>2, <3>1, <3>3, <3>5, <3>6, <3>8 DEF QueryInv, SearchInv
    <2>8. CASE EndSearch
      <3>1. query' = NoQuery /\ steady' = {}
        BY <2>8 DEF EndSearch
      <3>. QED  BY <2>1, <3>1, NoQueryOK DEF QueryInv, SearchInv, SteadyIsFound
    <2>. QED  BY <1>3, <2>4, <2>5, <2>6, <2>7, <2>8
  <1>. QED  BY <1>1, <1>2, <1>3 DEF QueryNext, StartSearch, EmbedQuery, QueryPoints, Judge, EndSearch

LEMMA QueryInvImplies == QueryInv => QueryTypeOK /\ SteadyIsFound
  <1>. SUFFICES ASSUME QueryInv PROVE QueryTypeOK /\ SteadyIsFound
    OBVIOUS
  <1>1. ExcerptFits
    <2>. SUFFICES ASSUME NEW length \in 1 .. 7, NEW blanks \in SUBSET {2, 4}, NEW pivot \in 0 .. length - 1
                  PROVE  LET e == Excerpt(length, pivot, blanks, 4)
                         IN  0 <= e.first /\ e.first <= e.end /\ e.end <= length /\ e.end - e.first <= 4
      BY DEF ExcerptFits
    <2>1. length \in Nat /\ pivot \in Nat /\ blanks \in SUBSET Nat /\ 4 \in Nat \ {0}
      OBVIOUS
    <2>. QED  BY <2>1, ExcerptWithin
  <1>. QED  BY <1>1 DEF QueryInv, CorpusInv, SearchInv, QueryTypeOK

\* An article that could be found throughout a search is found, or as many better ones
\* as were asked for are, or better candidates used up the oversampling.
THEOREM SteadyIsFoundHolds == QuerySpec => [](QueryTypeOK /\ SteadyIsFound)
  BY QueryInvImplies, QueryInvInit, QueryInvNext, PTL DEF QuerySpec

-----------------------------------------------------------------------------
(* MCP tokens: whom they were issued to, and what a grant under way holds.  *)

CodeRow == [state : RowStates, client : Clients \cup {None}, user : Members \cup {None},
            uri : {"none", "https", "loopback", "http"}, expired : BOOLEAN]
Serving == {"called", "searching", "served", "told"}
RequestRow == [at : {"idle", "entered", "exchange", "rotate", "swept"} \cup Serving,
               row : Codes \cup Pairs \cup {None}, seen : SUBSET Pairs,
               bearer : Pairs \cup ApiKeys \cup {None}, began : SUBSET (Pairs \cup ApiKeys)]
TokenRows == /\ code \in [Codes -> CodeRow]
             /\ access \in [Pairs -> Row] /\ refresh \in [Pairs -> Row]

\* The two tokens of a pair are issued together, to one client and user.
PairsMatch ==
  \A p \in Pairs : /\ access[p].state = "absent" <=> refresh[p].state = "absent"
                   /\ access[p].state = "absent" => access[p].from = None
                   /\ access[p].client = refresh[p].client /\ access[p].user = refresh[p].user

\* What a pair was issued for is used up, and what it replaced is revoked.
SourcesSpent ==
  \A p \in Pairs : /\ access[p].from \in Codes => code[access[p].from].state = "used"
                   /\ access[p].from \in Pairs =>
                        /\ refresh[access[p].from].state = "revoked"
                        /\ access[access[p].from].state # "live"

\* A grant under way holds the lock of a live row, alone; once its UPDATE has
\* run, the access token of that row is dead or about to be revoked.
Granting(r) ==
  /\ request[r].at = "exchange" => request[r].row \in Codes /\ code[request[r].row].state = "live"
  /\ request[r].at \in {"rotate", "swept"} =>
        request[r].row \in Pairs /\ refresh[request[r].row].state = "live"
  /\ request[r].at = "swept" =>
        request[r].row \in request[r].seen \/ access[request[r].row].state # "live"
  /\ \A p \in request[r].seen : access[p].state # "absent"
Alone == \A r, s \in Requests : Busy(r) /\ Busy(s) /\ request[r].row = request[s].row => r = s
GrantsOK == request \in [Requests -> RequestRow] /\ Alone /\ \A r \in Requests : Granting(r)

TokensInv == TokenRows /\ PairsMatch /\ SourcesSpent /\ GrantsUsedOnce /\ GrantsOK

LEMMA CodesArePairs == Codes \cap Pairs = {} /\ None \notin Codes \cup Pairs
  BY TokensAssumption DEF Codes, Pairs

LEMMA TokensInvInit == OAuthInit => TokensInv
  BY CodesArePairs DEF OAuthInit, TokensInv, TokenRows, PairsMatch, SourcesSpent, GrantsUsedOnce, GrantsOK,
     Alone, Granting, Busy, NoCode, NoToken, NoRequest, CodeRow, RequestRow, Row, RowStates

-----------------------------------------------------------------------------
(* Steps that only change what a request does.                             *)

\* A request that lets go of its grant, or does something else.
LEMMA RequestLeaves ==
  ASSUME TokensInv, NEW r \in Requests, NEW q \in RequestRow,
         q.at \in {"idle", "entered"} \cup Serving, q.seen \subseteq request[r].seen,
         request' = [request EXCEPT ![r] = q], UNCHANGED <<code, access, refresh>>
  PROVE  TokensInv'
  <1>1. q.at \notin {"exchange", "rotate", "swept"}
    BY DEF Serving
  <1>. QED
    BY <1>1 DEF TokensInv, TokenRows, PairsMatch, SourcesSpent, GrantsUsedOnce, GrantsOK, Alone, Granting, Busy, RequestRow

\* A tool call goes on, answers or gives up.
LEMMA ToolGoesOn ==
  ASSUME request \in [Requests -> RequestRow], NEW r \in Requests,
         CallTool(r) \/ ReadAccount(r) \/ FinishSearch(r)
  PROVE  /\ UNCHANGED <<client, code, access, refresh, active, apiKey>>
         /\ \E q \in RequestRow : /\ request' = [request EXCEPT ![r] = q]
                                  /\ q.at \in {"idle", "entered"} \cup Serving
                                  /\ q.seen \subseteq request[r].seen
  <1>1. Credentials \in SUBSET (Pairs \cup ApiKeys)
    BY DEF Credentials
  <1>2. NoRequest \in RequestRow /\ NoRequest.at = "idle" /\ NoRequest.seen = {}
    BY DEF NoRequest, RequestRow
  <1>3. ASSUME NEW at \in Serving, NEW b \in SUBSET (Pairs \cup ApiKeys)
        PROVE  LET q == [request[r] EXCEPT !.at = at, !.began = b]
               IN  q \in RequestRow /\ q.at = at /\ q.seen = request[r].seen
    BY DEF RequestRow
  <1>4. ASSUME NEW at \in Serving
        PROVE  LET q == [request[r] EXCEPT !.at = at]
               IN  q \in RequestRow /\ q.at = at /\ q.seen = request[r].seen
    BY DEF RequestRow
  <1>5. CASE CallTool(r)
    <2>1. request' = [request EXCEPT ![r] = NoRequest] \/
            \E at \in {"told", "called"} :
               request' = [request EXCEPT ![r] = [request[r] EXCEPT !.at = at, !.began = Credentials]]
      BY <1>5 DEF CallTool
    <2>2. CASE request' = [request EXCEPT ![r] = NoRequest]
      BY <1>2, <1>5, <2>2 DEF CallTool
    <2>3. ASSUME NEW at \in {"told", "called"},
                 request' = [request EXCEPT ![r] = [request[r] EXCEPT !.at = at, !.began = Credentials]]
          PROVE  \E q \in RequestRow : /\ request' = [request EXCEPT ![r] = q]
                                      /\ q.at \in {"idle", "entered"} \cup Serving
                                      /\ q.seen \subseteq request[r].seen
      <3>. DEFINE q == [request[r] EXCEPT !.at = at, !.began = Credentials]
      <3>1. at \in Serving
        BY DEF Serving
      <3>2. q \in RequestRow /\ q.at = at /\ q.seen = request[r].seen
        BY <1>1, <1>3, <3>1
      <3>. HIDE DEF q
      <3>. QED  BY <2>3, <3>1, <3>2 DEF q
    <2>. QED  BY <1>5, <2>1, <2>2, <2>3 DEF CallTool
  <1>6. CASE ReadAccount(r)
    BY <1>2, <1>4, <1>6 DEF ReadAccount, Serving
  <1>7. CASE FinishSearch(r)
    BY <1>2, <1>4, <1>7 DEF FinishSearch, Serving
  <1>. QED  BY <1>5, <1>6, <1>7

\* A grant that has locked a live row.
LEMMA RequestLocks ==
  ASSUME TokensInv, NEW r \in Requests, NEW at \in {"exchange", "rotate"}, NEW x \in Codes \cup Pairs,
         Unlocked(x), at = "exchange" => x \in Codes /\ code[x].state = "live",
         at = "rotate" => x \in Pairs /\ refresh[x].state = "live",
         request' = [request EXCEPT ![r] = [NoRequest EXCEPT !.at = at, !.row = x]],
         UNCHANGED <<code, access, refresh>>
  PROVE  TokensInv'
  <1>. DEFINE q == [NoRequest EXCEPT !.at = at, !.row = x]
  <1>1. q \in RequestRow /\ q.at = at /\ q.row = x /\ q.seen = {}
    BY DEF NoRequest, RequestRow
  <1>2. request' = [request EXCEPT ![r] = q]
    OBVIOUS
  <1>. HIDE DEF q
  <1>3. request' \in [Requests -> RequestRow]
    BY <1>1, <1>2 DEF TokensInv, GrantsOK
  <1>4. Alone'
    BY <1>1, <1>2 DEF TokensInv, GrantsOK, Alone, Busy, Unlocked, LockedBy
  <1>5. \A s \in Requests : Granting(s)'
    BY <1>1, <1>2 DEF TokensInv, GrantsOK, Granting
  <1>. QED  BY <1>3, <1>4, <1>5 DEF TokensInv, TokenRows, PairsMatch, SourcesSpent, GrantsUsedOnce, GrantsOK

LEMMA RequestSweeps == ASSUME TokensInv, NEW r \in Requests, RotateSweep(r) PROVE TokensInv'
  <1>. DEFINE p == request[r].row
              q == [request[r] EXCEPT !.at = "swept", !.seen = Swept(p)]
  <1>1. p \in Pairs /\ refresh[p].state = "live" /\ request[r] \in RequestRow
    BY DEF RotateSweep, TokensInv, GrantsOK, Granting
  <1>2. q \in RequestRow /\ q.at = "swept" /\ q.row = p /\ q.seen = Swept(p)
    BY <1>1 DEF RequestRow, Swept
  <1>3. p \in Swept(p) \/ access[p].state # "live"
    BY <1>1 DEF Swept, TokensInv, PairsMatch
  <1>4. \A x \in Swept(p) : access[x].state # "absent"
    BY DEF Swept
  <1>5. request' = [request EXCEPT ![r] = q] /\ UNCHANGED <<code, access, refresh>> /\ request[r].at = "rotate"
    BY <1>2 DEF RotateSweep
  <1>. HIDE DEF q
  <1>6. Alone'
    BY <1>2, <1>5 DEF TokensInv, GrantsOK, Alone, Busy
  <1>7. \A s \in Requests : Granting(s)'
    BY <1>1, <1>2, <1>3, <1>4, <1>5 DEF TokensInv, GrantsOK, Granting
  <1>. QED
    BY <1>2, <1>5, <1>6, <1>7 DEF TokensInv, TokenRows, PairsMatch, SourcesSpent, GrantsUsedOnce, GrantsOK

-----------------------------------------------------------------------------
(* Steps that write a token or a code.                                     *)

\* A pair is issued for x, and other rows end: nobody's row but r's own, and none
\* that was absent.
LEMMA PairIssued ==
  ASSUME TokensInv, NEW r \in Requests, Busy(r), NEW p \in Pairs, access[p].state = "absent",
         NEW new \in Row, new.state = "live", new.from = request[r].row,
         request' = [request EXCEPT ![r] = NoRequest],
         TokenRows', PairsMatch',
         access'[p] = new, refresh'[p].state = "live",
         \A x \in Pairs \ {p} : /\ access'[x].from = access[x].from
                                /\ access'[x].state # access[x].state =>
                                     access[x].state # "absent" /\ access'[x].state = "revoked",
         \A x \in Pairs \ {p, request[r].row} : refresh'[x] = refresh[x],
         request[r].row \in Pairs => /\ refresh'[request[r].row].state = "revoked"
                                     /\ access'[request[r].row].state # "live",
         \A d \in Codes \ {request[r].row} : code'[d] = code[d],
         request[r].row \in Codes => code'[request[r].row].state = "used"
  PROVE  TokensInv'
  <1>. DEFINE x0 == request[r].row
  <1>1. x0 \in Codes \cup Pairs /\ (x0 \in Codes => code[x0].state = "live")
          /\ (x0 \in Pairs => refresh[x0].state = "live" /\ x0 # p)
    <2>1. CASE request[r].at = "exchange"
      BY <2>1, CodesArePairs DEF TokensInv, GrantsOK, Granting
    <2>2. CASE request[r].at \in {"rotate", "swept"}
      <3>1. x0 \in Pairs /\ refresh[x0].state = "live"
        BY <2>2 DEF TokensInv, GrantsOK, Granting
      <3>2. refresh[p].state = "absent"
        BY DEF TokensInv, PairsMatch
      <3>. QED  BY <3>1, <3>2, CodesArePairs
    <2>. QED  BY <2>1, <2>2 DEF Busy
  <1>2. \A x \in Pairs : access[x].from # x0
    BY <1>1 DEF TokensInv, SourcesSpent
  <1>3. GrantsUsedOnce'
    <2>. SUFFICES ASSUME NEW x \in Pairs, NEW y \in Pairs, access'[x].from # None,
                         access'[x].from = access'[y].from
                  PROVE  x = y
      BY DEF GrantsUsedOnce
    <2>1. CASE x = p \/ y = p
      BY <1>2, <2>1
    <2>2. CASE x # p /\ y # p
      BY <2>2 DEF TokensInv, GrantsUsedOnce
    <2>. QED  BY <2>1, <2>2
  <1>4. SourcesSpent'
    <2>. SUFFICES ASSUME NEW x \in Pairs
                  PROVE  /\ access'[x].from \in Codes => code'[access'[x].from].state = "used"
                         /\ access'[x].from \in Pairs => /\ refresh'[access'[x].from].state = "revoked"
                                                         /\ access'[access'[x].from].state # "live"
      BY DEF SourcesSpent
    <2>1. CASE x = p
      BY <2>1, <1>1
    <2>2. CASE x # p
      <3>1. access'[x].from = access[x].from /\ access[x].from # x0
        BY <2>2, <1>2
      <3>2. CASE access[x].from \in Codes
        BY <3>1, <3>2, CodesArePairs DEF TokensInv, SourcesSpent
      <3>3. CASE access[x].from \in Pairs
        <4>. DEFINE y == access[x].from
        <4>1. refresh[y].state = "revoked" /\ access[y].state # "live" /\ y # p
          BY <3>3 DEF TokensInv, SourcesSpent, PairsMatch
        <4>. QED  BY <3>1, <3>3, <4>1, CodesArePairs
      <3>. QED  BY <3>1, <3>2, <3>3
    <2>. QED  BY <2>1, <2>2
  <1>5. NoRequest \in RequestRow /\ NoRequest.at = "idle" /\ NoRequest.seen = {}
    BY DEF NoRequest, RequestRow
  <1>6. request' \in [Requests -> RequestRow] /\ Alone'
    BY <1>5 DEF TokensInv, GrantsOK, Alone, Busy
  <1>7. ASSUME NEW s \in Requests PROVE Granting(s)'
    <2>1. CASE s = r
      BY <2>1, <1>5 DEF TokensInv, GrantsOK, Granting
    <2>2. CASE s # r
      <3>1. request'[s] = request[s] /\ Granting(s) /\ (Busy(s) => request[s].row # x0)
              /\ request[s] \in RequestRow
        BY <2>2 DEF TokensInv, GrantsOK, Alone
      <3>2. request[s].at \in {"rotate", "swept"} => request[s].row \in Pairs \ {p, x0}
        BY <3>1 DEF Busy, Granting, TokensInv, PairsMatch
      <3>3. request[s].at = "exchange" => request[s].row \in Codes \ {x0}
        BY <3>1 DEF Busy, Granting
      <3>4. \A x \in request[s].seen : access'[x].state # "absent"
        BY <3>1 DEF Granting, RequestRow
      <3>. QED  BY <3>1, <3>2, <3>3, <3>4 DEF Granting
    <2>. QED  BY <2>1, <2>2
  <1>. QED  BY <1>3, <1>4, <1>6, <1>7 DEF TokensInv, GrantsOK

LEMMA IssuedType ==
  ASSUME NEW x \in Codes \cup Pairs, NEW k \in Clients \cup {None}, NEW u \in Members \cup {None},
         NEW p \in Pairs
  PROVE  LET new == Issued(p, x, k, u)
         IN  new \in Row /\ new.state = "live" /\ new.from = x /\ new.client = k /\ new.user = u
  BY DEF Issued, Row, RowStates

LEMMA ExchangeIssues == ASSUME TokensInv, NEW r \in Requests, ExchangeCommit(r) PROVE TokensInv'
  <1>. DEFINE d == request[r].row
              new(p) == Issued(p, d, code[d].client, code[d].user)
  <1>1. Busy(r) /\ d \in Codes /\ d \notin Pairs /\ code[d] \in CodeRow
    BY CodesArePairs DEF ExchangeCommit, Busy, TokensInv, GrantsOK, Granting, TokenRows
  <1>2. PICK p \in Pairs : /\ access[p].state = "absent"
                           /\ code' = [code EXCEPT ![d].state = "used"]
                           /\ access' = [access EXCEPT ![p] = new(p)]
                           /\ refresh' = [refresh EXCEPT ![p] = new(p)]
    BY DEF ExchangeCommit, Fresh
  <1>3. new(p) \in Row /\ new(p).state = "live" /\ new(p).from = d
    BY <1>1, IssuedType DEF CodeRow
  <1>4. [code[d] EXCEPT !.state = "used"] \in CodeRow
    BY <1>1 DEF CodeRow, RowStates
  <1>. HIDE DEF new
  <1>5. TokenRows'
    BY <1>1, <1>2, <1>3, <1>4 DEF TokensInv, TokenRows
  <1>6. PairsMatch'
    BY <1>2, <1>3 DEF TokensInv, TokenRows, PairsMatch
  <1>7. code'[d].state = "used" /\ \A e \in Codes \ {d} : code'[e] = code[e]
    BY <1>1, <1>2 DEF TokensInv, TokenRows, CodeRow
  <1>8. access'[p] = new(p) /\ refresh'[p] = new(p)
          /\ \A x \in Pairs \ {p} : access'[x] = access[x] /\ refresh'[x] = refresh[x]
    BY <1>2 DEF TokensInv, TokenRows
  <1>9. request' = [request EXCEPT ![r] = NoRequest]
    BY DEF ExchangeCommit
  <1>10. access[p].state = "absent" /\ refresh'[p].state = "live"
    BY <1>2, <1>3, <1>8
  <1>11. \A x \in Pairs \ {p} : /\ access'[x].from = access[x].from
                                /\ access'[x].state # access[x].state =>
                                     access[x].state # "absent" /\ access'[x].state = "revoked"
    BY <1>8
  <1>12. /\ \A x \in Pairs \ {p, d} : refresh'[x] = refresh[x]
         /\ d \in Pairs => refresh'[d].state = "revoked" /\ access'[d].state # "live"
         /\ d \in Codes => code'[d].state = "used"
    BY <1>1, <1>7, <1>8
  <1>. QED  BY <1>1, <1>3, <1>5, <1>6, <1>7, <1>8, <1>9, <1>10, <1>11, <1>12, PairIssued

LEMMA RotateIssues == ASSUME TokensInv, NEW r \in Requests, RotateCommit(r) PROVE TokensInv'
  <1>. DEFINE p == request[r].row
              new(q) == Issued(q, p, refresh[p].client, refresh[p].user)
              ended(x) == IF x \in request[r].seen THEN [access[x] EXCEPT !.state = "revoked"] ELSE access[x]
  <1>1. /\ Busy(r) /\ p \in Pairs /\ p \notin Codes /\ refresh[p] \in Row /\ refresh[p].state = "live"
        /\ p \in request[r].seen \/ access[p].state # "live"
        /\ \A x \in request[r].seen : access[x].state # "absent"
    BY CodesArePairs DEF RotateCommit, Busy, TokensInv, GrantsOK, Granting, TokenRows
  <1>2. PICK q \in Pairs : /\ access[q].state = "absent"
                           /\ access' = [x \in Pairs |-> IF x = q THEN new(q) ELSE ended(x)]
                           /\ refresh' = [refresh EXCEPT ![p].state = "revoked", ![q] = new(q)]
    BY DEF RotateCommit, Fresh
  <1>3. new(q) \in Row /\ new(q).state = "live" /\ new(q).from = p
    BY <1>1, IssuedType DEF Row
  <1>4. p # q
    BY <1>1, <1>2 DEF TokensInv, PairsMatch
  <1>5. [refresh[p] EXCEPT !.state = "revoked"] \in Row
    BY <1>1 DEF Row, RowStates
  <1>6. ASSUME NEW x \in Pairs
        PROVE  /\ ended(x) \in Row /\ ended(x).from = access[x].from
               /\ ended(x).client = access[x].client /\ ended(x).user = access[x].user
               /\ ended(x).state = IF x \in request[r].seen THEN "revoked" ELSE access[x].state
    <2>1. access[x] \in Row
      BY DEF TokensInv, TokenRows
    <2>. QED  BY <2>1 DEF Row, RowStates
  <1>. HIDE DEF new, ended
  <1>7. access'[q] = new(q) /\ \A x \in Pairs \ {q} : access'[x] = ended(x)
    BY <1>2
  <1>8. /\ refresh'[q] = new(q) /\ refresh'[p] = [refresh[p] EXCEPT !.state = "revoked"]
        /\ \A x \in Pairs \ {p, q} : refresh'[x] = refresh[x]
    BY <1>1, <1>2, <1>4 DEF TokensInv, TokenRows
  <1>9. refresh'[p].state = "revoked" /\ refresh'[p].client = refresh[p].client
          /\ refresh'[p].user = refresh[p].user
    BY <1>1, <1>8 DEF Row
  <1>10. TokenRows'
    <2>1. access' \in [Pairs -> Row]
      BY <1>2, <1>3, <1>6
    <2>2. refresh' \in [Pairs -> Row]
      BY <1>2, <1>3, <1>5, <1>8 DEF TokensInv, TokenRows
    <2>. QED  BY <2>1, <2>2 DEF RotateCommit, TokensInv, TokenRows
  <1>11. PairsMatch'
    <2>. SUFFICES ASSUME NEW x \in Pairs
                  PROVE  /\ access'[x].state = "absent" <=> refresh'[x].state = "absent"
                         /\ access'[x].state = "absent" => access'[x].from = None
                         /\ access'[x].client = refresh'[x].client /\ access'[x].user = refresh'[x].user
      BY DEF PairsMatch
    <2>1. CASE x = q
      BY <1>3, <1>7, <1>8, <2>1
    <2>2. CASE x = p
      BY <1>1, <1>4, <1>6, <1>7, <1>9, <2>2 DEF TokensInv, PairsMatch
    <2>3. CASE x \notin {p, q}
      BY <1>1, <1>6, <1>7, <1>8, <2>3 DEF TokensInv, PairsMatch
    <2>. QED  BY <2>1, <2>2, <2>3
  <1>12. \A x \in Pairs \ {q} : /\ access'[x].from = access[x].from
                                /\ access'[x].state # access[x].state =>
                                     access[x].state # "absent" /\ access'[x].state = "revoked"
    BY <1>1, <1>6, <1>7
  <1>13. access'[p].state # "live"
    BY <1>1, <1>4, <1>6, <1>7
  <1>14. request' = [request EXCEPT ![r] = NoRequest] /\ code' = code
    BY DEF RotateCommit
  <1>15. access[q].state = "absent" /\ refresh'[q].state = "live" /\ access'[q] = new(q)
    BY <1>2, <1>3, <1>7, <1>8
  <1>16. /\ \A x \in Pairs \ {q, p} : refresh'[x] = refresh[x]
         /\ p \in Pairs => refresh'[p].state = "revoked" /\ access'[p].state # "live"
         /\ \A d \in Codes \ {p} : code'[d] = code[d]
         /\ p \in Codes => code'[p].state = "used"
    BY <1>1, <1>8, <1>9, <1>13, <1>14
  <1>. QED  BY <1>1, <1>3, <1>10, <1>11, <1>12, <1>14, <1>15, <1>16, PairIssued

\* A code appears, an access token is revoked or a refresh token that no grant
\* holds, or a row expires.
LEMMA RowEnds ==
  ASSUME TokensInv, UNCHANGED request, TokenRows',
         \A d \in Codes : code'[d].state # code[d].state => code[d].state = "absent",
         \A p \in Pairs :
            /\ access'[p].from = access[p].from
            /\ access'[p].client = access[p].client /\ access'[p].user = access[p].user
            /\ refresh'[p].client = refresh[p].client /\ refresh'[p].user = refresh[p].user
            /\ access'[p].state # access[p].state =>
                 access[p].state = "live" /\ access'[p].state = "revoked"
            /\ refresh'[p].state # refresh[p].state =>
                 refresh[p].state = "live" /\ refresh'[p].state = "revoked" /\ Unlocked(p)
  PROVE  TokensInv'
  <1>1. PairsMatch'
    BY DEF TokensInv, PairsMatch
  <1>2. GrantsUsedOnce'
    BY DEF TokensInv, GrantsUsedOnce
  <1>3. SourcesSpent'
    BY DEF TokensInv, SourcesSpent
  <1>4. ASSUME NEW r \in Requests PROVE Granting(r)'
    <2>1. Granting(r) /\ request'[r] = request[r] /\ request[r] \in RequestRow
      BY DEF TokensInv, GrantsOK
    <2>2. request[r].at \in {"rotate", "swept"} => ~Unlocked(request[r].row)
      BY DEF Unlocked, LockedBy, Busy
    <2>. QED  BY <2>1, <2>2 DEF Granting, RequestRow
  <1>5. request' \in [Requests -> RequestRow] /\ Alone'
    BY DEF TokensInv, GrantsOK, Alone, Busy
  <1>. QED  BY <1>1, <1>2, <1>3, <1>4, <1>5 DEF TokensInv, GrantsOK

-----------------------------------------------------------------------------
(* Every step.                                                             *)

LEMMA TokensInvNext == TokensInv /\ [OAuthNext]_oauthVars => TokensInv'
  <1>. SUFFICES ASSUME TokensInv, [OAuthNext]_oauthVars PROVE TokensInv'
    OBVIOUS
  <1>1. ASSUME UNCHANGED <<code, access, refresh, request>> PROVE TokensInv'
    BY <1>1 DEF TokensInv, TokenRows, PairsMatch, SourcesSpent, GrantsUsedOnce, GrantsOK, Alone, Granting, Busy
  <1>2. ASSUME NEW u \in Members, NEW k \in Clients, Authorize(u, k) PROVE TokensInv'
    <2>1. PICK a \in Authorizations, d \in Codes :
            /\ code[d].state = "absent"
            /\ code' = [code EXCEPT ![d] = [state |-> "live", client |-> k, user |-> u,
                                            uri |-> a.uri, expired |-> FALSE]]
      BY <1>2 DEF Authorize, Fresh
    <2>2. UNCHANGED <<access, refresh, request>>
      BY <1>2 DEF Authorize
    <2>3. [state |-> "live", client |-> k, user |-> u, uri |-> a.uri, expired |-> FALSE] \in CodeRow
      BY DEF Authorizations, CodeRow, RowStates
    <2>4. TokenRows'
      BY <2>1, <2>2, <2>3 DEF TokensInv, TokenRows
    <2>. QED  BY <2>1, <2>2, <2>4, RowEnds DEF TokensInv, TokenRows
  <1>3. ASSUME NEW r \in Requests, NEW k \in Clients, NEW d \in Codes, ExchangeLock(r, k, d) PROVE TokensInv'
    BY <1>3, RequestLocks DEF ExchangeLock, Live
  <1>4. ASSUME NEW r \in Requests, NEW k \in Clients, NEW p \in Pairs, RotateLock(r, k, p) PROVE TokensInv'
    BY <1>4, RequestLocks DEF RotateLock, Live
  <1>5. ASSUME NEW r \in Requests, Abort(r) \/ CallTool(r) \/ ReadAccount(r) \/ FinishSearch(r) PROVE TokensInv'
    <2>1. NoRequest \in RequestRow /\ NoRequest.at = "idle" /\ NoRequest.seen = {}
      BY DEF NoRequest, RequestRow
    <2>2. CASE Abort(r)
      BY <2>1, <2>2, RequestLeaves DEF Abort
    <2>3. CASE CallTool(r) \/ ReadAccount(r) \/ FinishSearch(r)
      <3>1. request \in [Requests -> RequestRow]
        BY DEF TokensInv, GrantsOK
      <3>. QED  BY <2>3, <3>1, ToolGoesOn, RequestLeaves
    <2>. QED  BY <1>5, <2>2, <2>3
  <1>6. ASSUME NEW r \in Requests, Enter(r) PROVE TokensInv'
    <2>1. PICK c \in Pairs \cup ApiKeys :
            request' = [request EXCEPT ![r] = [NoRequest EXCEPT !.at = "entered", !.bearer = c]]
      BY <1>6 DEF Enter
    <2>. DEFINE q == [NoRequest EXCEPT !.at = "entered", !.bearer = c]
    <2>2. q \in RequestRow /\ q.at = "entered" /\ q.seen = {}
      BY DEF NoRequest, RequestRow
    <2>. QED  BY <1>6, <2>1, <2>2, RequestLeaves DEF Enter
  <1>7. ASSUME NEW k \in Clients, NEW p \in Pairs, RevokeAccess(k, p) PROVE TokensInv'
    <2>1. access[p].state = "live" /\ access' = [access EXCEPT ![p].state = "revoked"]
            /\ UNCHANGED <<code, refresh, request>>
      BY <1>7 DEF RevokeAccess
    <2>2. TokenRows'
      BY <2>1 DEF TokensInv, TokenRows, Row, RowStates
    <2>3. \A x \in Pairs : /\ access'[x].from = access[x].from /\ access'[x].client = access[x].client
                           /\ access'[x].user = access[x].user
                           /\ access'[x].state # access[x].state =>
                                access[x].state = "live" /\ access'[x].state = "revoked"
      BY <2>1 DEF TokensInv, TokenRows, Row
    <2>. QED  BY <2>1, <2>2, <2>3, RowEnds
  <1>8. ASSUME NEW k \in Clients, NEW p \in Pairs, RevokeRefresh(k, p) PROVE TokensInv'
    <2>1. refresh[p].state = "live" /\ refresh' = [refresh EXCEPT ![p].state = "revoked"]
            /\ UNCHANGED <<code, access, request>> /\ Unlocked(p)
      BY <1>8 DEF RevokeRefresh
    <2>2. TokenRows'
      BY <2>1 DEF TokensInv, TokenRows, Row, RowStates
    <2>3. \A x \in Pairs : /\ refresh'[x].client = refresh[x].client /\ refresh'[x].user = refresh[x].user
                           /\ refresh'[x].state # refresh[x].state => x = p /\ refresh'[x].state = "revoked"
      BY <2>1 DEF TokensInv, TokenRows, Row
    <2>. QED  BY <2>1, <2>2, <2>3, RowEnds
  <1>9. CASE Expire
    <2>1. TokenRows' /\ UNCHANGED request
      <3>1. \A d \in Codes : [code[d] EXCEPT !.expired = TRUE] \in CodeRow
        BY DEF TokensInv, TokenRows, CodeRow
      <3>2. \A p \in Pairs : /\ [access[p] EXCEPT !.expired = TRUE] \in Row
                             /\ [refresh[p] EXCEPT !.expired = TRUE] \in Row
        BY DEF TokensInv, TokenRows, Row
      <3>. QED  BY <1>9, <3>1, <3>2 DEF Expire, TokensInv, TokenRows
    <2>2. \A d \in Codes : code'[d].state = code[d].state
      BY <1>9 DEF Expire, TokensInv, TokenRows, CodeRow
    <2>3. \A p \in Pairs : /\ access'[p].from = access[p].from /\ access'[p].client = access[p].client
                           /\ access'[p].user = access[p].user /\ access'[p].state = access[p].state
      BY <1>9 DEF Expire, TokensInv, TokenRows, Row
    <2>4. \A p \in Pairs : /\ refresh'[p].client = refresh[p].client /\ refresh'[p].user = refresh[p].user
                           /\ refresh'[p].state = refresh[p].state
      BY <1>9 DEF Expire, TokensInv, TokenRows, Row
    <2>. QED  BY <2>1, <2>2, <2>3, <2>4, RowEnds
  <1>10. ASSUME \/ \E k \in Clients : RegisterClient(k)
                \/ \E u \in Members : Disable(u) \/ RotateKey(u)
                \/ UNCHANGED oauthVars
         PROVE  TokensInv'
    BY <1>1, <1>10 DEF RegisterClient, Disable, RotateKey, oauthVars
  <1>. QED
    BY <1>2, <1>3, <1>4, <1>5, <1>6, <1>7, <1>8, <1>9, <1>10, ExchangeIssues, RequestSweeps, RotateIssues
    DEF OAuthNext

-----------------------------------------------------------------------------
(* A grant is spent.                                                       *)

\* A code and a refresh token yield one pair of tokens at most, and the access
\* token of a rotated pair is dead, though the token endpoint serves any number of
\* requests at once: each grant holds its row's lock, and the UPDATE of a rotation
\* reaches the access token that the rotated one came with.
THEOREM GrantsAreSpentHolds == OAuthSpec => []GrantsAreSpent
  <1>1. TokensInv => GrantsAreSpent
    BY DEF TokensInv, SourcesSpent, GrantsAreSpent, RotatedIsDead, Live
  <1>. QED  BY <1>1, TokensInvInit, TokensInvNext, PTL DEF OAuthSpec

-----------------------------------------------------------------------------
(* What a tool answers on.                                                 *)

\* No credential there was when a tool began takes the place of the request's.
ToolOK(r) ==
  request[r].at \in Serving =>
    \A new \in request[r].began : /\ new \in Pairs => access[new].state # "absent"
                                  /\ ~Replaces(new, request[r].bearer)
ToolsOK == \A r \in Requests : ToolOK(r)

LEMMA TokensAreNoKeys == Pairs \cap ApiKeys = {}
  BY TokensAssumption DEF Pairs, ApiKeys

LEMMA ToolsInit == OAuthInit => ToolsOK
  BY DEF OAuthInit, ToolsOK, ToolOK, NoRequest, Serving

\* What a pair was issued for does not change.
LEMMA SourcesStay ==
  ASSUME TokensInv, [OAuthNext]_oauthVars, NEW p \in Pairs, access[p].state # "absent"
  PROVE  access'[p].state # "absent" /\ access'[p].from = access[p].from
  <1>1. access \in [Pairs -> Row]
    BY DEF TokensInv, TokenRows
  <1>2. ASSUME NEW r \in Requests, ExchangeCommit(r)
        PROVE  access'[p].state # "absent" /\ access'[p].from = access[p].from
    <2>1. \E q \in Pairs : access[q].state = "absent" /\ \E row : access' = [access EXCEPT ![q] = row]
      BY <1>2 DEF ExchangeCommit, Fresh
    <2>. QED  BY <1>1, <2>1
  <1>3. ASSUME NEW r \in Requests, RotateCommit(r)
        PROVE  access'[p].state # "absent" /\ access'[p].from = access[p].from
    <2>1. access'[p] = [access[p] EXCEPT !.state = "revoked"] \/ access'[p] = access[p]
      BY <1>3 DEF RotateCommit, Fresh
    <2>. QED  BY <1>1, <2>1 DEF Row
  <1>4. ASSUME NEW k \in Clients, NEW q \in Pairs, RevokeAccess(k, q)
        PROVE  access'[p].state # "absent" /\ access'[p].from = access[p].from
    BY <1>1, <1>4 DEF RevokeAccess, Row
  <1>5. CASE Expire
    BY <1>1, <1>5 DEF Expire, Row
  <1>6. CASE UNCHANGED access
    BY <1>6
  <1>. QED
    BY <1>2, <1>3, <1>4, <1>5, <1>6
    DEF OAuthNext, oauthVars, RegisterClient, Authorize, ExchangeLock, RotateLock, RotateSweep, Abort, Enter,
        CallTool, ReadAccount, FinishSearch, RevokeRefresh, Disable, RotateKey

\* A request serves on, or by a step of its tool.
LEMMA ToolsServe ==
  ASSUME TokensInv, [OAuthNext]_oauthVars, NEW r \in Requests, request'[r].at \in Serving
  PROVE  request'[r] = request[r] \/ CallTool(r) \/ ReadAccount(r) \/ FinishSearch(r)
  <1>1. request \in [Requests -> RequestRow]
    BY DEF TokensInv, GrantsOK
  <1>2. ASSUME NEW t \in Requests, NEW q, request' = [request EXCEPT ![t] = q], t # r \/ q.at \notin Serving
        PROVE  request'[r] = request[r]
    BY <1>1, <1>2
  <1>3. /\ NoRequest.at \notin Serving
        /\ \A c : [NoRequest EXCEPT !.at = "entered", !.bearer = c].at \notin Serving
        /\ \A x : /\ [NoRequest EXCEPT !.at = "exchange", !.row = x].at \notin Serving
                  /\ [NoRequest EXCEPT !.at = "rotate", !.row = x].at \notin Serving
    BY DEF NoRequest, Serving
  <1>4. ASSUME NEW t \in Requests, NEW k \in Clients, NEW d \in Codes, ExchangeLock(t, k, d)
        PROVE  request'[r] = request[r]
    <2>1. request' = [request EXCEPT ![t] = [NoRequest EXCEPT !.at = "exchange", !.row = d]]
      BY <1>4 DEF ExchangeLock
    <2>. QED  BY <1>2, <1>3, <2>1
  <1>5. ASSUME NEW t \in Requests, NEW k \in Clients, NEW p \in Pairs, RotateLock(t, k, p)
        PROVE  request'[r] = request[r]
    <2>1. request' = [request EXCEPT ![t] = [NoRequest EXCEPT !.at = "rotate", !.row = p]]
      BY <1>5 DEF RotateLock
    <2>. QED  BY <1>2, <1>3, <2>1
  <1>6. ASSUME NEW t \in Requests, ExchangeCommit(t) \/ RotateCommit(t) \/ Abort(t)
        PROVE  request'[r] = request[r]
    BY <1>2, <1>3, <1>6 DEF ExchangeCommit, RotateCommit, Abort
  <1>7. ASSUME NEW t \in Requests, RotateSweep(t) PROVE request'[r] = request[r]
    <2>. DEFINE q == [request[t] EXCEPT !.at = "swept", !.seen = Swept(request[t].row)]
    <2>1. request' = [request EXCEPT ![t] = q]
      BY <1>1, <1>7 DEF RotateSweep
    <2>2. q.at \notin Serving
      BY <1>1 DEF RequestRow, Serving
    <2>. HIDE DEF q
    <2>. QED  BY <1>2, <2>1, <2>2
  <1>8. ASSUME NEW t \in Requests, Enter(t) PROVE request'[r] = request[r]
    <2>1. PICK c : request' = [request EXCEPT ![t] = [NoRequest EXCEPT !.at = "entered", !.bearer = c]]
      BY <1>8 DEF Enter
    <2>. QED  BY <1>2, <1>3, <2>1
  <1>9. ASSUME NEW t \in Requests \ {r}, CallTool(t) \/ ReadAccount(t) \/ FinishSearch(t)
        PROVE  request'[r] = request[r]
    <2>1. PICK q \in RequestRow : request' = [request EXCEPT ![t] = q]
      BY <1>1, <1>9, ToolGoesOn
    <2>. QED  BY <1>2, <2>1
  <1>10. UNCHANGED request \/ \E t \in Requests :
           \/ \E k \in Clients : (\E d \in Codes : ExchangeLock(t, k, d)) \/ (\E p \in Pairs : RotateLock(t, k, p))
           \/ ExchangeCommit(t) \/ RotateSweep(t) \/ RotateCommit(t) \/ Abort(t) \/ Enter(t)
           \/ CallTool(t) \/ ReadAccount(t) \/ FinishSearch(t)
    BY DEF OAuthNext, oauthVars, RegisterClient, Authorize, RevokeAccess, RevokeRefresh, Expire, Disable, RotateKey
  <1>. QED  BY <1>4, <1>5, <1>6, <1>7, <1>8, <1>9, <1>10

\* Nothing has replaced a credential on which a tool may begin: the access token
\* of a rotated pair is dead, and a key is its member's last one.
LEMMA NothingReplaces ==
  ASSUME TokensInv, NEW r \in Requests, Authenticated(r), NEW new \in Credentials
  PROVE  ~Replaces(new, request[r].bearer)
  <1>. DEFINE c == request[r].bearer
  <1>1. MemberOf(c) # None
    BY DEF Authenticated
  <1>2. CASE c \in Pairs
    <2>1. Live(access[c])
      BY <1>1, <1>2, TokensAreNoKeys DEF MemberOf, KeyValid
    <2>2. new \in Pairs => access[new].from # c
      BY <1>2, <2>1 DEF TokensInv, SourcesSpent, Live
    <2>. QED  BY <1>2, <2>2 DEF Replaces
  <1>3. CASE c \notin Pairs
    <2>1. c \in ApiKeys /\ apiKey[c[1]] = c[2]
      BY <1>1, <1>3 DEF MemberOf, KeyValid
    <2>2. new \in ApiKeys => new[2] <= apiKey[new[1]]
      BY TokensAreNoKeys DEF Credentials
    <2>3. c[2] \in {0, 1} /\ (new \in ApiKeys => new[2] \in {0, 1})
      BY <2>1 DEF ApiKeys
    <2>4. new \in ApiKeys /\ new[1] = c[1] => ~(new[2] > c[2])
      BY <2>1, <2>2, <2>3
    <2>. QED  BY <1>3, <2>4 DEF Replaces
  <1>. QED  BY <1>2, <1>3

LEMMA ToolsNext == TokensInv /\ ToolsOK /\ [OAuthNext]_oauthVars => ToolsOK'
  <1>. SUFFICES ASSUME TokensInv, ToolsOK, [OAuthNext]_oauthVars,
                       NEW r \in Requests, request'[r].at \in Serving,
                       NEW new \in request'[r].began
                PROVE  /\ new \in Pairs => access'[new].state # "absent"
                       /\ ~Replaces(new, request[r].bearer)'
    BY DEF ToolsOK, ToolOK
  <1>1. request \in [Requests -> RequestRow]
    BY DEF TokensInv, GrantsOK
  <1>2. ASSUME request'[r].bearer = request[r].bearer, new \in Pairs => access[new].state # "absent",
               ~Replaces(new, request[r].bearer)
        PROVE  /\ new \in Pairs => access'[new].state # "absent"
               /\ ~Replaces(new, request[r].bearer)'
    BY <1>2, SourcesStay DEF Replaces, Pairs, ApiKeys
  <1>3. CASE request'[r].bearer = request[r].bearer /\ request'[r].began = request[r].began /\ request[r].at \in Serving
    BY <1>2, <1>3 DEF ToolsOK, ToolOK
  <1>4. CASE CallTool(r)
    <2>1. ~(request' = [request EXCEPT ![r] = NoRequest])
      BY <1>1 DEF NoRequest, Serving
    <2>2. Authenticated(r) /\ \E at \in {"told", "called"} :
            request' = [request EXCEPT ![r].at = at, ![r].began = Credentials]
      BY <1>4, <2>1 DEF CallTool
    <2>3. request'[r].bearer = request[r].bearer /\ request'[r].began = Credentials
      BY <1>1, <2>2 DEF RequestRow
    <2>4. ~Replaces(new, request[r].bearer) /\ (new \in Pairs => access[new].state # "absent")
      BY <2>2, <2>3, NothingReplaces, TokensAreNoKeys DEF Credentials
    <2>. QED  BY <1>2, <2>3, <2>4
  <1>5. CASE ReadAccount(r) \/ FinishSearch(r)
    <2>1. ~(request' = [request EXCEPT ![r] = NoRequest])
      BY <1>1 DEF NoRequest, Serving
    <2>2. \E at : request' = [request EXCEPT ![r].at = at]
      BY <1>5, <2>1 DEF ReadAccount, FinishSearch
    <2>3. request[r].at \in Serving
      BY <1>5 DEF ReadAccount, FinishSearch, Serving
    <2>. QED  BY <1>1, <1>3, <2>2, <2>3 DEF RequestRow
  <1>. QED  BY <1>3, <1>4, <1>5, ToolsServe

\* A tool that answers began before anything took the place of the credential it
\* answers on, for any number of requests, grants, rotations and revocations that
\* overlap: the second authentication, in the tool, meets the rows of rotations
\* that were committed after the middleware's.
THEOREM ServedBeforeReplacedHolds == OAuthSpec => []ServedBeforeReplaced
  <1>1. ToolsOK => ServedBeforeReplaced
    BY DEF ToolsOK, ToolOK, ServedBeforeReplaced, Serving
  <1>. QED  BY <1>1, TokensInvInit, TokensInvNext, ToolsInit, ToolsNext, PTL DEF OAuthSpec

-----------------------------------------------------------------------------
(* Whom the rows belong to: a row that exists has a client and a user.      *)

Owned(r) == r.state # "absent" => r.client \in Clients /\ r.user \in Members
ClientsOK == /\ client = [k \in Clients |-> client[k]]
             /\ \A k \in Clients : client[k].state \in {"absent", "live"} /\ client[k].method \in AuthMethods
MembersOK == active \in [Members -> BOOLEAN] /\ apiKey \in [Members -> 0 .. 1]
RowsOwned == /\ ClientsOK /\ MembersOK
             /\ (\A d \in Codes : Owned(code[d])) /\ (\A p \in Pairs : Owned(access[p]))

LEMMA RowsOwnedInit == OAuthInit => RowsOwned
  BY DEF OAuthInit, RowsOwned, ClientsOK, MembersOK, Owned, NoClient, NoCode, NoToken, AuthMethods

\* The rows of codes and access tokens keep their owners, and what appears has some.
LEMMA OwnersStay ==
  ASSUME RowsOwned, UNCHANGED <<client, active, apiKey>>,
         \A d \in Codes : Owned(code[d]) => Owned(code'[d]),
         \A p \in Pairs : Owned(access[p]) => Owned(access'[p])
  PROVE  RowsOwned'
  BY DEF RowsOwned, ClientsOK, MembersOK

LEMMA RowsOwnedNext == TokensInv /\ RowsOwned /\ [OAuthNext]_oauthVars => RowsOwned'
  <1>. SUFFICES ASSUME TokensInv, RowsOwned, [OAuthNext]_oauthVars PROVE RowsOwned'
    OBVIOUS
  <1>1. ASSUME NEW k \in Clients, RegisterClient(k) PROVE RowsOwned'
    <2>1. PICK m \in Registrations :
            /\ m.method \in AuthMethods
            /\ client' = [client EXCEPT ![k] = [state |-> "live", uris |-> m.uris, method |-> m.method]]
      BY <1>1 DEF RegisterClient, Registrable
    <2>2. ClientsOK'
      BY <2>1 DEF RowsOwned, ClientsOK
    <2>. QED  BY <1>1, <2>2 DEF RegisterClient, RowsOwned, MembersOK, Owned
  <1>2. ASSUME NEW u \in Members, NEW k \in Clients, Authorize(u, k) PROVE RowsOwned'
    <2>1. PICK a \in Authorizations, d \in Codes :
            code' = [code EXCEPT ![d] = [state |-> "live", client |-> k, user |-> u,
                                         uri |-> a.uri, expired |-> FALSE]]
      BY <1>2 DEF Authorize
    <2>2. \A e \in Codes : Owned(code[e]) => Owned(code'[e])
      BY <2>1 DEF TokensInv, TokenRows, Owned
    <2>. QED  BY <1>2, <2>2, OwnersStay DEF Authorize
  <1>3. ASSUME NEW r \in Requests, ExchangeCommit(r) PROVE RowsOwned'
    <2>. DEFINE d == request[r].row
    <2>1. d \in Codes /\ code[d] \in CodeRow /\ code[d].state = "live"
      BY <1>3 DEF ExchangeCommit, TokensInv, GrantsOK, Granting, TokenRows
    <2>2. PICK p \in Pairs : /\ code' = [code EXCEPT ![d].state = "used"]
                             /\ access' = [access EXCEPT ![p] = Issued(p, d, code[d].client, code[d].user)]
      BY <1>3 DEF ExchangeCommit
    <2>3. Owned(code[d]) /\ Owned(Issued(p, d, code[d].client, code[d].user))
      BY <2>1 DEF RowsOwned, Owned, Issued
    <2>4. \A e \in Codes : Owned(code[e]) => Owned(code'[e])
      BY <2>1, <2>2, <2>3 DEF TokensInv, TokenRows, CodeRow, Owned
    <2>5. \A q \in Pairs : Owned(access[q]) => Owned(access'[q])
      BY <2>2, <2>3 DEF TokensInv, TokenRows
    <2>. QED  BY <1>3, <2>4, <2>5, OwnersStay DEF ExchangeCommit
  <1>4. ASSUME NEW r \in Requests, RotateCommit(r) PROVE RowsOwned'
    <2>. DEFINE p == request[r].row
                new(q) == Issued(q, p, refresh[p].client, refresh[p].user)
    <2>1. p \in Pairs /\ refresh[p].state = "live"
      BY <1>4 DEF RotateCommit, TokensInv, GrantsOK, Granting
    <2>2. PICK q \in Pairs :
            access' = [x \in Pairs |-> IF x = q THEN new(q)
                                       ELSE IF x \in request[r].seen
                                            THEN [access[x] EXCEPT !.state = "revoked"]
                                       ELSE access[x]]
      BY <1>4 DEF RotateCommit
    <2>3. Owned(new(q))
      BY <2>1 DEF TokensInv, PairsMatch, RowsOwned, Owned, Issued
    <2>4. \A x \in Pairs : x \in request[r].seen => access[x].state # "absent"
      BY <1>4 DEF TokensInv, GrantsOK, Granting
    <2>5. \A x \in Pairs : Owned(access[x]) => Owned(access'[x])
      <3>. HIDE DEF new
      <3>1. \A x \in Pairs : access[x] \in Row
        BY DEF TokensInv, TokenRows
      <3>. QED  BY <2>2, <2>3, <2>4, <3>1 DEF Owned, Row
    <2>. QED  BY <1>4, <2>5, OwnersStay DEF RotateCommit
  <1>5. ASSUME NEW k \in Clients, NEW p \in Pairs, RevokeAccess(k, p) PROVE RowsOwned'
    <2>1. \A x \in Pairs : Owned(access[x]) => Owned(access'[x])
      BY <1>5 DEF RevokeAccess, TokensInv, TokenRows, Row, Owned
    <2>. QED  BY <1>5, <2>1, OwnersStay DEF RevokeAccess
  <1>6. CASE Expire
    <2>1. \A d \in Codes : Owned(code[d]) => Owned(code'[d])
      BY <1>6 DEF Expire, TokensInv, TokenRows, CodeRow, Owned
    <2>2. \A x \in Pairs : Owned(access[x]) => Owned(access'[x])
      BY <1>6 DEF Expire, TokensInv, TokenRows, Row, Owned
    <2>. QED  BY <1>6, <2>1, <2>2, OwnersStay DEF Expire
  <1>7. ASSUME NEW u \in Members, Disable(u) \/ RotateKey(u) PROVE RowsOwned'
    <2>1. UNCHANGED <<client, code, access>>
      BY <1>7 DEF Disable, RotateKey
    <2>2. MembersOK'
      <3>1. CASE Disable(u)
        BY <3>1 DEF Disable, RowsOwned, MembersOK
      <3>2. CASE RotateKey(u)
        <4>1. 1 \in 0 .. 1
          OBVIOUS
        <4>. QED  BY <3>2, <4>1 DEF RotateKey, RowsOwned, MembersOK
      <3>. QED  BY <1>7, <3>1, <3>2
    <2>. QED  BY <2>1, <2>2 DEF RowsOwned, ClientsOK, Owned
  <1>8. ASSUME UNCHANGED <<client, code, access, active, apiKey>> PROVE RowsOwned'
    BY <1>8, OwnersStay
  <1>. QED
    BY <1>1, <1>2, <1>3, <1>4, <1>5, <1>6, <1>7, <1>8
    DEF OAuthNext, ExchangeLock, RotateLock, RotateSweep, Abort, Enter, CallTool, ReadAccount, FinishSearch,
        RevokeRefresh, oauthVars

\* Every row that exists belongs to one registered client and one member, and the
\* two tokens of a pair to the same.
LEMMA OAuthTyped == OAuthSpec => []OAuthTypeOK
  <1>1. TokensInv /\ RowsOwned => OAuthTypeOK
    BY DEF TokensInv, TokenRows, PairsMatch, RowsOwned, ClientsOK, MembersOK, Owned, CodeRow, OAuthTypeOK
  <1>. QED  BY <1>1, TokensInvInit, TokensInvNext, RowsOwnedInit, RowsOwnedNext, PTL DEF OAuthSpec

===============================================================================
