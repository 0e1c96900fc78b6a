------------------------------- MODULE Accounts -------------------------------
(***************************************************************************)
(* One member's Profile row: the API key that views rotate and hand out,   *)
(* the Stripe columns that webhooks write, and the settings form, which    *)
(* writes every column of the row it read (apps/core/views.py, models.py,  *)
(* stripe_webhooks.py, forms.py), with the invitation through which others *)
(* sign up.  An action is one transaction or statement; Stripe delivers an *)
(* event any number of times, in any order.                                *)
(***************************************************************************)
EXTENDS Integers, FiniteSets

CONSTANTS
    Events,         \* Stripe events about the member's customer
    Sessions,       \* web requests of the member and of guests
    MaxKeys         \* bound: API keys generated

Terminal == {"canceled", "unpaid", "incomplete_expired"}
Paid == {"active", "past_due"}

ASSUME AccountsAssumption ==
    /\ IsFiniteSet(Sessions) /\ MaxKeys \in Nat \ {0} /\ IsFiniteSet(Events)
    /\ Events \subseteq [created : Nat \ {0}, kind : {"updated", "deleted", "checkout"},
                         status : Terminal \cup Paid \cup {"incomplete"},
                         ending : BOOLEAN, ours : BOOLEAN, named : BOOLEAN]

VARIABLES
    profile,     \* the Profile row
    keys,        \* API keys generated so far
    handled,     \* StripeWebhookEvent rows
    missed,      \* history: events that found no profile
    session,     \* what each request is doing
    handedOut,   \* history: keys shown since the member last rotated
    overwritten, \* history: the settings form wrote a row that had changed
    joined       \* members who signed up on the invitation

accountVars == <<profile, keys, handled, missed, session, handedOut, overwritten, joined>>

-----------------------------------------------------------------------------
(* The row, and what an event says about it.                               *)

NoEvent == [created |-> 0, kind |-> "none"]
Idle == [at |-> "idle", event |-> NoEvent, copy |-> NoEvent]

\* The key of an old row, whose ciphertext is missing or was made with another
\* SECRET_KEY; keys are numbered from 1 as they are generated.
LegacyKey == 0

\* create_user_profile: a profile is born with a key; the key of any row may have
\* been shown to the member before.
AccountInit ==
    /\ profile \in [active : {TRUE}, exists : {TRUE}, key : {LegacyKey, 1},
                    customer : {FALSE}, subscription : {FALSE}, status : {"none"},
                    state : {"stranger"}, created : {0}, last : {NoEvent}]
    /\ keys = profile.key /\ handled = {} /\ missed = {}
    /\ handedOut \in SUBSET {profile.key}
    /\ session = [s \in Sessions |-> Idle]
    /\ overwritten = FALSE /\ joined = FALSE

\* _is_citeguild_subscription, _is_citeguild_checkout: one item of the
\* configured price; and the profile is found by customer or by metadata.
Concerns(e) == e.ours
Found(e) == profile.exists /\ (profile.customer \/ e.named)

StatusOf(e) == IF e.kind = "deleted" THEN "canceled" ELSE e.status

\* get_subscription_target_state, and _record_state, which keeps the state when
\* the status says nothing about it.
TargetState(e) ==
    IF StatusOf(e) \in Paid THEN (IF e.ending THEN "cancelled" ELSE "subscribed")
    ELSE IF StatusOf(e) \in Terminal THEN "churned" ELSE profile.state

\* Mutant: of two events of one second the later delivery wins.
StaleMutant(e) == e.created < profile.created

\* An event is older than the row, or is as old and would undo an ending.
Stale(e) ==
    \/ e.created < profile.created
    \/ /\ e.created = profile.created
       /\ profile.status \in Terminal /\ StatusOf(e) \notin Terminal

-----------------------------------------------------------------------------
(* Webhooks.  The event's row and its effect are one transaction, so a     *)
(* second delivery finds the row, and a failed one leaves none.            *)

Applied(e) ==
    [profile EXCEPT !.customer = TRUE, !.state = TargetState(e),
                    !.subscription = e.kind # "deleted",
                    !.status = StatusOf(e), !.created = e.created, !.last = e]

\* stripe_webhook: get_or_create of the event's row, which waits for a delivery
\* whose transaction is open.
FirstDelivery(e) == e \notin handled /\ \A s \in Sessions : session[s].event # e

\* apply_subscription_event.
SubscriptionEvent(e) ==
    /\ e.kind # "checkout" /\ FirstDelivery(e)
    /\ handled' = handled \cup {e}
    /\ missed' = IF Concerns(e) /\ Found(e) THEN missed ELSE missed \cup {e}
    /\ profile' = IF Concerns(e) /\ Found(e) /\ e # profile.last /\ ~Stale(e)
                  THEN Applied(e) ELSE profile
    /\ UNCHANGED <<keys, session, handedOut, overwritten, joined>>

\* handle_checkout_completed reads the row unlocked and then writes the two ids
\* it found different, whatever other events did in between.  If the row is gone
\* the transaction fails, and Stripe delivers the event again.
Ids(row) == [customer |-> row.customer, subscription |-> row.subscription]
CheckoutRead(s, e) ==
    /\ session[s].at = "idle" /\ e.kind = "checkout" /\ FirstDelivery(e)
    /\ IF Concerns(e) /\ Found(e)
       THEN /\ session' = [session EXCEPT ![s] = [at |-> "checkout", event |-> e, copy |-> Ids(profile)]]
            /\ UNCHANGED <<handled, missed>>
       ELSE /\ handled' = handled \cup {e} /\ missed' = missed \cup {e}
            /\ UNCHANGED session
    /\ UNCHANGED <<profile, keys, handedOut, overwritten, joined>>

CheckoutWrite(s) ==
    /\ session[s].at = "checkout"
    /\ LET e == session[s].event
           old == session[s].copy
       IN  IF profile.exists
           THEN /\ profile' = [profile EXCEPT !.customer = (@ \/ ~old.customer),
                                              !.subscription = (@ \/ ~old.subscription)]
                /\ handled' = handled \cup {e}
           ELSE UNCHANGED <<profile, handled>>
    /\ session' = [session EXCEPT ![s] = Idle]
    /\ UNCHANGED <<keys, missed, handedOut, overwritten, joined>>

-----------------------------------------------------------------------------
(* The member's requests.                                                  *)

SignedIn == profile.exists /\ profile.active

\* check_api_key against the stored hash; get_api_key, which opens the ciphertext.
KeyWorks(k) == profile.key = k
Opens(row) == row.key # LegacyKey

\* set_api_key: prefix, hash and ciphertext of a new key, in one UPDATE.
NewKey(row) == [row EXCEPT !.key = keys + 1]

\* views.rotate_api_key.
RotateApiKey ==
    /\ SignedIn /\ keys < MaxKeys
    /\ profile' = NewKey(profile) /\ keys' = keys + 1 /\ handedOut' = {keys + 1}
    /\ UNCHANGED <<handled, missed, session, overwritten, joined>>

\* _copyable_api_key: the key is shown if the ciphertext opens.
CopyPrompt(s) ==
    /\ session[s].at = "idle" /\ SignedIn
    /\ IF Opens(profile)
       THEN /\ handedOut' = handedOut \cup {profile.key} /\ UNCHANGED session
       ELSE /\ session' = [session EXCEPT ![s] = [Idle EXCEPT !.at = "prompt"]]
            /\ UNCHANGED handedOut
    /\ UNCHANGED <<profile, keys, handled, missed, overwritten, joined>>

\* Otherwise the row is locked, read again, and a key is made if still needed.
CopyLocked(s) ==
    /\ session[s].at = "prompt"
    /\ IF ~profile.exists THEN UNCHANGED <<profile, keys, handedOut>>
       ELSE IF Opens(profile)
       THEN /\ handedOut' = handedOut \cup {profile.key} /\ UNCHANGED <<profile, keys>>
       ELSE /\ keys < MaxKeys
            /\ profile' = NewKey(profile) /\ keys' = keys + 1
            /\ handedOut' = handedOut \cup {keys + 1}
    /\ session' = [session EXCEPT ![s] = Idle]
    /\ UNCHANGED <<handled, missed, overwritten, joined>>

\* UserSettingsView reads the row; ProfileUpdateForm.save writes all of it.
OpenSettings(s) ==
    /\ session[s].at = "idle" /\ SignedIn
    /\ session' = [session EXCEPT ![s] = [Idle EXCEPT !.at = "settings", !.copy = profile]]
    /\ UNCHANGED <<profile, keys, handled, missed, handedOut, overwritten, joined>>

SaveSettings(s) ==
    /\ session[s].at = "settings"
    /\ LET row == [session[s].copy EXCEPT !.active = profile.active]
       IN  /\ profile' = IF profile.exists THEN row ELSE profile
           /\ overwritten' = (overwritten \/ (profile.exists /\ row # profile))
    /\ session' = [session EXCEPT ![s] = Idle]
    /\ UNCHANGED <<keys, handled, missed, handedOut, joined>>

\* track_state_change, queued when the user was created: it runs late, or twice.
TrackSignup ==
    /\ profile.exists /\ profile' = [profile EXCEPT !.state = "signed_up"]
    /\ UNCHANGED <<keys, handled, missed, session, handedOut, overwritten, joined>>

\* delete_account, with everything that cascades from the user.
DeleteAccount ==
    /\ SignedIn
    /\ profile' = [profile EXCEPT !.exists = FALSE]
    /\ UNCHANGED <<keys, handled, missed, session, handedOut, overwritten, joined>>

\* An administrator disables the account.
DisableAccount ==
    /\ SignedIn
    /\ profile' = [profile EXCEPT !.active = FALSE]
    /\ UNCHANGED <<keys, handled, missed, session, handedOut, overwritten, joined>>

-----------------------------------------------------------------------------
(* Invitations.                                                            *)

\* valid_invitation: it exists, and its owner is active.
ValidInvitation == profile.exists /\ profile.active

\* A guest opens the signup page with the member's link, or posts its code.
OpenSignup(s) ==
    /\ session[s].at = "idle" /\ ~joined /\ ValidInvitation
    /\ session' = [session EXCEPT ![s] = [Idle EXCEPT !.at = "signup"]]
    /\ UNCHANGED <<profile, keys, handled, missed, handedOut, overwritten, joined>>

\* save_user of either adapter asks once more before a user is created.
CompleteSignup(s) ==
    /\ session[s].at = "signup"
    /\ joined' = (joined \/ ValidInvitation)
    /\ session' = [session EXCEPT ![s] = Idle]
    /\ UNCHANGED <<profile, keys, handled, missed, handedOut, overwritten>>

AccountNext ==
    \/ \E e \in Events : SubscriptionEvent(e)
    \/ \E s \in Sessions :
        \/ \E e \in Events : CheckoutRead(s, e)
        \/ CheckoutWrite(s) \/ CopyPrompt(s) \/ CopyLocked(s)
        \/ OpenSettings(s) \/ SaveSettings(s) \/ OpenSignup(s) \/ CompleteSignup(s)
    \/ RotateApiKey \/ TrackSignup \/ DeleteAccount \/ DisableAccount

AccountSpec == AccountInit /\ [][AccountNext]_accountVars

-----------------------------------------------------------------------------
(* Properties.                                                             *)

\* The types of the row, of the requests and of the history.
AccountTypeOK ==
    /\ profile.key \in 0 .. keys /\ keys \in 0 .. MaxKeys
    /\ profile.status \in Terminal \cup Paid \cup {"none", "incomplete"}
    /\ profile.state \in {"stranger", "signed_up", "subscribed", "cancelled", "churned"}
    /\ handled \subseteq Events /\ missed \subseteq handled
    /\ handedOut \subseteq 0 .. MaxKeys

\* The row's status is that of the newest subscription event that reached it,
\* and of an ending among the newest, whatever the order of deliveries and
\* however often they are repeated, as long as no settings form wrote back a
\* row it had read before an event.
LastEventWins ==
    LET reached == {e \in handled \ missed : e.kind # "checkout"}
        newest == {e \in reached : \A f \in reached : f.created <= e.created}
    IN  profile.exists /\ reached # {} /\ ~overwritten =>
          /\ profile.status \in {StatusOf(e) : e \in newest}
          /\ (\E e \in newest : StatusOf(e) \in Terminal) => profile.status \in Terminal

\* A key the member was shown keeps working until the member rotates it, and two
\* copies of the prompt agree on one new key.  A legacy key stops working when a
\* copied prompt replaces it, and the member has then been shown one that works.
\* (A settings form that wrote back an older row brings an older key back.)
ShownKeyWorks ==
    profile.exists /\ ~overwritten =>
      \A k \in handedOut : KeyWorks(k) \/ (k = LegacyKey /\ \E n \in handedOut : KeyWorks(n))

\* What a member's row says can be relied on: its subscription is the newest one
\* the webhooks told of, and the keys handed out for it work, a legacy key until
\* it is replaced.
ProfileIsCurrent == LastEventWins /\ ShownKeyWorks
=============================================================================
