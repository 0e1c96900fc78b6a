--------------------------- MODULE SafeFetch_proofs ---------------------------
(* Proofs about SafeFetch, for any number of calls, hosts, redirects,       *)
(* permits, blocks and ticks.                                              *)
EXTENDS SafeFetch, FiniteSetTheorems, TLAPS

-----------------------------------------------------------------------------
(* The strengthening.                                                      *)

Pinned == {"slot"} \cup Holding
CallRow == [at : Running \cup {"new", "done"}, url : Urls \cup {NoUrl},
            visited : SUBSET {Normalized(u) : u \in Urls}, redirects : 0 .. MaxRedirects,
            address : Addresses \cup {"none"}, state : States, wait : 0 .. Interval,
            transferred : 0 .. MaxBytes, body : 0 .. MaxBytes,
            result : {"none", "ok", "retryable", "permanent", "uncaught"}]

\* A pinned call knows its limiter's state: that of its host if the host has one,
\* and else the shared one, in which case the host cannot get one any more.
Limited(q, hosts) ==
  /\ q.state = IF q.url.host \in hosts THEN q.url.host ELSE Overflow
  /\ q.url.host \in hosts \cup {Overflow} \/ Cardinality(hosts) >= MaxTracked

\* A call has visited one URL more than it has followed redirects once its
\* target is pinned, and as many while it looks for the next.
CallOK(q, hosts) ==
  /\ q \in CallRow /\ IsFiniteSet(q.visited)
  /\ q.at \in {"new", "target"} => Cardinality(q.visited) = q.redirects
  /\ q.at \in Pinned =>
       /\ q.url \in Urls /\ q.address = "public" /\ ShapeError(q.url) = "none"
       /\ Normalized(q.url) \in q.visited /\ Cardinality(q.visited) = q.redirects + 1
       /\ Limited(q, hosts)

CallsOK == /\ call = [c \in Calls |-> call[c]] /\ \A c \in Calls : CallOK(call[c], tracked)
           /\ tracked \subseteq Names
LimiterOK == /\ concurrency \in Nat \ {0} /\ slots \in [States -> Nat]
             /\ age \in [States -> 0 .. Interval] /\ PermitsAccounted

\* Between the reading of the clock and the start, the sleeper of a state is alone
\* and has left to sleep what is missing of the interval.
SleepersOK ==
  \A c \in Calls : call[c].at = "sleep" =>
    /\ call[c].wait + age[call[c].state] = Interval
    /\ \A d \in Calls : call[d].at = "sleep" /\ call[d].state = call[c].state => c = d

FetchInv == CallsOK /\ LimiterOK /\ SleepersOK

LEMMA NewCallOK ==
  ASSUME NEW hosts PROVE CallOK(NewCall, hosts) /\ NewCall.at = "new" /\ NewCall.visited = {}
  BY FS_EmptySet, FetchAssumption DEF NewCall, CallOK, CallRow, Running, Pinned, Holding, States

LEMMA HoldersFinite == \A s \in States : IsFiniteSet(Holders(s))
  BY FS_Subset, FetchAssumption DEF Holders

LEMMA FetchInvInit == FetchInit => FetchInv
  <1>. SUFFICES ASSUME FetchInit PROVE FetchInv
    OBVIOUS
  <1>1. CallsOK
    BY NewCallOK DEF FetchInit, CallsOK
  <1>2. \A s \in States : Holders(s) = {}
    BY NewCallOK DEF FetchInit, Holders, Holding
  <1>3. concurrency \in Nat \ {0}
    BY FetchAssumption DEF FetchInit
  <1>4. LimiterOK
    BY <1>2, <1>3, FS_EmptySet, FetchAssumption DEF FetchInit, LimiterOK, PermitsAccounted
  <1>5. SleepersOK
    BY NewCallOK DEF FetchInit, SleepersOK
  <1>. QED  BY <1>1, <1>4, <1>5 DEF FetchInv

-----------------------------------------------------------------------------
(* What becomes of the permits.                                            *)

\* A call that neither takes nor gives back a permit.
LEMMA PermitsKept ==
  ASSUME PermitsAccounted, UNCHANGED <<concurrency, slots>>,
         \A c \in Calls : /\ call'[c].at \in Holding <=> call[c].at \in Holding
                          /\ call[c].at \in Holding => call'[c].state = call[c].state
  PROVE  PermitsAccounted'
  <1>1. \A s \in States : Holders(s)' = Holders(s)
    BY DEF Holders
  <1>. QED  BY <1>1 DEF PermitsAccounted

LEMMA PermitTaken ==
  ASSUME LimiterOK, NEW c \in Calls, call[c].at \notin Holding, call'[c].at \in Holding,
         NEW s \in States, call'[c].state = s, slots[s] > 0,
         slots' = [slots EXCEPT ![s] = @ - 1], UNCHANGED <<concurrency, age>>,
         \A d \in Calls \ {c} : call'[d] = call[d]
  PROVE  LimiterOK'
  <1>1. Holders(s)' = Holders(s) \cup {c} /\ c \notin Holders(s)
    BY DEF Holders
  <1>2. \A t \in States \ {s} : Holders(t)' = Holders(t)
    BY DEF Holders
  <1>3. Cardinality(Holders(s)') = Cardinality(Holders(s)) + 1
    BY <1>1, HoldersFinite, FS_AddElement
  <1>4. Cardinality(Holders(s)) \in Nat
    BY HoldersFinite, FS_CardinalityType
  <1>. QED  BY <1>2, <1>3, <1>4 DEF LimiterOK, PermitsAccounted

LEMMA PermitReleased ==
  ASSUME LimiterOK, NEW c \in Calls, call[c].at \in Holding, call'[c].at \notin Holding,
         NEW s \in States, call[c].state = s,
         slots' = [slots EXCEPT ![s] = @ + 1], UNCHANGED <<concurrency, age>>,
         \A d \in Calls \ {c} : call'[d] = call[d]
  PROVE  LimiterOK'
  <1>1. Holders(s)' = Holders(s) \ {c} /\ c \in Holders(s)
    BY DEF Holders
  <1>2. \A t \in States \ {s} : Holders(t)' = Holders(t)
    BY DEF Holders
  <1>3. Cardinality(Holders(s)') = Cardinality(Holders(s)) - 1
    BY <1>1, HoldersFinite, FS_RemoveElement
  <1>4. Cardinality(Holders(s)) \in Nat
    BY HoldersFinite, FS_CardinalityType
  <1>. QED  BY <1>2, <1>3, <1>4 DEF LimiterOK, PermitsAccounted

-----------------------------------------------------------------------------
(* Steps of one call.                                                      *)

\* The call of c becomes q.
LEMMA CallBecomes ==
  ASSUME FetchInv, NEW c \in Calls, NEW q, CallOK(q, tracked), call' = [call EXCEPT ![c] = q],
         UNCHANGED tracked
  PROVE  CallsOK' /\ call'[c] = q /\ \A d \in Calls \ {c} : call'[d] = call[d]
  BY DEF FetchInv, CallsOK

\* It goes on without a permit being taken or given back, and it does not sleep.
LEMMA CallGoesOn ==
  ASSUME FetchInv, NEW c \in Calls, NEW q, CallOK(q, tracked), call' = [call EXCEPT ![c] = q],
         q.at # "sleep", q.at \in Holding <=> call[c].at \in Holding,
         call[c].at \in Holding => q.state = call[c].state,
         UNCHANGED <<concurrency, tracked, slots, age>>
  PROVE  FetchInv'
  <1>1. CallsOK' /\ call'[c] = q /\ \A d \in Calls \ {c} : call'[d] = call[d]
    BY CallBecomes
  <1>2. LimiterOK'
    BY <1>1, PermitsKept DEF FetchInv, LimiterOK
  <1>3. SleepersOK'
    BY <1>1 DEF FetchInv, SleepersOK
  <1>. QED  BY <1>1, <1>2, <1>3 DEF FetchInv

\* It returns, and a permit that it holds is given back.
LEMMA CallEnds ==
  ASSUME FetchInv, NEW c \in Calls, NEW result \in {"ok", "retryable", "permanent", "uncaught"},
         NEW size \in 0 .. MaxBytes, EndedWith(c, result, size)
  PROVE  FetchInv'
  <1>. DEFINE q == [NewCall EXCEPT !.at = "done", !.result = result, !.body = size]
  <1>1. CallOK(q, tracked) /\ q.at = "done"
    BY NewCallOK DEF NewCall, CallOK, CallRow, Running, Pinned, Holding
  <1>2. call' = [call EXCEPT ![c] = q] /\ UNCHANGED <<concurrency, tracked, age>>
    BY DEF EndedWith
  <1>3. "done" \notin Holding
    BY DEF Holding
  <1>. HIDE DEF q
  <1>4. CallsOK' /\ call'[c] = q /\ \A d \in Calls \ {c} : call'[d] = call[d]
    BY <1>1, <1>2, CallBecomes
  <1>5. LimiterOK'
    <2>1. CASE call[c].at \in Holding
      <3>1. call[c].state \in States /\ slots' = [slots EXCEPT ![call[c].state] = @ + 1]
        BY <2>1 DEF EndedWith, FetchInv, CallsOK, CallOK, CallRow
      <3>. QED  BY <1>1, <1>2, <1>3, <1>4, <2>1, <3>1, PermitReleased DEF FetchInv
    <2>2. CASE call[c].at \notin Holding
      <3>1. slots' = slots
        BY <2>2 DEF EndedWith
      <3>. QED  BY <1>1, <1>2, <1>3, <1>4, <2>2, <3>1, PermitsKept DEF FetchInv, LimiterOK
    <2>. QED  BY <2>1, <2>2
  <1>6. SleepersOK'
    BY <1>1, <1>2, <1>4 DEF FetchInv, SleepersOK
  <1>. QED  BY <1>4, <1>5, <1>6 DEF FetchInv

LEMMA CallFails == ASSUME FetchInv, NEW c \in Calls, NEW error, Ended(c, error) PROVE FetchInv'
  <1>1. 0 \in 0 .. MaxBytes
    BY FetchAssumption
  <1>. QED  BY <1>1, CallEnds DEF Ended

-----------------------------------------------------------------------------
(* The target.                                                             *)

\* A validated answer begins with a public address.
LEMMA AnswerIsPublic ==
  ASSUME NEW u \in Urls, NEW answer \in AnswersOf(u), AnswerError(answer) = "none"
  PROVE  answer[1] = "public"
  <1>. DEFINE bad == {i \in DOMAIN answer : answer[i] # "public"}
  <1>1. \A a : AddressError(a) # "none"
    BY DEF AddressError
  <1>2. answer # <<>> /\ bad = {}
    <2>. HIDE DEF bad
    <2>. QED  BY <1>1 DEF AnswerError, bad
  <1>3. \/ answer = <<>>
        \/ \E a \in Addresses : answer = <<a>>
        \/ \E a, b \in Addresses : answer = <<a, b>>
    BY DEF AnswersOf, Answers, Addresses
  <1>4. 1 \in DOMAIN answer
    BY <1>2, <1>3
  <1>. QED  BY <1>2, <1>4

LEMMA TargetPinned == ASSUME FetchInv, NEW c \in Calls, PinTarget(c) PROVE FetchInv'
  <1>1. PICK u \in Urls :
          /\ ShapeError(u) = "none" /\ Normalized(u) \notin call[c].visited
          /\ \E answer \in AnswersOf(u) :
               /\ AnswerError(answer) = "none"
               /\ call' = [call EXCEPT ![c].at = "slot", ![c].url = u, ![c].address = answer[1],
                                       ![c].visited = @ \cup {Normalized(u)},
                                       ![c].state = StateFor(u.host)]
          /\ tracked' = IF StateFor(u.host) = Overflow THEN tracked ELSE tracked \cup {u.host}
    BY DEF PinTarget
  <1>. DEFINE q == [call[c] EXCEPT !.at = "slot", !.url = u, !.address = "public",
                                   !.visited = @ \cup {Normalized(u)}, !.state = StateFor(u.host)]
  <1>2. /\ call[c] \in CallRow /\ IsFiniteSet(call[c].visited) /\ call[c].at = "target"
        /\ Cardinality(call[c].visited) = call[c].redirects
        /\ call = [d \in Calls |-> call[d]]
        /\ UNCHANGED <<concurrency, slots, age>>
    BY DEF PinTarget, FetchInv, CallsOK, CallOK
  <1>3. call' = [call EXCEPT ![c] = q]
    BY <1>1, <1>2, AnswerIsPublic
  <1>4. u.host \in Names /\ StateFor(u.host) \in States
    BY FetchAssumption DEF StateFor, States
  <1>5. IsFiniteSet(tracked) /\ Cardinality(tracked) \in Nat /\ MaxTracked \in Nat
    BY FetchAssumption, FS_Subset, FS_CardinalityType DEF FetchInv, CallsOK
  <1>6. IsFiniteSet(q.visited) /\ Cardinality(q.visited) = q.redirects + 1
    BY <1>1, <1>2, FS_AddElement DEF CallRow
  <1>7. q \in CallRow /\ q.at = "slot" /\ q.url = u /\ q.address = "public"
          /\ Normalized(u) \in q.visited /\ q.state = StateFor(u.host)
    BY <1>2, <1>4 DEF CallRow, Running, Addresses
  <1>. HIDE DEF q
  <1>8. \/ StateFor(u.host) = Overflow /\ tracked' = tracked
             /\ (u.host = Overflow \/ (u.host \notin tracked /\ Cardinality(tracked) >= MaxTracked))
        \/ StateFor(u.host) = u.host /\ u.host \in tracked /\ tracked' = tracked
        \/ StateFor(u.host) = u.host /\ u.host # Overflow /\ tracked' = tracked \cup {u.host}
             /\ Cardinality(tracked) < MaxTracked
    <2>1. tracked' = IF StateFor(u.host) = Overflow THEN tracked ELSE tracked \cup {u.host}
      BY <1>1
    <2>2. CASE u.host \in tracked
      BY <2>1, <2>2 DEF StateFor
    <2>3. CASE u.host \notin tracked /\ Cardinality(tracked) < MaxTracked
      BY <2>1, <2>3 DEF StateFor
    <2>4. CASE u.host \notin tracked /\ ~(Cardinality(tracked) < MaxTracked)
      BY <1>5, <2>1, <2>4 DEF StateFor
    <2>. QED  BY <2>2, <2>3, <2>4
  <1>9. Limited(q, tracked')
    BY <1>7, <1>8 DEF Limited
  <1>10. CallOK(q, tracked')
    BY <1>1, <1>6, <1>7, <1>9 DEF CallOK
  <1>11. \A d \in Calls : CallOK(call[d], tracked')
    <2>. SUFFICES ASSUME NEW d \in Calls, call[d].at \in Pinned PROVE Limited(call[d], tracked')
      BY DEF FetchInv, CallsOK, CallOK
    <2>1. Limited(call[d], tracked)
      BY DEF FetchInv, CallsOK, CallOK
    <2>. QED  BY <1>5, <1>8, <2>1 DEF Limited
  <1>12. call'[c] = q /\ \A d \in Calls \ {c} : call'[d] = call[d]
    BY <1>2, <1>3
  <1>13. CallsOK'
    <2>1. call' = [d \in Calls |-> call'[d]]
      BY <1>2, <1>3
    <2>2. tracked' \subseteq Names
      BY <1>1, <1>4 DEF FetchInv, CallsOK
    <2>. QED  BY <1>10, <1>11, <1>12, <2>1, <2>2 DEF CallsOK
  <1>14. {"slot", "target"} \cap Holding = {}
    BY DEF Holding
  <1>15. LimiterOK'
    BY <1>2, <1>7, <1>12, <1>14, PermitsKept DEF FetchInv, LimiterOK
  <1>16. SleepersOK'
    BY <1>2, <1>7, <1>12 DEF FetchInv, SleepersOK
  <1>. QED  BY <1>13, <1>15, <1>16 DEF FetchInv

-----------------------------------------------------------------------------
(* The limiter and the clock.                                              *)

LEMMA SlotTaken == ASSUME FetchInv, NEW c \in Calls, TakeSlot(c) PROVE FetchInv'
  <1>. DEFINE q == [call[c] EXCEPT !.at = "pace"]
  <1>1. call[c].at = "slot" /\ call[c] \in CallRow /\ call[c].state \in States
    BY DEF TakeSlot, FetchInv, CallsOK, CallOK, CallRow
  <1>2. CallOK(q, tracked) /\ q.at = "pace" /\ q.state = call[c].state
    <2>1. CallOK(call[c], tracked)
      BY DEF FetchInv, CallsOK
    <2>. QED  BY <1>1, <2>1 DEF CallOK, CallRow, Pinned, Holding, Running, Limited
  <1>3. call' = [call EXCEPT ![c] = q] /\ UNCHANGED <<concurrency, tracked, age>>
          /\ slots' = [slots EXCEPT ![call[c].state] = @ - 1] /\ slots[call[c].state] > 0
    BY DEF TakeSlot
  <1>. HIDE DEF q
  <1>4. CallsOK' /\ call'[c] = q /\ \A d \in Calls \ {c} : call'[d] = call[d]
    BY <1>2, <1>3, CallBecomes
  <1>5. "slot" \notin Holding /\ "pace" \in Holding
    BY DEF Holding
  <1>6. LimiterOK'
    BY <1>1, <1>2, <1>3, <1>4, <1>5, PermitTaken DEF FetchInv
  <1>7. SleepersOK'
    BY <1>2, <1>3, <1>4 DEF FetchInv, SleepersOK
  <1>. QED  BY <1>4, <1>6, <1>7 DEF FetchInv

LEMMA Paced == ASSUME FetchInv, NEW c \in Calls, Pace(c) PROVE FetchInv'
  <1>. DEFINE w == Interval - age[call[c].state]
              q == [call[c] EXCEPT !.at = "sleep", !.wait = w]
  <1>1. /\ call[c].at = "pace" /\ call[c] \in CallRow /\ call[c].state \in States
        /\ CallOK(call[c], tracked) /\ age[call[c].state] \in 0 .. Interval /\ Interval \in Nat
    BY FetchAssumption DEF Pace, FetchInv, CallsOK, CallOK, CallRow, LimiterOK
  <1>2. w \in 0 .. Interval /\ w + age[call[c].state] = Interval
    BY <1>1
  <1>. HIDE DEF w
  <1>3. CallOK(q, tracked) /\ q.at = "sleep" /\ q.state = call[c].state /\ q.wait = w
    BY <1>1, <1>2 DEF CallOK, CallRow, Pinned, Holding, Running, Limited
  <1>4. call' = [call EXCEPT ![c] = q] /\ UNCHANGED <<concurrency, tracked, slots, age>>
    BY DEF Pace, w
  <1>. HIDE DEF q
  <1>5. CallsOK' /\ call'[c] = q /\ \A d \in Calls \ {c} : call'[d] = call[d]
    BY <1>3, <1>4, CallBecomes
  <1>6. "sleep" \in Holding /\ "pace" \in Holding
    BY DEF Holding
  <1>7. LimiterOK'
    BY <1>1, <1>3, <1>4, <1>5, <1>6, PermitsKept DEF FetchInv, LimiterOK
  <1>8. SleepersOK'
    <2>1. \A d \in Calls \ {c} : call[d].at = "sleep" => call[d].state # call[c].state
      BY DEF Pace, TimingFree
    <2>. QED  BY <1>2, <1>3, <1>4, <1>5, <2>1 DEF FetchInv, SleepersOK
  <1>. QED  BY <1>5, <1>7, <1>8 DEF FetchInv

\* A start resets the time of its state, which had reached the interval.
LEMMA Started ==
  ASSUME FetchInv, NEW c \in Calls, Start(c)
  PROVE  FetchInv' /\ \A s \in States : age'[s] < age[s] => age[s] = Interval
  <1>. DEFINE q == [call[c] EXCEPT !.at = "connect"]
              s == call[c].state
  <1>1. /\ call[c].at = "sleep" /\ call[c] \in CallRow /\ s \in States /\ call[c].wait = 0
        /\ CallOK(call[c], tracked) /\ Interval \in Nat
    BY FetchAssumption DEF Start, FetchInv, CallsOK, CallOK, CallRow
  <1>2. CallOK(q, tracked) /\ q.at = "connect" /\ q.state = s
    BY <1>1 DEF CallOK, CallRow, Pinned, Holding, Running, Limited
  <1>3. call' = [call EXCEPT ![c] = q] /\ UNCHANGED <<concurrency, tracked, slots>>
          /\ age' = [age EXCEPT ![s] = 0]
    BY DEF Start
  <1>. HIDE DEF q
  <1>4. CallsOK' /\ call'[c] = q /\ \A d \in Calls \ {c} : call'[d] = call[d]
    BY <1>2, <1>3, CallBecomes
  <1>5. "sleep" \in Holding /\ "connect" \in Holding
    BY DEF Holding
  <1>6. age \in [States -> 0 .. Interval] /\ age' \in [States -> 0 .. Interval] /\ age[s] = Interval
    BY <1>1, <1>3 DEF FetchInv, LimiterOK, SleepersOK
  <1>7. LimiterOK'
    BY <1>1, <1>2, <1>3, <1>4, <1>5, <1>6, PermitsKept DEF FetchInv, LimiterOK
  <1>8. SleepersOK'
    <2>. SUFFICES ASSUME NEW d \in Calls, call'[d].at = "sleep"
                  PROVE  /\ call'[d].wait + age'[call'[d].state] = Interval
                         /\ \A e \in Calls : call'[e].at = "sleep" /\ call'[e].state = call'[d].state => d = e
      BY DEF SleepersOK
    <2>1. d # c /\ call'[d] = call[d]
      BY <1>2, <1>4
    <2>2. call[d].state # s /\ call[d].state \in States
      BY <1>1, <2>1 DEF FetchInv, SleepersOK, CallsOK, CallOK, CallRow
    <2>3. age'[call'[d].state] = age[call[d].state]
      BY <1>3, <1>6, <2>1, <2>2
    <2>. QED  BY <1>2, <1>4, <2>1, <2>3 DEF FetchInv, SleepersOK
  <1>9. \A t \in States : age'[t] < age[t] => age[t] = Interval
    BY <1>1, <1>3, <1>6
  <1>. QED  BY <1>4, <1>7, <1>8, <1>9 DEF FetchInv

LEMMA Ticked == ASSUME FetchInv, Tick PROVE FetchInv' /\ \A s \in States : ~(age'[s] < age[s])
  <1>. DEFINE q(c) == [call[c] EXCEPT !.wait = IF @ > 0 THEN @ - 1 ELSE 0]
  <1>1. /\ age' = [s \in States |-> IF age[s] < Interval THEN age[s] + 1 ELSE age[s]]
        /\ call' = [c \in Calls |-> q(c)]
        /\ UNCHANGED <<concurrency, tracked, slots>>
    BY DEF Tick
  <1>2. Interval \in Nat /\ age \in [States -> 0 .. Interval]
    BY FetchAssumption DEF FetchInv, LimiterOK
  <1>3. ASSUME NEW c \in Calls
        PROVE  /\ CallOK(q(c), tracked) /\ q(c).at = call[c].at /\ q(c).state = call[c].state
               /\ call[c].wait \in 0 .. Interval /\ call[c].state \in States
               /\ q(c).wait = IF call[c].wait > 0 THEN call[c].wait - 1 ELSE 0
    <2>1. CallOK(call[c], tracked) /\ call[c] \in CallRow
      BY DEF FetchInv, CallsOK, CallOK
    <2>. QED  BY <1>2, <2>1 DEF CallOK, CallRow, Pinned, Holding, Running, Limited
  <1>. HIDE DEF q
  <1>4. CallsOK'
    BY <1>1, <1>3 DEF FetchInv, CallsOK
  <1>5. age' \in [States -> 0 .. Interval]
    BY <1>1, <1>2
  <1>6. LimiterOK'
    BY <1>1, <1>3, <1>5, PermitsKept DEF FetchInv, LimiterOK
  <1>7. SleepersOK'
    <2>. SUFFICES ASSUME NEW c \in Calls, call'[c].at = "sleep"
                  PROVE  /\ call'[c].wait + age'[call'[c].state] = Interval
                         /\ \A d \in Calls : call'[d].at = "sleep" /\ call'[d].state = call'[c].state => c = d
      BY DEF SleepersOK
    <2>1. call[c].at = "sleep" /\ call[c].wait + age[call[c].state] = Interval
      BY <1>1, <1>3 DEF FetchInv, SleepersOK
    <2>2. call'[c].wait + age'[call'[c].state] = Interval
      BY <1>1, <1>2, <1>3, <2>1
    <2>3. \A d \in Calls : call'[d].at = "sleep" /\ call'[d].state = call'[c].state => c = d
      BY <1>1, <1>3, <2>1 DEF FetchInv, SleepersOK
    <2>. QED  BY <2>2, <2>3
  <1>8. \A s \in States : ~(age'[s] < age[s])
    BY <1>1, <1>2
  <1>. QED  BY <1>4, <1>6, <1>7, <1>8 DEF FetchInv

-----------------------------------------------------------------------------
(* The response.                                                           *)

LEMMA Redirected == ASSUME FetchInv, NEW c \in Calls, Redirect(c) PROVE FetchInv'
  <1>. DEFINE q == [call[c] EXCEPT !.at = "target", !.url = NoUrl, !.address = "none",
                                   !.state = Overflow, !.redirects = @ + 1]
  <1>1. /\ call[c].at = "connect" /\ call[c] \in CallRow /\ call[c].state \in States
        /\ CallOK(call[c], tracked) /\ call[c].redirects < MaxRedirects /\ MaxRedirects \in Nat
    BY FetchAssumption DEF Redirect, FetchInv, CallsOK, CallOK, CallRow
  <1>2. /\ IsFiniteSet(call[c].visited) /\ Cardinality(call[c].visited) = call[c].redirects + 1
        /\ call[c].redirects \in 0 .. MaxRedirects
    BY <1>1 DEF CallOK, CallRow, Pinned, Holding
  <1>3. CallOK(q, tracked) /\ q.at = "target"
    <2>1. call[c].redirects + 1 \in 0 .. MaxRedirects
      BY <1>1, <1>2
    <2>2. q \in CallRow /\ q.at = "target" /\ q.visited = call[c].visited
            /\ q.redirects = call[c].redirects + 1
      BY <1>1, <2>1 DEF CallRow, Running, States, Addresses
    <2>3. "target" \notin Pinned
      BY DEF Pinned, Holding
    <2>. HIDE DEF q
    <2>. QED  BY <1>2, <2>2, <2>3 DEF CallOK
  <1>4. call' = [call EXCEPT ![c] = q] /\ UNCHANGED <<concurrency, tracked, age>>
          /\ slots' = [slots EXCEPT ![call[c].state] = @ + 1]
    BY DEF Redirect
  <1>. HIDE DEF q
  <1>5. CallsOK' /\ call'[c] = q /\ \A d \in Calls \ {c} : call'[d] = call[d]
    BY <1>3, <1>4, CallBecomes
  <1>6. "connect" \in Holding /\ "target" \notin Holding
    BY DEF Holding
  <1>7. LimiterOK'
    BY <1>1, <1>3, <1>4, <1>5, <1>6, PermitReleased DEF FetchInv
  <1>8. SleepersOK'
    BY <1>3, <1>4, <1>5 DEF FetchInv, SleepersOK
  <1>. QED  BY <1>5, <1>7, <1>8 DEF FetchInv

\* A response that is read, or a block of it that is.
LEMMA BodyGrows ==
  ASSUME FetchInv, NEW c \in Calls, call[c].at \in {"connect", "plain", "compressed"},
         NEW at \in {"plain", "compressed"}, NEW t \in 0 .. MaxBytes, NEW b \in 0 .. MaxBytes,
         call' = [call EXCEPT ![c] = [call[c] EXCEPT !.at = at, !.transferred = t, !.body = b]],
         UNCHANGED <<concurrency, tracked, slots, age>>
  PROVE  FetchInv'
  <1>. DEFINE q == [call[c] EXCEPT !.at = at, !.transferred = t, !.body = b]
  <1>1. CallOK(call[c], tracked)
    BY DEF FetchInv, CallsOK
  <1>2. CallOK(q, tracked) /\ q.at = at /\ q.state = call[c].state
    BY <1>1 DEF CallOK, CallRow, Pinned, Holding, Running, Limited
  <1>3. {"connect", "plain", "compressed"} \subseteq Holding
    BY DEF Holding
  <1>. HIDE DEF q
  <1>. QED  BY <1>2, <1>3, CallGoesOn DEF q

LEMMA BlockRead ==
  ASSUME FetchInv, NEW c \in Calls, ReadPlain(c) \/ ReadCompressed(c) \/ EndCompressed(c) \/ AcceptResponse(c)
  PROVE  FetchInv'
  <1>. DEFINE t == call[c].transferred
              b == call[c].body
  <1>1. /\ call[c] \in CallRow /\ t \in 0 .. MaxBytes /\ b \in 0 .. MaxBytes /\ MaxBytes \in Nat
        /\ call = [d \in Calls |-> call[d]]
    BY FetchAssumption DEF FetchInv, CallsOK, CallOK, CallRow
  <1>2. CASE AcceptResponse(c)
    <2>1. PICK r \in Responses : HeadError(r) = "none" /\ call' = [call EXCEPT ![c].at = r.encoding]
      BY <1>2 DEF AcceptResponse
    <2>2. r.encoding \in {"plain", "compressed"}
      <3>. SUFFICES ASSUME r.encoding = "other" PROVE HeadError(r) # "none"
        BY <2>1 DEF Responses
      <3>1. CASE r.status = "temporary"
        BY <3>1 DEF HeadError
      <3>2. CASE r.status = "error"
        BY <3>2 DEF HeadError
      <3>3. CASE r.status = "ok" /\ ~r.allowedType
        BY <3>3 DEF HeadError
      <3>4. CASE r.status = "ok" /\ r.allowedType /\ r.length = "over"
        BY <3>4 DEF HeadError
      <3>5. CASE r.status = "ok" /\ r.allowedType /\ r.length # "over"
        BY <3>5 DEF HeadError
      <3>. QED  BY <3>1, <3>2, <3>3, <3>4, <3>5 DEF Responses
    <2>3. call' = [call EXCEPT ![c] = [call[c] EXCEPT !.at = r.encoding, !.transferred = t, !.body = b]]
      BY <1>1, <2>1 DEF CallRow
    <2>. QED  BY <1>1, <1>2, <2>2, <2>3, BodyGrows DEF AcceptResponse
  <1>3. CASE ReadPlain(c)
    <2>1. PICK n \in 0 .. (MaxBytes + 1 - b) :
            IF n = 0 THEN EndedWith(c, "ok", b)
            ELSE IF b + n > MaxBytes THEN Ended(c, "body_too_large")
            ELSE /\ call' = [call EXCEPT ![c].body = @ + n]
                 /\ UNCHANGED <<concurrency, tracked, slots, age>>
      BY <1>3 DEF ReadPlain
    <2>2. CASE n = 0
      BY <1>1, <2>1, <2>2, CallEnds
    <2>3. CASE n # 0 /\ b + n > MaxBytes
      BY <2>1, <2>3, CallFails
    <2>4. CASE n # 0 /\ ~(b + n > MaxBytes)
      <3>1. call' = [call EXCEPT ![c] = [call[c] EXCEPT !.at = "plain", !.transferred = t, !.body = b + n]]
        BY <1>1, <1>3, <2>1, <2>4 DEF CallRow, ReadPlain
      <3>2. b + n \in 0 .. MaxBytes
        BY <1>1, <2>4
      <3>. QED  BY <1>1, <1>3, <2>1, <2>4, <3>1, <3>2, BodyGrows DEF ReadPlain
    <2>. QED  BY <2>2, <2>3, <2>4
  <1>4. CASE ReadCompressed(c)
    <2>1. PICK n \in 1 .. (MaxBytes + 1 - t), decoded \in 0 .. (MaxBytes + 1 - b) :
            IF t + n > MaxBytes \/ b + decoded > MaxBytes THEN Ended(c, "body_too_large")
            ELSE /\ call' = [call EXCEPT ![c].transferred = @ + n, ![c].body = @ + decoded]
                 /\ UNCHANGED <<concurrency, tracked, slots, age>>
      BY <1>4 DEF ReadCompressed
    <2>2. CASE t + n > MaxBytes \/ b + decoded > MaxBytes
      BY <2>1, <2>2, CallFails
    <2>3. CASE ~(t + n > MaxBytes \/ b + decoded > MaxBytes)
      <3>. DEFINE q == [call[c] EXCEPT !.at = "compressed", !.transferred = t + n, !.body = b + decoded]
      <3>1. call' = [call EXCEPT ![c].transferred = @ + n, ![c].body = @ + decoded]
        BY <2>1, <2>3
      <3>2. call[c].at = "compressed"
        BY <1>4 DEF ReadCompressed
      <3>3. call'[c] = q
        BY <1>1, <3>1, <3>2 DEF CallRow
      <3>4. \A d \in Calls \ {c} : call'[d] = call[d]
        BY <1>1, <3>1
      <3>5. call' = [d \in Calls |-> call'[d]]
        BY <1>1, <3>1
      <3>6. call' = [call EXCEPT ![c] = q]
        <4>. HIDE DEF q
        <4>. QED  BY <1>1, <3>3, <3>4, <3>5
      <3>7. t + n \in 0 .. MaxBytes /\ b + decoded \in 0 .. MaxBytes
        BY <1>1, <2>3
      <3>. QED  BY <1>1, <1>4, <2>1, <2>3, <3>6, <3>7, BodyGrows DEF ReadCompressed
    <2>. QED  BY <2>2, <2>3
  <1>5. CASE EndCompressed(c)
    <2>1. PICK flushed \in 0 .. (MaxBytes + 1 - b), whole \in BOOLEAN :
            \/ b + flushed > MaxBytes /\ Ended(c, "body_too_large")
            \/ b + flushed <= MaxBytes /\ whole /\ EndedWith(c, "ok", b + flushed)
            \/ b + flushed <= MaxBytes /\ ~whole /\ Ended(c, "invalid_content_encoding")
      BY <1>5 DEF EndCompressed
    <2>2. CASE b + flushed <= MaxBytes /\ whole /\ EndedWith(c, "ok", b + flushed)
      BY <1>1, <2>2, CallEnds
    <2>. QED  BY <2>1, <2>2, CallFails
  <1>. QED  BY <1>2, <1>3, <1>4, <1>5

-----------------------------------------------------------------------------
(* Every step.                                                             *)

LEMMA FetchInvNext ==
  ASSUME FetchInv, [FetchNext]_fetchVars
  PROVE  FetchInv' /\ \A s \in States : age'[s] < age[s] => age[s] = Interval
  <1>0. \A s \in States : age[s] \in Int
    BY FetchAssumption DEF FetchInv, LimiterOK
  <1>1. CASE UNCHANGED fetchVars
    <2>1. CallsOK'
      BY <1>1 DEF fetchVars, FetchInv, CallsOK
    <2>2. LimiterOK'
      BY <1>1, PermitsKept DEF fetchVars, FetchInv, LimiterOK
    <2>3. SleepersOK'
      BY <1>1 DEF fetchVars, FetchInv, SleepersOK
    <2>. QED  BY <1>0, <1>1, <2>1, <2>2, <2>3 DEF FetchInv, fetchVars
  <1>2. CASE Tick
    BY <1>2, Ticked
  <1>3. ASSUME NEW c \in Calls, Start(c)
        PROVE  FetchInv' /\ \A s \in States : age'[s] < age[s] => age[s] = Interval
    BY <1>3, Started
  <1>4. ASSUME NEW c \in Calls, Step(c), ~Start(c) PROVE FetchInv' /\ age' = age
    <2>1. age' = age
      BY <1>4 DEF Step, Fetch, RefuseTarget, PinTarget, TakeSlot, SlotTimeout, Pace, TransportFails,
         Redirect, RedirectRefused, RedirectRaises, RefuseResponse, AcceptResponse, ReadPlain, ReadCompressed,
         EndCompressed, ReadFails, CorruptStream, Ended, EndedWith
    <2>2. CASE Fetch(c)
      <3>. DEFINE q == [call[c] EXCEPT !.at = "target"]
      <3>1. CallOK(call[c], tracked) /\ call[c].at = "new"
        BY <2>2 DEF Fetch, FetchInv, CallsOK
      <3>2. CallOK(q, tracked) /\ q.at = "target"
        BY <3>1 DEF CallOK, CallRow, Pinned, Holding, Running
      <3>3. {"new", "target"} \cap Holding = {}
        BY DEF Holding
      <3>4. call' = [call EXCEPT ![c] = q] /\ UNCHANGED <<concurrency, tracked, slots, age>>
        BY <2>2 DEF Fetch
      <3>. HIDE DEF q
      <3>. QED  BY <2>1, <3>1, <3>2, <3>3, <3>4, CallGoesOn
    <2>3. CASE RefuseTarget(c) \/ SlotTimeout(c) \/ TransportFails(c) \/ RedirectRefused(c)
                 \/ RefuseResponse(c) \/ ReadFails(c) \/ CorruptStream(c)
      <3>1. \E error : Ended(c, error)
        BY <2>3 DEF RefuseTarget, SlotTimeout, TransportFails, RedirectRefused, RefuseResponse,
           ReadFails, CorruptStream
      <3>. QED  BY <2>1, <3>1, CallFails
    <2>4. CASE ReadPlain(c) \/ ReadCompressed(c) \/ EndCompressed(c) \/ AcceptResponse(c)
      BY <2>1, <2>4, BlockRead
    <2>5. CASE PinTarget(c) \/ TakeSlot(c) \/ Pace(c) \/ Redirect(c)
      BY <2>1, <2>5, TargetPinned, SlotTaken, Paced, Redirected
    <2>6. CASE RedirectRaises(c)
      <3>1. 0 \in 0 .. MaxBytes
        BY FetchAssumption
      <3>. QED  BY <2>1, <2>6, <3>1, CallEnds DEF RedirectRaises
    <2>. QED  BY <1>4, <2>2, <2>3, <2>4, <2>5, <2>6 DEF Step
  <1>. QED  BY <1>0, <1>1, <1>2, <1>3, <1>4 DEF FetchNext, Idle

-----------------------------------------------------------------------------
(* Theorems.                                                               *)

\* Every call and every state of the limiter keeps its type; no more permits are
\* free than the client has.
THEOREM FetchTypeCorrect == FetchSpec => []FetchTypeOK
  <1>1. FetchInv => FetchTypeOK
    <2>. SUFFICES ASSUME FetchInv PROVE FetchTypeOK
      OBVIOUS
    <2>1. \A s \in States : Cardinality(Holders(s)) \in Nat
      BY HoldersFinite, FS_CardinalityType
    <2>2. slots \in [States -> 0 .. concurrency]
      BY <2>1 DEF FetchInv, LimiterOK, PermitsAccounted
    <2>3. age \in [States -> 0 .. Interval] /\ tracked \subseteq Names
      BY DEF FetchInv, LimiterOK, CallsOK
    <2>4. \A c \in Calls : call[c] \in CallRow
      BY DEF FetchInv, CallsOK, CallOK
    <2>. QED  BY <2>2, <2>3, <2>4 DEF FetchTypeOK, CallRow
  <1>. QED  BY <1>1, FetchInvInit, FetchInvNext, PTL DEF FetchSpec

\* No host is contacted by more calls at once than its concurrency allows, and no
\* permit is lost or made up (DomainRateLimiter): the calls of one host share one
\* state, its own or the overflow, and that state's permits are accounted for.
THEOREM PermitsHoldAlways == FetchSpec => []PermitsHold
  <1>1. FetchInv => PermitsHold
    <2>. SUFFICES ASSUME FetchInv PROVE PermitsHold
      OBVIOUS
    <2>1. ASSUME NEW h \in Names
          PROVE  Cardinality({c \in Calls : call[c].at \in Holding /\ call[c].url.host = h}) <= concurrency
      <3>. DEFINE s == IF h \in tracked THEN h ELSE Overflow
                  H == {c \in Calls : call[c].at \in Holding /\ call[c].url.host = h}
      <3>1. s \in States
        BY DEF States
      <3>2. H \subseteq Holders(s)
        BY DEF Holders, FetchInv, CallsOK, CallOK, Limited, Pinned
      <3>3. Cardinality(H) <= Cardinality(Holders(s)) /\ Cardinality(H) \in Nat
        BY <3>1, <3>2, HoldersFinite, FS_Subset, FS_CardinalityType
      <3>4. /\ Cardinality(Holders(s)) \in Nat /\ slots[s] \in Nat /\ concurrency \in Nat
            /\ slots[s] + Cardinality(Holders(s)) = concurrency
        BY <3>1, HoldersFinite, FS_CardinalityType DEF FetchInv, LimiterOK, PermitsAccounted
      <3>. HIDE DEF s, H
      <3>5. Cardinality(H) <= concurrency
        BY <3>3, <3>4
      <3>. QED  BY <3>5 DEF H
    <2>. QED  BY <2>1 DEF PermitsHold, WithinConcurrency, FetchInv, LimiterOK
  <1>. QED  BY <1>1, FetchInvInit, FetchInvNext, PTL DEF FetchSpec

\* Only public addresses are contacted, on a URL that is new in its call, whatever
\* the resolver answers and wherever redirects lead (_build_target).
THEOREM ContactsArePublicAlways == FetchSpec => []ContactsArePublic
  <1>1. FetchInv => ContactsArePublic
    BY DEF FetchInv, CallsOK, CallOK, Pinned, ContactsArePublic
  <1>. QED  BY <1>1, FetchInvInit, FetchInvNext, PTL DEF FetchSpec

\* Requests of one limiter state start at least the minimum interval apart: only a
\* sleeper starts, it is alone in its state, and it has slept what was missing.
THEOREM StartsArePacedAlways == FetchSpec => StartsArePaced
  <1>1. FetchInv /\ [FetchNext]_fetchVars
          => [\A s \in States : age'[s] < age[s] => age[s] = Interval]_fetchVars
    BY FetchInvNext
  <1>. QED  BY <1>1, FetchInvInit, FetchInvNext, PTL DEF FetchSpec, StartsArePaced
=============================================================================
