-------------------------- MODULE DirectBatchProofs --------------------------
(***************************************************************************)
(* What holds of a batch of any length, with any number of workers, in all *)
(* four SDKs.                                                              *)
(***************************************************************************)
EXTENDS DirectBatch, TLAPS

LEMMA ReadTypes ==
  ASSUME NEW s \in SDK, NEW d \in Document
  PROVE  Read(s, d) \in Verdict \cup {"invalid_response"}
<1>1. ASSUME NEW score PROVE Judge(d.choice, score) \in Verdict \cup {"invalid_response"}
  BY DEF Judge, Verdict
<1> QED
  BY <1>1 DEF Read, GoReads, TypeScriptReads, JavaReads, PythonReads, SDK

LEMMA BreaksTypes ==
  ASSUME TypeOK, NEW stage \in Call, NEW cause \in Cause
  PROVE  Breaks(stage, cause) \in
           {"provider_error", "provider_timeout", "invalid_response", Thrown, None}
BY DEF TypeOK, Breaks, GoBreaks, TypeScriptBreaks, JavaBreaks, PythonBreaks, SDK

\* Only a call that runs out of time may be without end.
LEMMA BreaksOtherwise ==
  ASSUME TypeOK, NEW stage \in Call, NEW cause \in Cause \ {"timeout"}
  PROVE  Breaks(stage, cause) \in {"provider_error", "invalid_response", Thrown}
BY DEF TypeOK, Breaks, GoBreaks, TypeScriptBreaks, JavaBreaks, PythonBreaks, SDK,
       Cause

LEMMA ItemTypes ==
  ASSUME TypeOK, NEW i \in 1 .. Len(items)
  PROVE  items[i] \in Item
<1>1. items \in Seq(Item)
  BY BatchAssumption DEF TypeOK
<1> QED
  BY <1>1

LEMMA LocalTypes ==
  ASSUME NEW item \in Item
  PROVE  /\ Local(item) \in LocalError \cup {Thrown, None}
         /\ Local(item) = None <=> item.local = "fine"
BY DEF Local, Item, LocalError, Thrown, None

LEMMA InitInv == Init => IInv
<1> SUFFICES ASSUME Init PROVE IInv
  OBVIOUS
<1>1. items \in Seq(Item) /\ Len(items) \in Nat
  <2>1. items \in Batches
    BY DEF Init
  <2> QED
    BY <2>1, BatchAssumption
<1>2. /\ sdk \in SDK /\ items \in Batches
      /\ next = 0
      /\ at = [w \in Worker |-> 0]
      /\ call = [w \in Worker |-> "none"]
      /\ results = [i \in 1 .. Len(items) |-> None]
      /\ sent = [i \in 1 .. Len(items) |-> 0]
      /\ batch = "running"
      /\ context = "live"
  BY DEF Init
<1>3. TypeOK
  <2>1. next \in 0 .. Len(items) /\ at \in [Worker -> 0 .. Len(items)]
    BY <1>1, <1>2
  <2>2. call \in [Worker -> Call]
    BY <1>2 DEF Call
  <2>3. /\ results \in [1 .. Len(items) -> Outcome \cup {None}]
        /\ sent \in [1 .. Len(items) -> Nat]
    BY <1>2
  <2> QED
    BY <1>2, <2>1, <2>2, <2>3 DEF TypeOK
<1>4. Handed
  BY <1>1, <1>2 DEF Handed
<1>5. Asked /\ Settled /\ Complete /\ NothingLeftRunning
  BY <1>1, <1>2 DEF Asked, Settled, Complete, NothingLeftRunning
<1> QED
  BY <1>3, <1>4, <1>5 DEF IInv

LEMMA TakeInv ==
  ASSUME IInv, NEW w \in Worker, Take(w)
  PROVE  IInv'
<1> DEFINE n == next + 1
<1>1. /\ batch = "running" /\ call[w] = "none" /\ next < Len(items)
      /\ at' = [at EXCEPT ![w] = n]
      /\ call' = [call EXCEPT ![w] = "taken"]
      /\ next' = n
      /\ UNCHANGED <<sdk, items, results, sent, batch, context>>
  BY DEF Take
<1>2. items \in Seq(Item) /\ Len(items) \in Nat /\ next \in Nat
  BY BatchAssumption DEF IInv, TypeOK
<1>3. n \in 1 .. Len(items) /\ results[n] = None /\ sent[n] = 0
  <2>1. n \in 1 .. Len(items) /\ n > next
    BY <1>1, <1>2
  <2> QED
    BY <1>2, <2>1 DEF IInv, Handed, Asked
<1>4. \A v \in Worker : at[v] \in Nat /\ at[v] <= next /\ at[v] # n
  BY <1>2 DEF IInv, TypeOK, Handed
<1>5. at[w] = 0
  BY <1>1 DEF IInv, Handed
<1>6. TypeOK'
  BY <1>1, <1>2, <1>3 DEF IInv, TypeOK, Call
<1>7. Handed'
  <2>1. \A v \in Worker : call'[v] = "none" <=> at'[v] = 0
    BY <1>1, <1>2 DEF IInv, TypeOK, Handed
  <2>2. \A v \in Worker : at'[v] <= next'
    BY <1>1, <1>2, <1>4 DEF IInv, TypeOK
  <2>3. \A u, v \in Worker : at'[u] = at'[v] /\ at'[u] # 0 => u = v
    BY <1>1, <1>4 DEF IInv, TypeOK, Handed
  <2>4. ASSUME NEW i \in 1 .. Len(items), results[i] # None
        PROVE  i <= n /\ \A v \in Worker : at'[v] # i
    BY <1>1, <1>2, <1>3, <2>4 DEF IInv, TypeOK, Handed
  <2>5. ASSUME NEW i \in 1 .. Len(items), i <= n, \A v \in Worker : at'[v] # i
        PROVE  results[i] # None
    <3>1. i # n
      BY <1>1, <2>5 DEF IInv, TypeOK
    <3>2. i <= next
      BY <1>2, <2>5, <3>1
    <3>3. \A v \in Worker : at[v] # i
      BY <1>1, <1>5, <2>5 DEF IInv, TypeOK
    <3> QED
      BY <1>1, <3>2, <3>3 DEF IInv, Handed
  <2> QED
    BY <1>1, <2>1, <2>2, <2>3, <2>4, <2>5 DEF Handed
<1>8. Asked'
  <2>1. \A i \in 1 .. Len(items) : i > n => sent[i] = 0
    BY <1>2 DEF IInv, Asked
  <2>2. ASSUME NEW v \in Worker
        PROVE  /\ call'[v] = "taken" => sent[at'[v]] = 0
               /\ call'[v] \in {"asked", "reading"} =>
                    sent[at'[v]] = 1 /\ Local(items[at'[v]]) = None
    BY <1>1, <1>3 DEF IInv, TypeOK, Asked
  <2> QED
    BY <1>1, <2>1, <2>2 DEF Asked
<1>9. Settled' /\ Complete' /\ NothingLeftRunning'
  BY <1>1 DEF IInv, Settled, Unsent, Complete, NothingLeftRunning
<1> QED
  BY <1>6, <1>7, <1>8, <1>9 DEF IInv

\* A worker that gives its item an outcome that agrees with the item and with
\* whether it was sent.
LEMMA DoneInv ==
  ASSUME IInv, NEW w \in Worker, call[w] # "none", NEW outcome \in Outcome,
         Done(w, outcome),
         items[at[w]].local # "fine" =>
           outcome = Local(items[at[w]]) /\ sent[at[w]] = 0,
         items[at[w]].local = "fine" => outcome \notin LocalError,
         items[at[w]].local = "fine" /\ sent[at[w]] = 0 =>
           context # "live" /\ outcome = Unsent
  PROVE  IInv'
<1> DEFINE n == at[w]
<1>1. /\ at' = [at EXCEPT ![w] = 0]
      /\ call' = [call EXCEPT ![w] = "none"]
      /\ results' = [results EXCEPT ![n] = outcome]
      /\ UNCHANGED <<sdk, items, next, sent, batch, context>>
  BY DEF Done
<1>2. items \in Seq(Item) /\ Len(items) \in Nat /\ next \in Nat
  BY BatchAssumption DEF IInv, TypeOK
<1>3. n \in 1 .. Len(items) /\ n <= next /\ results[n] = None
  BY <1>2 DEF IInv, TypeOK, Handed
<1>4. outcome # None
  BY DEF Outcome, Verdict, Error, LocalError, Thrown, None
<1>5. sent[n] \in {0, 1}
  BY DEF IInv, TypeOK, Call, Asked
<1>6. batch \notin {"returned", "raised"}
  BY DEF IInv, NothingLeftRunning, Busy
<1>7. TypeOK'
  BY <1>1, <1>2, <1>3 DEF IInv, TypeOK, Call
<1>8. Handed'
  <2>1. \A v \in Worker : call'[v] = "none" <=> at'[v] = 0
    BY <1>1 DEF IInv, TypeOK, Handed
  <2>2. \A v \in Worker : at'[v] <= next'
    BY <1>1, <1>2 DEF IInv, TypeOK, Handed
  <2>3. \A u, v \in Worker : at'[u] = at'[v] /\ at'[u] # 0 => u = v
    BY <1>1 DEF IInv, TypeOK, Handed
  <2>4. ASSUME NEW i \in 1 .. Len(items), results'[i] # None
        PROVE  i <= next /\ \A v \in Worker : at'[v] # i
    <3>1. CASE i = n
      BY <1>1, <1>3, <3>1 DEF IInv, TypeOK, Handed
    <3>2. CASE i # n
      <4>1. results[i] # None /\ i # 0
        BY <1>1, <2>4, <3>2 DEF IInv, TypeOK
      <4> QED
        BY <1>1, <4>1 DEF IInv, TypeOK, Handed
    <3> QED
      BY <3>1, <3>2
  <2>5. ASSUME NEW i \in 1 .. Len(items), i <= next, batch # "interrupted",
               \A v \in Worker : at'[v] # i
        PROVE  results'[i] # None
    <3>1. CASE i = n
      BY <1>1, <1>4, <3>1 DEF IInv, TypeOK
    <3>2. CASE i # n
      <4>1. \A v \in Worker : at[v] # i
        BY <1>1, <2>5, <3>2 DEF IInv, TypeOK
      <4> QED
        BY <1>1, <2>5, <3>2, <4>1 DEF IInv, TypeOK, Handed
    <3> QED
      BY <3>1, <3>2
  <2> QED
    BY <1>1, <2>1, <2>2, <2>3, <2>4, <2>5 DEF Handed
<1>9. Asked'
  <2>1. ASSUME NEW v \in Worker
        PROVE  /\ call'[v] = "taken" => sent[at'[v]] = 0
               /\ call'[v] \in {"asked", "reading"} =>
                    sent[at'[v]] = 1 /\ Local(items[at'[v]]) = None
    BY <1>1 DEF IInv, TypeOK, Asked
  <2> QED
    BY <1>1, <2>1 DEF IInv, Asked
<1>10. Settled'
  <2>1. ASSUME NEW i \in 1 .. Len(items), results'[i] # None
        PROVE  /\ sent[i] <= 1
               /\ items[i].local # "fine" =>
                    results'[i] = Local(items[i]) /\ sent[i] = 0
               /\ items[i].local = "fine" => results'[i] \notin LocalError
               /\ items[i].local = "fine" /\ sent[i] = 0 =>
                    context # "live" /\ results'[i] = Unsent
    <3>1. CASE i = n
      <4>1. results'[i] = outcome
        BY <1>1, <3>1 DEF IInv, TypeOK
      <4> QED
        BY <1>5, <3>1, <4>1
    <3>2. CASE i # n
      <4>1. results'[i] = results[i]
        BY <1>1, <3>2 DEF IInv, TypeOK
      <4> QED
        BY <2>1, <4>1 DEF IInv, Settled
    <3> QED
      BY <3>1, <3>2
  <2>2. Unsent' = Unsent
    BY <1>1 DEF Unsent
  <2> QED
    BY <1>1, <2>1, <2>2 DEF Settled
<1>11. Complete' /\ NothingLeftRunning'
  BY <1>1, <1>6 DEF Complete, NothingLeftRunning
<1> QED
  BY <1>7, <1>8, <1>9, <1>10, <1>11 DEF IInv

\* The item that a worker is at.
LEMMA AtItem ==
  ASSUME IInv, NEW w \in Worker, call[w] # "none"
  PROVE  /\ at[w] \in 1 .. Len(items)
         /\ items[at[w]] \in Item
<1>1. at[w] \in 1 .. Len(items)
  BY DEF IInv, TypeOK, Handed
<1> QED
  BY <1>1, ItemTypes DEF IInv

LEMMA SendInv ==
  ASSUME IInv, NEW w \in Worker, Send(w)
  PROVE  IInv'
<1>1. /\ call[w] = "taken" /\ Local(items[at[w]]) = None
      /\ call' = [call EXCEPT ![w] = "asked"]
      /\ sent' = [sent EXCEPT ![at[w]] = @ + 1]
      /\ UNCHANGED <<sdk, items, next, at, results, batch, context>>
  BY DEF Send
<1>2. at[w] \in 1 .. Len(items) /\ results[at[w]] = None /\ sent[at[w]] = 0
  BY <1>1, AtItem DEF IInv, Handed, Asked
<1>3. at[w] <= next /\ next \in Nat /\ Len(items) \in Nat
  BY BatchAssumption DEF IInv, TypeOK, Handed
<1>4. sent' = [sent EXCEPT ![at[w]] = 1]
  BY <1>1, <1>2
<1>5. TypeOK'
  BY <1>1, <1>2, <1>4 DEF IInv, TypeOK, Call
<1>6. Handed'
  BY <1>1 DEF IInv, TypeOK, Handed
<1>7. Asked'
  <2>1. \A i \in 1 .. Len(items) : i > next => sent'[i] = 0
    BY <1>2, <1>3, <1>4 DEF IInv, TypeOK, Asked
  <2>2. ASSUME NEW v \in Worker
        PROVE  /\ call'[v] = "taken" => sent'[at[v]] = 0
               /\ call'[v] \in {"asked", "reading"} =>
                    sent'[at[v]] = 1 /\ Local(items[at[v]]) = None
    <3>1. CASE v = w
      BY <1>1, <1>2, <1>4, <3>1 DEF IInv, TypeOK
    <3>2. CASE v # w
      <4>1. call'[v] = call[v] /\ at[v] # at[w]
        BY <1>1, <1>2, <3>2 DEF IInv, TypeOK, Handed
      <4>2. call[v] # "none" => sent'[at[v]] = sent[at[v]]
        BY <1>4, <4>1, AtItem DEF IInv, TypeOK
      <4> QED
        BY <4>1, <4>2 DEF IInv, Asked
    <3> QED
      BY <3>1, <3>2
  <2> QED
    BY <1>1, <2>1, <2>2 DEF Asked
<1>8. Settled'
  <2>1. ASSUME NEW i \in 1 .. Len(items), results[i] # None
        PROVE  sent'[i] = sent[i]
    BY <1>2, <1>4, <2>1 DEF IInv, TypeOK
  <2> QED
    BY <1>1, <2>1 DEF IInv, Settled, Unsent
<1>9. Complete' /\ NothingLeftRunning'
  BY <1>1 DEF IInv, TypeOK, Complete, NothingLeftRunning, Busy
<1> QED
  BY <1>5, <1>6, <1>7, <1>8, <1>9 DEF IInv

LEMMA HeaderInv ==
  ASSUME IInv, NEW w \in Worker, Header(w)
  PROVE  IInv'
<1>1. /\ call[w] = "asked"
      /\ call' = [call EXCEPT ![w] = "reading"]
      /\ UNCHANGED <<sdk, items, next, at, results, sent, batch, context>>
  BY DEF Header
<1>2. TypeOK'
  BY <1>1 DEF IInv, TypeOK, Call
<1>3. Handed' /\ Asked'
  BY <1>1 DEF IInv, TypeOK, Handed, Asked
<1>4. Settled' /\ Complete' /\ NothingLeftRunning'
  BY <1>1 DEF IInv, TypeOK, Settled, Unsent, Complete, NothingLeftRunning, Busy
<1> QED
  BY <1>2, <1>3, <1>4 DEF IInv

LEMMA RejectInv ==
  ASSUME IInv, NEW w \in Worker, Reject(w)
  PROVE  IInv'
<1> DEFINE item == items[at[w]]
<1>1. call[w] = "taken" /\ Local(item) # None /\ Done(w, Local(item))
  BY DEF Reject
<1>2. item \in Item /\ sent[at[w]] = 0
  BY <1>1, AtItem DEF IInv, Asked
<1>3. Local(item) \in LocalError \cup {Thrown} /\ item.local # "fine"
  BY <1>1, <1>2, LocalTypes
<1>4. Local(item) \in Outcome
  BY <1>3 DEF Outcome, Error
<1> QED
  BY <1>1, <1>2, <1>3, <1>4, DoneInv

\* A call that was made ends with anything but an error of the item's own.
LEMMA EndInv ==
  ASSUME IInv, NEW w \in Worker, call[w] \in {"asked", "reading"},
         NEW outcome \in Outcome \ LocalError, Done(w, outcome)
  PROVE  IInv'
<1>1. items[at[w]] \in Item /\ sent[at[w]] = 1 /\ Local(items[at[w]]) = None
  BY AtItem DEF IInv, Asked
<1>2. items[at[w]].local = "fine"
  BY <1>1, LocalTypes
<1> QED
  BY <1>1, <1>2, DoneInv

LEMMA OutsideInv ==
  ASSUME IInv, NEW w \in Worker, Outside(w)
  PROVE  IInv'
<1>0. /\ Verdict \cup {"provider_error", "provider_timeout", "invalid_response", Thrown}
           = Outcome \ LocalError
      /\ {"asked", "reading"} \subseteq Call
  BY DEF Outcome, Error, Verdict, LocalError, Thrown, Call
<1>1. CASE Header(w)
  BY <1>1, HeaderInv
<1>2. CASE Status(w)
  BY <1>0, <1>2, EndInv DEF Status
<1>3. CASE Receive(w)
  <2>1. call[w] = "reading" /\ Done(w, Read(sdk, items[at[w]].answer))
    BY <1>3 DEF Receive
  <2>2. items[at[w]].answer \in Document
    BY <2>1, AtItem DEF Item
  <2>3. Read(sdk, items[at[w]].answer) \in Verdict \cup {"invalid_response"}
    BY <2>2, ReadTypes DEF IInv, TypeOK
  <2> QED
    BY <1>0, <2>1, <2>3, EndInv
<1>4. CASE Lost(w)
  <2>1. PICK cause \in Cause \ {"timeout"} :
          call[w] \in {"asked", "reading"} /\ Done(w, Breaks(call[w], cause))
    BY <1>4 DEF Lost
  <2>2. Breaks(call[w], cause) \in {"provider_error", "invalid_response", Thrown}
    BY <1>0, <2>1, BreaksOtherwise DEF IInv
  <2> QED
    BY <1>0, <2>1, <2>2, EndInv
<1> QED
  BY <1>1, <1>2, <1>3, <1>4 DEF Outside

LEMMA TimesOutInv ==
  ASSUME IInv, NEW w \in Worker, TimesOut(w)
  PROVE  IInv'
<1>1. /\ call[w] \in {"asked", "reading"}
      /\ Breaks(call[w], "timeout") # None
      /\ Done(w, Breaks(call[w], "timeout"))
  BY DEF TimesOut
<1>2. Breaks(call[w], "timeout") \in
        {"provider_error", "provider_timeout", "invalid_response", Thrown}
  BY <1>1, BreaksTypes DEF IInv, Call, Cause
<1>3. Breaks(call[w], "timeout") \in Outcome \ LocalError
  BY <1>2 DEF Outcome, Error, LocalError, Thrown
<1> QED
  BY <1>1, <1>3, EndInv

LEMMA BreakOffInv ==
  ASSUME IInv, NEW w \in Worker, BreakOff(w)
  PROVE  IInv'
<1> DEFINE outcome == GoBreaks(call[w], context)
<1>1. /\ context # "live" /\ call[w] # "none" /\ call[w] \in Call
      /\ call[w] = "taken" => Local(items[at[w]]) = None
      /\ Done(w, outcome)
  BY DEF BreakOff, IInv, TypeOK
<1>2. outcome \in Outcome /\ outcome \notin LocalError
  BY DEF GoBreaks, Outcome, Error, LocalError
<1>3. sent[at[w]] = 0 => outcome = Unsent
  <2>1. context \in {"canceled", "expired"}
    BY <1>1 DEF IInv, TypeOK
  <2>2. sent[at[w]] = 0 => call[w] # "reading"
    BY DEF IInv, Asked
  <2> QED
    BY <2>1, <2>2 DEF GoBreaks, Unsent
<1>4. items[at[w]].local = "fine"
  <2>1. Local(items[at[w]]) = None
    BY <1>1 DEF IInv, Asked, Call
  <2> QED
    BY <1>1, <2>1, AtItem, LocalTypes
<1> HIDE DEF outcome
<1> QED
  BY <1>1, <1>2, <1>3, <1>4, DoneInv

LEMMA AbandonInv ==
  ASSUME IInv, NEW w \in Worker, Abandon(w)
  PROVE  IInv'
<1>1. /\ batch = "interrupted"
      /\ at' = [at EXCEPT ![w] = 0]
      /\ call' = [call EXCEPT ![w] = "none"]
      /\ UNCHANGED <<sdk, items, next, results, sent, batch, context>>
  BY DEF Abandon
<1>2. next \in Nat /\ Len(items) \in Nat
  BY BatchAssumption DEF IInv, TypeOK
<1>3. TypeOK'
  BY <1>1, <1>2 DEF IInv, TypeOK, Call
<1>4. Handed'
  BY <1>1, <1>2 DEF IInv, TypeOK, Handed
<1>5. Asked'
  BY <1>1 DEF IInv, TypeOK, Asked
<1>6. Settled' /\ Complete' /\ NothingLeftRunning'
  BY <1>1 DEF IInv, Settled, Unsent, Complete, NothingLeftRunning
<1> QED
  BY <1>3, <1>4, <1>5, <1>6 DEF IInv

\* What the caller of validateBatch does leaves the workers alone.
LEMMA CallerInv ==
  ASSUME IInv, Conclude \/ Cancel \/ Expire \/ Interrupt
  PROVE  IInv'
<1>1. /\ UNCHANGED <<sdk, items, next, at, call, results, sent>>
      /\ batch' = batch \/ batch \in {"running", "raising"}
      /\ batch' = batch \/ batch' \in {"returned", "raised", "raising", "interrupted"}
      /\ context' \in {"live", "canceled", "expired"}
      /\ context # "live" => context' = context
  BY DEF Conclude, Return, Rethrow, Collapse, Raise, Cancel, Expire, Interrupt, work,
         IInv, TypeOK
<1>2. batch' # batch /\ batch' \in {"returned", "raised"} => Busy = {}
  BY DEF Conclude, Return, Rethrow, Collapse, Raise, Cancel, Expire, Interrupt
<1>3. batch' # batch /\ batch' = "returned" =>
        next = Len(items) /\ \A i \in 1 .. next : results[i] # Thrown
  BY DEF Conclude, Return, Rethrow, Collapse, Raise, Cancel, Expire, Interrupt
<1>4. batch = "interrupted" => batch' = "interrupted"
  BY <1>1
<1>5. TypeOK'
  BY <1>1 DEF IInv, TypeOK
<1>6. Handed'
  BY <1>1, <1>4 DEF IInv, Handed
<1>7. Asked' /\ Settled'
  BY <1>1 DEF IInv, Asked, Settled, Unsent
<1>8. Complete'
  BY <1>1, <1>3 DEF IInv, Complete
<1>9. NothingLeftRunning'
  BY <1>1, <1>2 DEF IInv, NothingLeftRunning, Busy
<1> QED
  BY <1>5, <1>6, <1>7, <1>8, <1>9 DEF IInv

LEMMA NextInv == IInv /\ [Next]_vars => IInv'
<1> SUFFICES ASSUME IInv, [Next]_vars PROVE IInv'
  OBVIOUS
<1>1. ASSUME NEW w \in Worker, Advance(w) PROVE IInv'
  BY <1>1, TakeInv, RejectInv, SendInv, BreakOffInv, AbandonInv DEF Advance
<1>2. ASSUME NEW w \in Worker, TimesOut(w) PROVE IInv'
  BY <1>2, TimesOutInv
<1>3. ASSUME NEW w \in Worker, Outside(w) PROVE IInv'
  BY <1>3, OutsideInv
<1>4. CASE Conclude \/ Cancel \/ Expire \/ Interrupt
  BY <1>4, CallerInv
<1>5. CASE UNCHANGED vars
  BY <1>5 DEF vars, work, IInv, TypeOK, Handed, Asked, Settled, Unsent,
              Complete, NothingLeftRunning, Busy
<1> QED
  BY <1>1, <1>2, <1>3, <1>4, <1>5 DEF Next

\* The invariant of a batch: where each item is between the caller, a worker and
\* its result, and what was sent for it (direct.go:178-227, index.ts:310-342,
\* DirectValidator.java:119-147, client.py:255-274).
THEOREM BatchInvariance == Spec => []IInv
BY InitInv, NextInv, PTL DEF Spec

\* A batch that returns has exactly one result for every item; none was sent
\* twice, and one that was not sent had its own error or fell to the end of the
\* caller's context.
THEOREM ItemsAreAnsweredOnce == Spec => []EveryItemOnce
<1>1. ASSUME IInv, batch = "returned", NEW i \in 1 .. Len(items)
      PROVE  /\ results[i] \in Verdict \cup Error
             /\ sent[i] <= 1
             /\ results[i] \in LocalError <=> items[i].local # "fine"
             /\ results[i] \in LocalError => sent[i] = 0
             /\ results[i] \notin LocalError /\ sent[i] = 0 =>
                  context # "live" /\ results[i] = Unsent
  <2>1. Len(items) \in Nat /\ next = Len(items) /\ results[i] # Thrown
    BY <1>1, BatchAssumption DEF IInv, TypeOK, Complete
  <2>2. \A w \in Worker : call[w] = "none"
    BY <1>1 DEF IInv, NothingLeftRunning, Busy
  <2>3. results[i] # None
    BY <1>1, <2>1, <2>2 DEF IInv, Handed
  <2>4. results[i] \in Verdict \cup Error
    BY <1>1, <2>1, <2>3 DEF IInv, TypeOK, Outcome
  <2>5. /\ sent[i] <= 1
        /\ items[i].local # "fine" => results[i] = Local(items[i]) /\ sent[i] = 0
        /\ items[i].local = "fine" => results[i] \notin LocalError
        /\ items[i].local = "fine" /\ sent[i] = 0 =>
             context # "live" /\ results[i] = Unsent
    BY <1>1, <2>3 DEF IInv, Settled
  <2>6. items[i].local # "fine" => results[i] \in LocalError
    <3>1. items[i] \in Item
      BY <1>1, ItemTypes DEF IInv
    <3> QED
      BY <2>1, <2>3, <2>5, <3>1, LocalTypes
  <2> QED
    BY <2>4, <2>5, <2>6
<1>2. IInv => EveryItemOnce
  BY <1>1 DEF EveryItemOnce
<1> QED
  BY BatchInvariance, <1>2, PTL

\* No call outlives a batch that has returned or thrown.
THEOREM NoCallIsLeft == Spec => []NothingLeftRunning
<1>1. IInv => NothingLeftRunning
  BY DEF IInv
<1> QED
  BY BatchInvariance, <1>1, PTL

\* Theorem: every variable of a batch keeps its type.
THEOREM BatchTypes == Spec => []TypeOK
<1>1. IInv => TypeOK
  BY DEF IInv
<1> QED
  BY BatchInvariance, <1>1, PTL

\* Every SDK, and the server, judges a regular answer by the same choice and
\* score; the shapes they treat differently are not regular.
LEMMA RegularReading ==
  ASSUME NEW d \in Document, Regular(d), NEW s \in SDK
  PROVE  /\ Read(s, d) = IF Score(d) >= 80 THEN d.choice ELSE "uncertain"
         /\ ServerReads(d) = {IF Score(d) >= 80 THEN d.choice ELSE "uncertain"}
<1>1. /\ Number \subseteq Int
      /\ Missing \notin Number /\ Null \notin Number /\ Text \notin Number
      /\ Missing # Null /\ Missing # Text
  BY DEF Number, Missing, Null, Text
<1>2. /\ d.choice \in {"true", "false"} /\ d.choice # "other"
      /\ InRange(Score(d))
      /\ Score(d) = IF d.confidence \in Number THEN d.confidence ELSE d.probability
      /\ Score(d) = IF d.confidence = Missing THEN d.probability ELSE d.confidence
      /\ d.confidence # Text /\ d.probability # Text /\ d.probability # Null
  BY <1>1 DEF Regular, InRange, Score
<1>3. Judge(d.choice, Score(d)) = IF Score(d) >= 80 THEN d.choice ELSE "uncertain"
  <2>1. Score(d) \in Int
    BY <1>1, <1>2 DEF InRange
  <2>2. Judge(d.choice, Score(d)) = IF Score(d) < 80 THEN "uncertain" ELSE d.choice
    BY <1>2 DEF Judge
  <2> QED
    BY <2>1, <2>2
<1>4. Read(s, d) = Judge(d.choice, Score(d))
  BY <1>2 DEF Read, SDK, GoReads, TypeScriptReads, JavaReads, PythonReads
<1>5. ServerReads(d) = {Judge(d.choice, Score(d))}
  BY <1>2 DEF ServerReads
<1> QED
  BY <1>3, <1>4, <1>5

\* An answer of the form that Jev gives means the same in every SDK and in the
\* server.
THEOREM AnswersAgree == Spec => AnswersReadAlike
<1> DEFINE Alike ==
      \A w \in Worker :
        Receive(w) /\ Regular(items[at[w]].answer) =>
          LET d == items[at[w]].answer
          IN /\ results'[at[w]] = IF Score(d) >= 80 THEN d.choice ELSE "uncertain"
             /\ ServerReads(d) = {results'[at[w]]}
<1>1. ASSUME IInv, NEW w \in Worker, Receive(w), Regular(items[at[w]].answer)
      PROVE  LET d == items[at[w]].answer
             IN /\ results'[at[w]] = IF Score(d) >= 80 THEN d.choice ELSE "uncertain"
                /\ ServerReads(d) = {results'[at[w]]}
  <2>1. at[w] \in 1 .. Len(items) /\ sdk \in SDK
    BY <1>1, BatchAssumption DEF IInv, TypeOK, Handed, Receive
  <2>2. items[at[w]].answer \in Document
    BY <1>1, <2>1, ItemTypes DEF IInv, Item
  <2>3. results'[at[w]] = Read(sdk, items[at[w]].answer)
    BY <1>1, <2>1 DEF IInv, TypeOK, Receive, Done
  <2> QED
    BY <1>1, <2>1, <2>2, <2>3, RegularReading
<1>2. IInv => [Alike]_vars
  BY <1>1 DEF Alike
<1> QED
  BY BatchInvariance, <1>2, PTL DEF AnswersReadAlike
=============================================================================
