------------------------------- MODULE AcDevice ------------------------------
(* The AC and the link, as the service meets them: neither is part of this    *)
(* repository.  The AC answers requests in order and may be slow, refuse a    *)
(* SetState, or be changed by its remote; the link may fail at any moment.    *)
EXTENDS AcTypes

Reachable == link.wifi /\ Alive
Room == Len(link.inbound) < MaxInbound

Fault == spent.faults < MaxFaults /\ Spend("faults")

Put(f) == [link EXCEPT !.inbound = Append(@, f)]
StateFrame(s) == [kind |-> "state", st |-> s]

(* The AC takes the oldest request, does something, and answers. *)
Asked == Head(link.requests)
Asks(kind) == Reachable /\ Room /\ link.requests # <<>> /\ Asked.kind = kind

Answers(new, frames) ==
  /\ dev' = new
  /\ link' = [link EXCEPT !.requests = Tail(@), !.inbound = @ \o frames]
  /\ UNCHANGED <<ui, queue, shared, task, spent, ghost>>

AnswerState == Asks("getState") /\ Answers(dev, <<StateFrame(dev.state)>>)
AnswerSet == /\ Asks("set")
             /\ \E s \in {dev.state, Commanded(dev.state, Asked.st)} :
                  Answers([dev EXCEPT !.state = s], <<StateFrame(s)>>)
AnswerToggle ==
  /\ Asks("toggle")
  /\ LET s == [dev.state EXCEPT !.display = ~@]
     IN \E frames \in {<<>>, <<StateFrame(s)>>} : Answers([dev EXCEPT !.state = s], frames)
AnswerCaps == Asks("caps") /\ Answers(dev, <<[kind |-> "caps"]>>)
AnswerProps ==
  /\ Asks("getProps")
  /\ Answers(dev, <<[kind |-> "props",
                     on |-> [k \in Kinds |-> IF k \in Asked.ask THEN dev.props[k] ELSE None]]>>)
AnswerSetProps ==
  /\ Asks("setProps")
  /\ Answers([dev EXCEPT !.props = [k \in Kinds |->
                IF Asked.on[k] = None THEN @[k] ELSE Asked.on[k]]],
             <<[kind |-> "propsAck"]>>)
AnswerGroup ==
  /\ Asks("group")
  /\ Answers(dev, <<[kind |-> "group", group |-> Asked.group, on |-> dev.reading]>>)

DeviceAnswers == \/ AnswerState \/ AnswerSet \/ AnswerToggle \/ AnswerCaps
                 \/ AnswerProps \/ AnswerSetProps \/ AnswerGroup

(* A request the AC never answers. *)
DeviceIgnores == /\ Reachable /\ link.requests # <<>> /\ Fault
                 /\ link' = [link EXCEPT !.requests = Tail(@)]
                 /\ UNCHANGED <<ui, queue, shared, task, dev, ghost>>

(* The remote changes the state; the AC may push it, or only chatter. *)
RemoteChange == /\ spent.remote < MaxRemote /\ Spend("remote")
                /\ \E s \in AcState : dev' = [dev EXCEPT !.state = s]
                /\ \/ UNCHANGED link
                   \/ Reachable /\ Room /\ link' = Put(StateFrame(dev'.state))
                /\ UNCHANGED <<ui, queue, shared, task, ghost>>

ReadingChanges == /\ Groups # {} /\ spent.remote < MaxRemote /\ Spend("remote")
                  /\ dev' = [dev EXCEPT !.reading = ~@]
                  /\ UNCHANGED <<ui, queue, shared, task, link, ghost>>

(* A frame the codecs, or the transport, refuse. *)
Noise == /\ Reachable /\ Room /\ Fault
         /\ \E k \in {"invalid", "corrupt"} : link' = Put([kind |-> k])
         /\ UNCHANGED <<ui, queue, shared, task, dev, ghost>>

SetLink(l) == link' = l /\ UNCHANGED <<ui, queue, shared, task, dev, ghost>>

WifiDrops == link.wifi /\ Fault /\ SetLink([link EXCEPT !.wifi = FALSE])
WifiReturns == ~link.wifi /\ SetLink([link EXCEPT !.wifi = TRUE]) /\ UNCHANGED spent
PeerDrops == Alive /\ Fault /\ SetLink([link EXCEPT !.peer = FALSE, !.requests = <<>>])

(* authExpired(): the session key passes its lifetime. *)
AuthExpires == link.open /\ ~link.expired /\ Fault
               /\ SetLink([link EXCEPT !.expired = TRUE])

Surroundings == \/ DeviceIgnores \/ RemoteChange \/ ReadingChanges \/ Noise
                \/ WifiDrops \/ PeerDrops \/ AuthExpires
=============================================================================
