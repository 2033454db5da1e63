----------------------------- MODULE AcMainLoop ------------------------------
(* The main loop's side of the AC service: loop() in src/src/main.cpp and the *)
(* Control screen in src/src/ui/Screens.cpp.  It is one thread: an edge it    *)
(* consumed (ui.todo) is acted upon before it does anything else, but the     *)
(* service task runs between the two.                                         *)
EXTENDS AcTypes

Idle == ui.todo = "none"

(* queueCommand(): a full queue drops the command; a queued one is followed   *)
(* by notifyLocalChange().  The Control screen keeps the edit in its base     *)
(* either way.                                                                *)
Submit(c, base) ==
  /\ Idle /\ spent.edits < MaxEdits /\ Spend("edits")
  /\ IF Len(queue) < QueueDepth
     THEN /\ queue' = Append(queue, c)
          /\ ui' = [ui EXCEPT !.base = base, !.todo = "notify"]
          /\ ghost' = [ghost EXCEPT !.toggles = IF c.kind = "toggle" THEN @ + 1 ELSE @,
                                    !.sets = IF c.kind = "set" THEN @ + 1 ELSE @,
                                    !.wish = IF c.kind = "set" /\ ui.lock THEN c.st ELSE @]
     ELSE /\ ui' = [ui EXCEPT !.base = base]
          /\ UNCHANGED <<queue, ghost>>
  /\ UNCHANGED <<shared, task, link, dev>>

(* applyControlValue(): compose the edit into the base and send all of it, a  *)
(* value confirmed as it was included.                                        *)
EditState(field, value) ==
  /\ shared.received
  /\ LET base == [ui.base EXCEPT ![field] = value]
     IN Submit([kind |-> "set", st |-> base, field |-> field], base)

(* The Sound row needs no AC state, the other property rows do. *)
EditProp(k, on) == /\ k = BeepKind \/ shared.received
                   /\ Submit([kind |-> "prop", prop |-> k, on |-> on], ui.base)

ToggleDisplay == shared.received /\ Submit([kind |-> "toggle"], ui.base)

Notify == /\ ui.todo = "notify"
          /\ shared' = [shared EXCEPT !.resync = TRUE]
          /\ ui' = [ui EXCEPT !.todo = "none"]
          /\ UNCHANGED <<queue, task, link, dev, spent, ghost>>

(* The lock row flips the setting the task reads; no command carries it. *)
FlipLock == /\ Idle /\ spent.flips < MaxFlips /\ Spend("flips")
            /\ ui' = [ui EXCEPT !.lock = ~@]
            /\ ghost' = [ghost EXCEPT !.wish = None]
            /\ UNCHANGED <<queue, shared, task, link, dev>>

(* A frame of the Dashboard (mode "power") or of Details ("all") shows the    *)
(* readings; the screens of the other modes have none.                        *)
Drawn(u, mode) == IF mode \in {"power", "all"} THEN [u EXCEPT !.ext = shared.ext] ELSE u

(* loop() maps the screen to a poll mode on every pass; the screen was drawn  *)
(* as it was entered.                                                         *)
SetPollMode(m) == /\ Idle /\ spent.flips < MaxFlips /\ Spend("flips")
                  /\ m # shared.mode /\ shared' = [shared EXCEPT !.mode = m]
                  /\ ui' = Drawn(ui, m)
                  /\ UNCHANGED <<queue, task, link, dev, ghost>>

-----------------------------------------------------------------------------
(* Edges: consume the flag in one critical section, read the data in another. *)

Consume(flag, then) == /\ Idle /\ shared[flag]
                       /\ shared' = [shared EXCEPT ![flag] = FALSE]
                       /\ ui' = [ui EXCEPT !.todo = then]
                       /\ UNCHANGED <<queue, task, link, dev, spent, ghost>>

Act(todo, drawn) == /\ ui.todo = todo /\ ui' = [drawn EXCEPT !.todo = "none"]
                    /\ UNCHANGED <<queue, shared, task, link, dev, spent, ghost>>

ConsumeStateChanged == Consume("changed", "paint")
ConsumeReachabilityEdge == Consume("reach", "paintLink")
ConsumePropsEdge == Consume("propsEdge", "paintProps")
ConsumeExtUpdate == Consume("extEdge", "paintExt")

(* onAcStateChanged() reseeds the base; the repaint shows the snapshot. *)
OnAcStateChanged == Act("paint", Drawn([ui EXCEPT !.base = shared.state,
                                                  !.painted = Shown(shared.state)],
                                       shared.mode))
PaintLink == Act("paintLink", Drawn([ui EXCEPT !.up = shared.sessionUp], shared.mode))
PaintProps == Act("paintProps", [ui EXCEPT !.props = shared.props])

(* Details is drawn again for every edge, the Dashboard only for a reading    *)
(* other than the one that last passed here; any other screen drops the edge. *)
PaintExt ==
  /\ ui.todo = "paintExt"
  /\ LET moved == shared.mode = "power" /\ PowerOf(shared.ext) # ui.drawn
     IN ui' = [ui EXCEPT !.drawn = IF moved THEN PowerOf(shared.ext) ELSE @,
                         !.todo = IF moved \/ shared.mode = "all" THEN "draw" ELSE "none"]
  /\ UNCHANGED <<queue, shared, task, link, dev, spent, ghost>>

Draw == Act("draw", Drawn(ui, shared.mode))

Paint == \/ ConsumeStateChanged \/ ConsumeReachabilityEdge
         \/ ConsumePropsEdge \/ ConsumeExtUpdate
         \/ OnAcStateChanged \/ PaintLink \/ PaintProps \/ PaintExt \/ Draw

UserStep == \/ \E f \in {"temp", "sleep"} : \E v \in Temps \cup Sleeps :
                 v \in (IF f = "temp" THEN Temps ELSE Sleeps) /\ EditState(f, v)
            \/ \E k \in Kinds, on \in BOOLEAN : EditProp(k, on)
            \/ ToggleDisplay \/ FlipLock
            \/ \E m \in Modes : SetPollMode(m)
=============================================================================
