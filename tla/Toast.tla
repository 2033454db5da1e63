-------------------------------- MODULE Toast --------------------------------
(* The error toast of src/src/ui/Screens.cpp, as loop() in src/src/main.cpp   *)
(* drives it: one pass shows what the services report, ages the toast out,    *)
(* and renders.  millis() is a counter that wraps; differences of it are      *)
(* unsigned.                                                                  *)
EXTENDS Naturals

CONSTANTS Wrap,     \* 2^32 in the firmware
          ToastMs   \* kToastMs

VARIABLES now,    \* millis()
          text,   \* sToastText is not empty
          until,  \* sToastUntilMs
          drawn,  \* the panel shows the toast
          at,     \* where loop() is
          age     \* history: time since the toast was shown, up to ToastMs

vars == <<now, text, until, drawn, at, age>>

Minus(a, b) == (a + Wrap - b) % Wrap

TypeOK == /\ now \in 0..(Wrap - 1) /\ until \in 0..(Wrap - 1)
          /\ text \in BOOLEAN /\ drawn \in BOOLEAN
          /\ at \in {"errors", "expiry", "render"} /\ age \in 0..ToastMs

Init == /\ now \in 0..(Wrap - 1) /\ until = 0
        /\ text = FALSE /\ drawn = FALSE /\ at = "errors" /\ age = 0

Elapse == /\ now' = (now + 1) % Wrap
          /\ age' = IF age < ToastMs THEN age + 1 ELSE age
          /\ UNCHANGED <<text, until, drawn, at>>

(* consumeError() found a message: showToast(). *)
ShowToast == /\ at = "errors" /\ at' = "expiry"
             /\ text' = TRUE /\ until' = (now + ToastMs) % Wrap /\ age' = 0
             /\ UNCHANGED <<now, drawn>>

NoError == at = "errors" /\ at' = "expiry" /\ UNCHANGED <<now, text, until, drawn, age>>

Expired == text /\ Minus(now, until) >= ToastMs

ConsumeToastExpiry == /\ at = "expiry" /\ at' = "render"
                      /\ text' = (text /\ ~Expired)
                      /\ UNCHANGED <<now, until, drawn, age>>

(* drawStatusBanner() on the repaint that either edge requested. *)
Render == at = "render" /\ at' = "errors" /\ drawn' = text
          /\ UNCHANGED <<now, text, until, age>>

Next == Elapse \/ ShowToast \/ NoError \/ ConsumeToastExpiry \/ Render

Spec == Init /\ [][Next]_vars

(* "drawn by drawStatusBanner for kToastMs after showToast()" (Screens.h:99): *)
(* a toast is not cleared before it has aged that long.                       *)
ToastStaysUp == [][text /\ ~text' => age >= ToastMs]_vars
=============================================================================
