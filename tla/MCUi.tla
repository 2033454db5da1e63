-------------------------------- MODULE MCUi --------------------------------
(* The payloads, replies and texts of the screens' runs.                      *)
EXTENDS Ui

(* Cooling to 24 degrees, heating to 16.5 (alternate field, half a degree),   *)
(* and the first switched off.                                                *)
MCState(power, byte3, byte14) ==
  <<192, power, byte3, 102, 0, 0, 0, 48, 0, 0, 0, 0, 0, byte14, 0, 0, 0, 0, 0, 0, 0, 0>>
MCStatePages == {MCState(1, 72, 0), MCState(1, 144, 4)}

(* A base page with eCO, iECO, the range of both modes and word of a second   *)
(* page; that one denies eco and cooling and allows self cleaning.            *)
MCCapPages ==
  {[base |-> <<181, 4, 18, 2, 1, 1, 227, 0, 1, 1, 37, 2, 6, 34, 36, 34, 36, 34, 36, 20, 2, 1, 4, 1, 0>>,
    extra |-> <<181, 3, 18, 2, 1, 0, 20, 2, 1, 10, 57, 0, 1, 1, 0, 0>>]}
MCPropPages ==
  {<<177, 2, 227, 0, 0, 2, 1, 1, 57, 0, 0, 1, 0>>}
MCGroupPages ==
  {<<7, <<193, 0, 0, 7, 0, 0, 0, 0, 0, 0, 200, 0>>>>, <<5, <<193, 0, 0, 5, 40, 0, 0, 0, 60, 0, 0>>>>}
MCTextLines == <<3, 1>>
MCDatagrams ==
  {[version |-> "v3", len |-> 176, plain |-> 90, name |-> 20, typed |-> TRUE, id |-> 1, ip |-> 1],
   [version |-> "v2", len |-> 152, plain |-> 90, name |-> 20, typed |-> TRUE, id |-> 1, ip |-> 2],
   [version |-> "v2", len |-> 152, plain |-> 90, name |-> 20, typed |-> TRUE, id |-> 2, ip |-> 3]}

(* Three presses in one tick on the menus; a cached page is met by one.       *)
MCMaxBurst == [control |-> 1, cached |-> 2, devices |-> 2, settings |-> 1, home |-> 2, about |-> 3]
MCMaxEdits == [control |-> 1, cached |-> 1, devices |-> 0, settings |-> 1, home |-> 0, about |-> 0]
MCMaxNews == [control |-> 2, cached |-> 2, devices |-> 2, settings |-> 2, home |-> 3, about |-> 1]
=============================================================================
