----------------------------- MODULE MCDirector -----------------------------
(* The demo at its live speed and at the fastest, replaced and meddled with. *)
EXTENDS Director

MCHandCommands ==
  {<<"rate", 20000>>, <<"mode", FALSE>>, <<"lastlook", <<0, 100>> >>,
   <<"freeze", "USDJPY">>}
=============================================================================
