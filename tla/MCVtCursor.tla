----------------------------- MODULE MCVtCursor -----------------------------
(***************************************************************************)
(* VtCursor for TLC, in four parts: what the host uses in a run is chosen    *)
(* when it starts, so that the states do not multiply.                       *)
(***************************************************************************)
EXTENDS VtCursor

VARIABLE focus

MCSizes == {<<4, 3>>, <<3, 2>>}
MCSettings == SUBSET {"CLEARONRESIZE", "BACKWRAP", "VTCOMPATTAB"}
MCvars == <<vars, focus>>

MCInit ==
    /\ Init
    /\ focus \in {"margins", "status", "saves", "tabs"}
    /\ focus \in {"margins", "saves"} => vt.ts \subseteq {"BACKWRAP"}
    /\ focus = "tabs" => vt.ts \subseteq {"VTCOMPATTAB"}
    /\ focus = "status" => vt.ts \in {{}, {"CLEARONRESIZE"}, {"BACKWRAP"}}
    /\ focus = "saves" => vt.ts = {}

Margins ==
    Writes \/ BackSpaces \/ Lines \/ Indexes \/ Moves \/ MovesDown \/ Regions \/ LRRegions \/ LRModes
    \/ Origins \/ Modes \/ Homes \/ SoftResets
Status ==
    Becomes(PutHalf(vt)) \/ BackSpaces \/ Lines \/ MovesDown \/ Regions \/ Resizes \/ ColumnModes \/ OnSize
    \/ Resets \/ SoftResets \/ Homes \/ Clears \/ ToMainScreen \/ ToStatusLine \/ Hides \/ Shows
Saved ==
    (\E p \in {1, 3} : Becomes(CSMoveToXY(vt, p, p))) \/ Becomes(Origin(vt)) \/ Becomes(NoOrigin(vt))
    \/ Saves \/ Restores \/ AlternateScreen \/ AlternateScreenSaving \/ MainScreen \/ MainScreenRestoring
    \/ Becomes(ChangeTerminalSize(vt, 3, 2, 0)) \/ SoftResets \/ Shows \/ ToStatusLine \/ ToMainScreen
Tabbing == Tabs \/ Writes \/ Moves \/ LRModes \/ LRRegions \/ ColumnModes \/ SoftResets

\* Nothing is claimed of a terminal that has left its page: it is not followed.
MCNext ==
    /\ InPage(vt) /\ UNCHANGED focus
    /\ \/ focus = "margins" /\ Margins
       \/ focus = "status" /\ Status
       \/ focus = "saves" /\ Saved
       \/ focus = "tabs" /\ Tabbing

MCSpec == MCInit /\ [][MCNext]_MCvars
=============================================================================
