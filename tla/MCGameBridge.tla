---------------------------- MODULE MCGameBridge ----------------------------
(***************************************************************************)
(* Instances of GameBridge for TLC.                                        *)
(***************************************************************************)
EXTENDS GameBridge, TLC

CONSTANTS t1, t2, c1, c2, c3, r1, r2

MCSize == [w \in {"blank", "en", "ana", "bo"} |->
              IF w = "blank" THEN 0 ELSE IF w = "ana" THEN 3 ELSE 2]

T(word, padded, upper) == [word |-> word, padded |-> padded, upper |-> upper]
En == T("en", FALSE, {})
Ana == T("ana", FALSE, {})
AnaOther == T("ana", FALSE, {"other"})
Bo == T("bo", FALSE, {})
Names == {T("ana", TRUE, {"ascii"}), AnaOther, Bo, T("blank", TRUE, {})}
Provider == {T("en", TRUE, {"ascii"}), T("blank", TRUE, {})}

Number(tenths, exponent) == [tenths |-> tenths, exponent |-> exponent]
Numbered == c1 :> Number(75, 0) @@ c2 :> Number(-84, 0) @@ c3 :> Number(15, 16)

Player(t, name, code) == [toko |-> t, name |-> name, code |-> code]
Old == {Player(t1, Ana, c1), Player(t2, Ana, c2)}
New == {Player(t1, AnaOther, c3), Player(t2, Bo, c3)}

\* Endpoints that share no state are called in different behaviours; two handlers
\* are run where one may get in the way of the other.
Together(ops, by) == [ops |-> ops, by |-> by]

AllGroups ==
    {Together({op}, {r1}) :
        op \in {"balance", "merchant_active", "game_launch", "transfer_status", "money_info",
                "call_list", "call_players", "control_rtp", "control_users_rtp"}}
    \cup {Together({op}, {r1, r2}) : op \in {"providers", "games"}}
    \cup {Together({"providers", "games", "games_v2"}, {r1}),
          Together({"call_apply", "call_history", "call_cancel"}, {r1})}

LaunchOnly == {Together({"game_launch"}, {r1})}
=============================================================================
