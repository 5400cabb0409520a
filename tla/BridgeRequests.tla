--------------------------- MODULE BridgeRequests ---------------------------
(***************************************************************************)
(* What the handlers of /api/v1 that talk to the NexusGGR platform accept: *)
(* the request bodies and their validation (http/bridge/mod.rs).           *)
(*                                                                         *)
(* A text is abstracted to what validation looks at: how long it is once   *)
(* trimmed, whether it is padded, and which upper-case letters it has: of  *)
(* ASCII, or of the rest of Unicode, which to_ascii_lowercase of Rust      *)
(* leaves and LOWER of PostgreSQL does not.  A validator returns the       *)
(* request it hands on, or Rejected (422).                                 *)
(***************************************************************************)
EXTENDS Integers

CONSTANTS
    Words,      \* the letters of a text, lower-case and trimmed
    Size,       \* Size[w]: how many bytes, 0 for the blank text
    NameTexts,  \* what clients write as a username
    CodeTexts,  \* what clients write as a provider, game or language code, or a signature
    Numbers,    \* what clients write as a number
    English,    \* the text "en"
    Missing,    \* a field that is null or left out
    Rejected    \* the outcome of a validation that fails

Text == [word : Words, padded : BOOLEAN, upper : SUBSET {"ascii", "other"}]

ASSUME RequestsAssumption ==
    /\ Size \in [Words -> Nat]
    /\ NameTexts \subseteq Text
    /\ CodeTexts \subseteq Text
    /\ Numbers \subseteq Int
    /\ English \in Text /\ Size[English.word] \in 1..5
    /\ Missing \notin Text
    /\ Rejected \notin Text

Trim(t) == [t EXCEPT !.padded = FALSE]

\* trim and to_ascii_lowercase.
Fold(t) == [Trim(t) EXCEPT !.upper = @ \ {"ascii"}]

\* LOWER of PostgreSQL, in a database whose locale knows Unicode.
Lower(t) == [t EXCEPT !.upper = {}]

Blank(t) == Size[t.word] = 0

\* A required text: not blank, and no longer than it may be.
Fits(t, most) == Size[t.word] \in 1..most

\* An optional text: a blank one counts as missing.
Optional(t) == IF t = Missing THEN Missing ELSE IF Blank(t) THEN Missing ELSE Trim(t)
OptionalName(t) == IF Optional(t) = Missing THEN Missing ELSE Fold(t)
OptionalFits(t, most) == t # Missing => Fits(t, most)
Default(v, value) == IF v = Missing THEN value ELSE v

----------------------------------------------------------------------------
(* The bodies clients send.                                                *)

MaybeCode == CodeTexts \cup {Missing}
MaybeName == NameTexts \cup {Missing}
MaybeFlag == BOOLEAN \cup {Missing}
MaybeNumber == Numbers \cup {Missing}

GamesBody == [provider_code : CodeTexts]
GameLaunchBody == [username : NameTexts, provider_code : CodeTexts,
                   game_code : MaybeCode, lang : MaybeCode]
MoneyInfoBody == [username : MaybeName, all_users : MaybeFlag]
TransferStatusBody == [username : NameTexts, agent_sign : CodeTexts]
CallListBody == [provider_code : CodeTexts, game_code : CodeTexts]
CallApplyBody == [provider_code : CodeTexts, game_code : CodeTexts,
                  username : NameTexts, call_type : Numbers]
CallHistoryBody == [offset : MaybeNumber, limit : MaybeNumber]
CallCancelBody == [call_id : Numbers]
ControlRtpBody == [provider_code : CodeTexts, username : NameTexts, rtp : Numbers]
ControlUsersRtpBody == [user_codes : SUBSET NameTexts, rtp : Numbers]

----------------------------------------------------------------------------
(* Their validation.                                                       *)

Accepted(condition, request) == IF condition THEN request ELSE Rejected

\* Slip (not the code): only an empty text is refused, a blank one is not.
validate_provider_code_untrimmed(t) ==
    Accepted(t.padded \/ Fits(t, 50), Trim(t))

validate_provider_code(t) == Accepted(Fits(t, 50), Trim(t))

\* The provider code goes through validate_provider_code everywhere but in
\* validate_call_list_request, which repeats it.
ValidProvider(t) == validate_provider_code(t) # Rejected

validate_game_launch_request(b) ==
    LET game == Optional(b.game_code)
        lang == Default(Optional(b.lang), English)
    IN  Accepted(/\ Fits(b.username, 50) /\ ValidProvider(b.provider_code)
                 /\ OptionalFits(game, 50) /\ Fits(lang, 5),
                 [username |-> Fold(b.username), provider_code |-> Trim(b.provider_code),
                  game_code |-> game, lang |-> lang])

validate_money_info_request(b) ==
    LET name == OptionalName(b.username)
    IN  Accepted(OptionalFits(name, 50),
                 [username |-> name, all_users |-> Default(b.all_users, FALSE)])

validate_transfer_status_request(b) ==
    Accepted(Fits(b.username, 50) /\ Fits(b.agent_sign, 255),
             [username |-> Fold(b.username), agent_sign |-> Trim(b.agent_sign)])

validate_call_list_request(b) ==
    Accepted(Fits(b.provider_code, 50) /\ Fits(b.game_code, 50),
             [provider_code |-> Trim(b.provider_code), game_code |-> Trim(b.game_code)])

validate_call_apply_request(b) ==
    Accepted(/\ ValidProvider(b.provider_code) /\ Fits(b.game_code, 50)
             /\ Fits(b.username, 50) /\ b.call_type \in {1, 2},
             [provider_code |-> Trim(b.provider_code), game_code |-> Trim(b.game_code),
              username |-> Fold(b.username), call_type |-> b.call_type])

validate_call_history_request(b) ==
    LET offset == Default(b.offset, 0)
        limit == Default(b.limit, 50)
    IN  Accepted(offset >= 0 /\ limit \in 1..500, [offset |-> offset, limit |-> limit])

validate_call_cancel_request(b) == Accepted(b.call_id >= 1, b)

\* JSON has no number that is not finite.
validate_control_rtp_request(b) ==
    Accepted(/\ ValidProvider(b.provider_code) /\ Fits(b.username, 50)
             /\ b.rtp >= 0,
             [provider_code |-> Trim(b.provider_code), username |-> Fold(b.username),
              rtp |-> b.rtp])

validate_control_users_rtp_request(b) ==
    Accepted(/\ b.user_codes # {} /\ b.rtp >= 0
             /\ \A t \in b.user_codes : Fits(t, 50),
             [user_codes |-> {Fold(t) : t \in b.user_codes}, rtp |-> b.rtp])
=============================================================================
