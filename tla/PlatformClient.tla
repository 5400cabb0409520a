--------------------------- MODULE PlatformClient ---------------------------
(***************************************************************************)
(* crates/nexusggr_client: what each method refuses to send, and what it   *)
(* makes of the JSON the platform sends back.                              *)
(*                                                                         *)
(* A raw answer is Unreachable (no answer, an HTTP error, or JSON of the   *)
(* wrong shape) or a record with its status and fields, in which a field   *)
(* may be Absent and a number Malformed.  A typed answer has error = "none"*)
(* or the kind of NexusggrError, the numbers of the user that was asked    *)
(* about, and the records or the list it carries.                          *)
(***************************************************************************)
EXTENDS BridgeRequests

CONSTANTS
    Unreachable,  \* a call that ends in a transport error
    Absent,       \* a field that is null or left out
    Malformed,    \* a field that holds something else than it should
    Invalid,      \* a conversion that fails
    MaxMoney      \* i64::MAX of the model

\* A number, sent as a number or as a text: tenths / 10 * 10^exponent.  It is
\* written with an exponent only when that is not 0, as serde_json writes a number
\* with a fraction from 10^16 on.
RawNumber == [tenths : Int, exponent : Int]

ASSUME ClientAssumption == MaxMoney \in Nat /\ Absent \notin RawNumber

\* n is the whole part of a number that is written without an exponent.
WholePart(n, raw) ==
    raw.exponent = 0 =>
        IF raw.tenths >= 0 THEN raw.tenths - 10 * n \in 0..9 ELSE 10 * n - raw.tenths \in 0..9

Failed(kind) == [error |-> kind, user |-> {}, records |-> {}]
Success(user, records) == [error |-> "none", user |-> user, records |-> records]

\* call() and the check of the status, which every method repeats; numbers are
\* the conversions that have to succeed before there is an answer.
Typed(raw, numbers, answer) ==
    IF raw = Unreachable THEN Failed("Transport")
    ELSE IF raw.status # 1 THEN Failed("UpstreamFailure")
    ELSE IF Invalid \in numbers THEN Failed("InvalidResponse")
    ELSE answer

----------------------------------------------------------------------------
(* Conversions.                                                            *)

\* The sign and the digits before the point; what follows the point is cut off,
\* an exponent too, and an exponent after the digits is no digit.  The digits are
\* parsed without the sign, so that i64::MIN does not fit.
parse_money_text(n) ==
    LET unsigned == IF n.tenths < 0 THEN -n.tenths ELSE n.tenths
        parsed == unsigned \div 10
    IN  IF \/ n = Malformed
           \/ n.exponent # 0 /\ unsigned % 10 = 0
           \/ parsed > MaxMoney
        THEN Invalid
        ELSE IF n.tenths < 0 THEN -parsed ELSE parsed

\* A field that is left out counts as 0.
normalize_money_value(v) == IF v = Absent THEN 0 ELSE parse_money_text(v)
normalize_decimal_value(v) ==
    IF v = Absent THEN [tenths |-> 0, exponent |-> 0] ELSE IF v = Malformed THEN Invalid ELSE v

\* A list that is left out is empty.
OrEmpty(v, empty) == IF v = Absent THEN empty ELSE v

MoneyInfoUser(rec) ==
    [user_code |-> rec.user_code, number |-> normalize_money_value(rec.balance)]
CallPlayerRecord(rec) ==
    [user_code |-> rec.user_code, number |-> normalize_money_value(rec.balance)]
CallHistoryRecord(rec) ==
    [user_code |-> rec.user_code, number |-> normalize_money_value(rec.user_prev)]

NumbersOf(records) == {rec.number : rec \in records}

----------------------------------------------------------------------------
(* What is sent: required_string_param fails on a blank text, and so does  *)
(* the method (InvalidConfig).  Codes of users are never blank.            *)

required_string_param(t) == ~Blank(t)

game_list_params(provider_code) == required_string_param(provider_code)
game_launch_params(q) == required_string_param(q.provider_code)
transfer_status_params(q) == required_string_param(q.agent_sign)
call_list_params(q) ==
    required_string_param(q.provider_code) /\ required_string_param(q.game_code)
call_apply_params(q) ==
    required_string_param(q.provider_code) /\ required_string_param(q.game_code)
control_rtp_params(q) == q.rtp >= 0 /\ required_string_param(q.provider_code)
control_users_rtp_params(q) == q.user_codes # {} /\ q.rtp >= 0

----------------------------------------------------------------------------
(* What is received.                                                       *)

\* Whatever a conversion of a field that must be there makes of it.
Present(v) == IF v \in {Absent, Malformed} THEN {Invalid} ELSE {}

provider_list(raw) == Typed(raw, {}, Success({}, OrEmpty(raw.providers, {})))
game_list(raw) == Typed(raw, {}, Success({}, OrEmpty(raw.games, {})))
game_list_v2(raw) == Typed(raw, {}, Success({}, OrEmpty(raw.games, {})))

game_launch(raw) == Typed(raw, Present(raw.launch_url), Success({}, {}))

money_info(raw) ==
    LET user == NumbersOf({MoneyInfoUser(rec) : rec \in OrEmpty(raw.user, {})})
        list == {MoneyInfoUser(rec) : rec \in OrEmpty(raw.user_list, {})}
    IN  Typed(raw, user \cup NumbersOf(list), Success(user, list))

transfer_status(raw) ==
    LET number == normalize_money_value(raw.user_balance)
    IN  Typed(raw, {normalize_money_value(raw.amount),
                    normalize_money_value(raw.agent_balance), number}, Success({number}, {}))

call_players(raw) ==
    LET records == {CallPlayerRecord(rec) : rec \in OrEmpty(raw.data, {})}
    IN  Typed(raw, NumbersOf(records), Success({}, records))

call_list(raw) == Typed(raw, {}, Success({}, {}))

call_apply(raw) ==
    Typed(raw, {normalize_money_value(raw.called_money)}, Success({}, {}))

call_history(raw) ==
    LET records == {CallHistoryRecord(rec) : rec \in OrEmpty(raw.data, {})}
    IN  Typed(raw, NumbersOf(records), Success({}, records))

call_cancel(raw) ==
    Typed(raw, {normalize_money_value(raw.canceled_money)}, Success({}, {}))

control_rtp(raw) ==
    Typed(raw, {normalize_decimal_value(raw.changed_rtp)}, Success({}, {}))

control_users_rtp(raw) ==
    Typed(raw, {normalize_decimal_value(raw.changed_rtp)}, Success({}, {}))
=============================================================================
