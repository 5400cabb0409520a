--------------------------- MODULE GameBridgeProofs ---------------------------
(***************************************************************************)
(* Type correctness of GameBridge, and that its answers are about the      *)
(* toko's own players, its successes true and its requests never refused   *)
(* by the client.                                                          *)
(*                                                                         *)
(* What is known of a handler depends on its own record, the players table,*)
(* the calls and the failures only (Safe), and it survives when players    *)
(* are added, calls are closed and something fails; so each step is judged *)
(* by the one record it changes.                                           *)
(***************************************************************************)
EXTENDS GameBridge, SequenceTheorems, TLAPS

Asks == Ops \ {"balance", "merchant_active"}
Call == [code : Codes, open : BOOLEAN]

\* What a phase says of the record.
Phased(h) ==
    /\ h.phase \in {"ask", "map", "store"} => h.op \in Asks /\ h.result = "ok"
    /\ h.phase = "ask" => h.did = {} /\ h.answer = {} /\ h.shown = {} /\ h.known = {}
    /\ h.phase = "store" => h.op \in Lists /\ h.did = {} /\ h.answer = {} /\ h.shown = {}
    /\ h.phase = "map" => h.op \in Mapped
    /\ h.phase \in {"ask", "store"} /\ h.op \in Lists => h.args.key \in Keys

\* The name is that of the row, but for its case.
Names(n, row) == Lower(row.name) = Lower(n)

\* The rows are the players of the toko with the names it asked for, and a single
\* one where one name is asked for.
Looked(h, P) ==
    /\ h.op # "control_users_rtp" => \A p, q \in h.rows : p = q
    /\ \A row \in h.rows :
          row \in P /\ row.toko = h.toko /\ \E n \in h.names : Names(n, row)
    /\ h.phase = "ask" => \A n \in h.names : \E row \in h.rows : Names(n, row)
    /\ h.op \in {"transfer_status", "call_apply"} /\ h.phase = "ask" => h.names # {}

Honest(a, F) == a.user_code \in Codes => Tells(a.number, a.user_code, F)

Shows(s, t, P, F) ==
    \E row \in P : row.toko = t /\ row.name = s.name /\ Tells(s.number, row.code, F)

\* What is answered comes from the toko's players.
Truthful(h, P, F) ==
    /\ \A a \in h.answer : Honest(a, F)
    /\ \A row \in h.known : row \in P /\ row.toko = h.toko
    /\ \A s \in h.shown : Shows(s, h.toko, P, F)
    /\ h.phase = "done" /\ h.result = "ok" => ShowsAll(h)

\* What was done was asked for, and success means it was done.
Carried(h, C) ==
    /\ h.did \subseteq CodesOf(h.rows)
    /\ h.phase = "done" /\ h.result = "ok" /\ h.op \in Commands =>
          \A n \in h.names : \E row \in h.rows : Names(n, row) /\ row.code \in h.did
    /\ h.phase = "done" /\ h.result = "ok" /\ h.op = "call_cancel" =>
          h.args.call_id \in DOMAIN C /\ ~C[h.args.call_id].open
    /\ h.result # "internal"

Safe(h, P, C, F) == Phased(h) /\ Looked(h, P) /\ Truthful(h, P, F) /\ Carried(h, C)

Kept(C, D) ==
    /\ DOMAIN C \subseteq DOMAIN D
    /\ \A i \in DOMAIN C : ~C[i].open => ~D[i].open

Inv ==
    /\ TypeOK
    /\ \A r \in Requests : Safe(request[r], players, calls, faults)

----------------------------------------------------------------------------
(* Texts and validation.                                                   *)

\* Trimming and folding keep the letters of a text.
LEMMA Texts ==
    ASSUME NEW t \in Text
    PROVE  /\ Trim(t) \in Text /\ Trim(t).word = t.word
           /\ Fold(t) \in Text /\ Fold(t).word = t.word
BY DEF Text, Trim, Fold

\* Lower case stays lower case.
LEMMA LowerTwice == ASSUME NEW t \in Text PROVE Lower(Lower(t)) = Lower(t)
BY DEF Text, Lower

\* A text that fits a limit is one the client sends.
LEMMA FittingIsCallable ==
    ASSUME NEW t \in Text, NEW most, Fits(t, most)
    PROVE  required_string_param(Trim(t))
<1>1. Size[t.word] \in 1..most
  BY DEF Fits
<1>2. Size[Trim(t).word] # 0
  BY <1>1, Texts
<1> QED
  BY <1>2 DEF required_string_param, Blank

\* What an optional text or a default makes of a field.
LEMMA Optionals ==
    ASSUME NEW t \in Text \cup {Missing}
    PROVE  /\ Optional(t) \in Text \cup {Missing}
           /\ OptionalName(t) \in Text \cup {Missing}
BY RequestsAssumption, Texts DEF Optional, OptionalName

----------------------------------------------------------------------------
(* Records.                                                                *)

\* A handler that ends keeps everything but its phase and its result.
LEMMA ClosedFields ==
    ASSUME NEW h \in Handling, NEW result \in Results
    PROVE  LET c == Closed(h, result)
           IN  /\ c \in Handling
               /\ c.phase = "done" /\ c.result = result
               /\ c.op = h.op /\ c.toko = h.toko /\ c.args = h.args /\ c.names = h.names
               /\ c.rows = h.rows /\ c.list = h.list /\ c.answer = h.answer
               /\ c.shown = h.shown /\ c.known = h.known /\ c.did = h.did
BY DEF Closed, Handling

\* Idle handlers, and those that have only been told what they are.
LEMMA IdleTyped == Idle \in Handling
BY DEF Idle, Handling, Args, NoArgs, Results

----------------------------------------------------------------------------
(* What the client makes of an answer.                                     *)

Errors == {"none", "Transport", "UpstreamFailure", "InvalidResponse"}

\* The client reports what it was given, and only if the status is 1 and every
\* number could be read.
LEMMA TypedAnswer ==
    ASSUME NEW raw, NEW numbers, NEW user, NEW records
    PROVE  LET a == Typed(raw, numbers, Success(user, records))
           IN  /\ a.error \in Errors
               /\ a.error = "none" =>
                     /\ raw.status = 1 /\ Invalid \notin numbers
                     /\ a.user = user /\ a.records = records
BY DEF Typed, Success, Failed, Errors

\* A number that is parsed loses its fraction, and nothing else.
LEMMA ParsedWhole ==
    ASSUME NEW raw \in RawNumber, parse_money_text(raw) # Invalid
    PROVE  parse_money_text(raw) \in Int /\ WholePart(parse_money_text(raw), raw)
<1> DEFINE unsigned == IF raw.tenths < 0 THEN -raw.tenths ELSE raw.tenths
           parsed == unsigned \div 10
<1>1. raw.tenths \in Int /\ unsigned \in Nat
  BY DEF RawNumber
<1>2. parsed \in Nat /\ unsigned - 10 * parsed \in 0..9
  <2> HIDE DEF unsigned
  <2> QED
    BY <1>1, SMTT(30)
<1>3. parse_money_text(raw) = IF raw.tenths < 0 THEN -parsed ELSE parsed
  BY DEF parse_money_text
<1> HIDE DEF parsed
<1>4. CASE raw.tenths < 0
  BY <1>1, <1>2, <1>3, <1>4 DEF WholePart
<1>5. CASE raw.tenths >= 0
  BY <1>1, <1>2, <1>3, <1>5 DEF WholePart
<1> QED
  BY <1>1, <1>4, <1>5

\* A number that can be read is the user's, or 0 when it was left out.
LEMMA NumberRead ==
    ASSUME NEW c \in Codes, NEW kind, NEW F, kind # "none" => F # 0,
           normalize_money_value(Sent(kind, Wallet[c])) # Invalid
    PROVE  LET n == normalize_money_value(Sent(kind, Wallet[c]))
           IN  n \in Int /\ Tells(n, c, F)
<1>1. Wallet[c] \in RawNumber /\ Wallet[c] # Absent
  BY GameAssumption, ClientAssumption
<1>2. CASE Sent(kind, Wallet[c]) = Absent
  <2>1. kind # "none"
    BY <1>1, <1>2 DEF Sent
  <2> QED
    BY <1>2, <2>1 DEF normalize_money_value, Tells
<1>3. CASE Sent(kind, Wallet[c]) # Absent
  <2>1. normalize_money_value(Sent(kind, Wallet[c])) = parse_money_text(Wallet[c])
    <3>1. CASE kind = "malformed"
      BY <1>3, <3>1 DEF Sent, normalize_money_value, parse_money_text
    <3>2. CASE kind # "malformed"
      BY <1>3, <3>2 DEF Sent, normalize_money_value
    <3> QED
      BY <3>1, <3>2
  <2> QED
    BY <1>1, <2>1, ParsedWhole DEF Tells
<1> QED
  BY <1>2, <1>3

\* So are the records of users: each is of one of the users, with its number.
Reads(records, codes, F) ==
    Invalid \notin NumbersOf(records) =>
        /\ records \subseteq Reported
        /\ \A a \in records : Honest(a, F)
        /\ \A a \in records : \E c \in codes : Tells(a.number, c, F)

\* What is made of the record of one user.
LEMMA RecordRead ==
    ASSUME NEW codes \in SUBSET Codes, NEW kind, NEW F, kind # "none" => F # 0, NEW a,
           NEW rec \in OrEmpty(UserRecords(kind, codes), {}),
           a = MoneyInfoUser(rec) \/ a = CallPlayerRecord(rec) \/ a = CallHistoryRecord(rec),
           a.number # Invalid
    PROVE  a \in Reported /\ Honest(a, F) /\ \E c \in codes : Tells(a.number, c, F)
<1>2. rec \in UserRecords(kind, codes) /\ UserRecords(kind, codes) # Absent
  BY DEF OrEmpty
<1>3. PICK c \in codes : rec = UserRecord(kind, c)
  BY <1>2 DEF UserRecords
<1>4. rec.balance = Sent(kind, Wallet[c]) /\ rec.user_prev = Sent(kind, Wallet[c])
      /\ rec.user_code \in {Absent, c}
  BY <1>3 DEF UserRecord
<1>5. a = [user_code |-> rec.user_code, number |-> normalize_money_value(Sent(kind, Wallet[c]))]
  BY <1>4 DEF MoneyInfoUser, CallPlayerRecord, CallHistoryRecord
<1>7. a.number \in Int /\ Tells(a.number, c, F)
  BY <1>5, NumberRead
<1> QED
  BY <1>4, <1>5, <1>7, GameAssumption DEF Reported, Honest

\* What is made of the users of /money_info, of the players that may be called,
\* and of the calls.
LEMMA RecordsRead ==
    ASSUME NEW codes \in SUBSET Codes, NEW kind, NEW F, kind # "none" => F # 0
    PROVE  LET raw == OrEmpty(UserRecords(kind, codes), {})
           IN  /\ Reads({MoneyInfoUser(rec) : rec \in raw}, codes, F)
               /\ Reads({CallPlayerRecord(rec) : rec \in raw}, codes, F)
               /\ Reads({CallHistoryRecord(rec) : rec \in raw}, codes, F)
<1> DEFINE raw == OrEmpty(UserRecords(kind, codes), {})
           Read(records) == \A a \in records : \E rec \in raw :
               a = MoneyInfoUser(rec) \/ a = CallPlayerRecord(rec) \/ a = CallHistoryRecord(rec)
<1>1. ASSUME NEW records, Read(records) PROVE Reads(records, codes, F)
  <2> SUFFICES ASSUME Invalid \notin NumbersOf(records), NEW a \in records
               PROVE  a \in Reported /\ Honest(a, F) /\ \E c \in codes : Tells(a.number, c, F)
    BY DEF Reads
  <2>1. a.number # Invalid
    BY DEF NumbersOf
  <2> QED
    BY <1>1, <2>1, RecordRead
<1>2. /\ Read({MoneyInfoUser(rec) : rec \in raw})
      /\ Read({CallPlayerRecord(rec) : rec \in raw})
      /\ Read({CallHistoryRecord(rec) : rec \in raw})
  OBVIOUS
<1> QED
  BY <1>1, <1>2

\* What a handler may make of an answer: it has this status, its numbers are
\* those of the players asked about, its records those of users, or a list.
AnswersTo(h, status, a, F) ==
    /\ a.error \in Errors
    /\ a.error = "none" =>
          /\ status = 1
          /\ \A n \in a.user : n \in Int /\ \E row \in h.rows : Tells(n, row.code, F)
          /\ h.op \in Commands => a.user = {}
          /\ h.op \in Lists => a.records \subseteq Items
          /\ h.op \in Mapped => a.records \subseteq Reported /\ \A x \in a.records : Honest(x, F)

\* Every answer is such an answer.
LEMMA AnswerFacts ==
    ASSUME NEW h \in Handling, NEW status, NEW kind, NEW F, kind # "none" => F # 0,
           h.op \in Asks, TypeOK,
           h.op \in Lists => h.args.key \in Keys,
           h.op = "transfer_status" => h.rows # {}
    PROVE  AnswersTo(h, status, Answer(h, status, kind), F)
<1> DEFINE a == Answer(h, status, kind)
           list == IF kind = "empty" THEN Absent ELSE Content(h.args.key, catalogue[h.args.key])
<1>1. h.rows \subseteq Row /\ CodesOf(h.rows) \subseteq Codes
  BY DEF Handling, CodesOf, Row
<1>2. Page(h.args) \subseteq Codes
  <2>1. calls \in Seq(Call)
    BY DEF TypeOK, Call
  <2>2. \A i \in DOMAIN calls : calls[i] \in Call
    BY <2>1
  <2>3. \A i \in DOMAIN calls : calls[i].code \in Codes
    BY <2>2 DEF Call
  <2> QED
    BY <2>3 DEF Page
<1>3. h.op \in Lists => OrEmpty(list, {}) \subseteq Items
  BY DEF TypeOK, OrEmpty, Content, Items
<1>4. CASE h.op \in Lists
  <2>1. \E raw : raw.status = status /\ a = Typed(raw, {}, Success({}, OrEmpty(list, {})))
    <3>1. CASE h.op = "providers"
      <4> DEFINE raw == [status |-> status, providers |-> list]
      <4>1. a = provider_list(raw)
        BY <3>1 DEF Answer
      <4> QED
        BY <4>1 DEF provider_list
    <3>2. CASE h.op = "games" \/ h.op = "games_v2"
      <4> DEFINE raw == [status |-> status, games |-> list]
      <4>1. a = game_list(raw) \/ a = game_list_v2(raw)
        BY <3>2 DEF Answer
      <4> QED
        BY <4>1 DEF game_list, game_list_v2
    <3> QED
      BY <1>4, <3>1, <3>2 DEF Lists
  <2> QED
    BY <1>3, <1>4, <2>1, TypedAnswer DEF AnswersTo, Lists, Commands, Mapped
<1>5. CASE h.op \in {"game_launch", "call_list", "call_apply", "call_cancel", "control_rtp",
                     "control_users_rtp"}
  <2>1. \E raw, numbers : raw.status = status /\ a = Typed(raw, numbers, Success({}, {}))
    <3>1. CASE h.op = "game_launch"
      BY <3>1 DEF Answer, game_launch
    <3>2. CASE h.op = "call_list"
      BY <3>2 DEF Answer, call_list
    <3>3. CASE h.op = "call_apply"
      BY <3>3 DEF Answer, call_apply
    <3>4. CASE h.op = "call_cancel"
      BY <3>4 DEF Answer, call_cancel
    <3>5. CASE h.op = "control_rtp"
      BY <3>5 DEF Answer, control_rtp
    <3>6. CASE h.op = "control_users_rtp"
      BY <3>6 DEF Answer, control_users_rtp
    <3> QED
      BY <1>5, <3>1, <3>2, <3>3, <3>4, <3>5, <3>6
  <2> QED
    BY <1>5, <2>1, TypedAnswer DEF AnswersTo, Lists, Commands, Mapped
<1>6. CASE h.op = "money_info"
  <2> DEFINE users == IF h.args.all_users THEN Codes ELSE {}
             raw == [status |-> status, user |-> UserRecords(kind, CodesOf(h.rows)),
                     user_list |-> UserRecords(kind, users)]
             asked == {MoneyInfoUser(rec) : rec \in OrEmpty(raw.user, {})}
             all == {MoneyInfoUser(rec) : rec \in OrEmpty(raw.user_list, {})}
  <2>1. a = Typed(raw, NumbersOf(asked) \cup NumbersOf(all), Success(NumbersOf(asked), all))
    BY <1>6 DEF Answer, money_info
  <2>2. Reads(asked, CodesOf(h.rows), F) /\ Reads(all, users, F)
    BY <1>1, RecordsRead
  <2>3. Invalid \notin NumbersOf(asked) =>
            \A n \in NumbersOf(asked) : n \in Int /\ \E row \in h.rows : Tells(n, row.code, F)
    BY <2>2, ZenonT(40) DEF Reads, NumbersOf, CodesOf, Reported
  <2> HIDE DEF raw, asked, all
  <2>4. raw.status = status
    BY DEF raw
  <2>5. /\ a.error \in Errors
        /\ a.error = "none" =>
              /\ status = 1 /\ Invalid \notin NumbersOf(asked) \cup NumbersOf(all)
              /\ a.user = NumbersOf(asked) /\ a.records = all
    BY <2>1, <2>4, TypedAnswer
  <2>6. a.error = "none" => all \subseteq Reported /\ \A x \in all : Honest(x, F)
    BY <2>2, <2>5 DEF Reads
  <2> HIDE DEF a
  <2>7. h.op \notin Lists /\ h.op \notin Commands
    BY <1>6 DEF Lists, Commands
  <2>8. AnswersTo(h, status, a, F)
    BY <2>3, <2>5, <2>6, <2>7 DEF AnswersTo
  <2> QED
    BY <2>8 DEF a
<1>7. CASE h.op = "transfer_status"
  <2> DEFINE c == CHOOSE c \in CodesOf(h.rows) : TRUE
             number == normalize_money_value(Sent(kind, Wallet[c]))
  <2>1. c \in CodesOf(h.rows)
    BY <1>7 DEF CodesOf
  <2>2. \E raw, numbers : /\ raw.status = status /\ number \in numbers
                          /\ a = Typed(raw, numbers, Success({number}, {}))
    BY <1>7 DEF Answer, transfer_status
  <2> HIDE DEF c
  <2>3. number # Invalid => number \in Int /\ Tells(number, c, F)
    BY <1>1, <2>1, NumberRead
  <2>4. number # Invalid => number \in Int /\ \E row \in h.rows : Tells(number, row.code, F)
    BY <2>1, <2>3 DEF CodesOf
  <2> HIDE DEF number
  <2>5. /\ a.error \in Errors
        /\ a.error = "none" => status = 1 /\ number # Invalid /\ a.user = {number}
    <3> HIDE DEF a
    <3> QED
      BY <2>2, TypedAnswer, SMTT(30)
  <2> HIDE DEF a
  <2>6. h.op \notin Lists /\ h.op \notin Mapped /\ h.op \notin Commands
    BY <1>7 DEF Lists, Mapped, Commands
  <2>7. AnswersTo(h, status, a, F)
    BY <2>4, <2>5, <2>6 DEF AnswersTo
  <2> QED
    BY <2>7 DEF a
<1>8. CASE h.op \in {"call_players", "call_history"}
  <2>1. \E raw, records : \E codes \in SUBSET Codes :
            /\ raw.status = status
            /\ a = Typed(raw, NumbersOf(records), Success({}, records))
            /\ Reads(records, codes, F)
    <3>1. CASE h.op = "call_players"
      <4> DEFINE raw == [status |-> status, data |-> UserRecords(kind, Codes)]
      <4>1. a = call_players(raw)
        BY <3>1 DEF Answer
      <4>2. Reads({CallPlayerRecord(rec) : rec \in OrEmpty(raw.data, {})}, Codes, F)
        BY RecordsRead
      <4>3. /\ raw.status = status
            /\ LET records == {CallPlayerRecord(rec) : rec \in OrEmpty(raw.data, {})}
               IN  a = Typed(raw, NumbersOf(records), Success({}, records))
        BY <4>1 DEF call_players
      <4> HIDE DEF raw, a
      <4> QED
        BY <4>2, <4>3
    <3>2. CASE h.op = "call_history"
      <4> DEFINE raw == [status |-> status, data |-> UserRecords(kind, Page(h.args))]
      <4>1. a = call_history(raw)
        BY <3>2 DEF Answer
      <4>2. Reads({CallHistoryRecord(rec) : rec \in OrEmpty(raw.data, {})}, Page(h.args), F)
        BY <1>2, RecordsRead
      <4>3. /\ raw.status = status
            /\ LET records == {CallHistoryRecord(rec) : rec \in OrEmpty(raw.data, {})}
               IN  a = Typed(raw, NumbersOf(records), Success({}, records))
        BY <4>1 DEF call_history
      <4> HIDE DEF raw, a
      <4> QED
        BY <1>2, <4>2, <4>3
    <3> QED
      BY <1>8, <3>1, <3>2
  <2> QED
    BY <1>8, <2>1, TypedAnswer DEF AnswersTo, Lists, Commands, Mapped, Reads
<1> QED
  BY <1>4, <1>5, <1>6, <1>7, <1>8 DEF Asks, Ops, Lists, Commands, Mapped

----------------------------------------------------------------------------
(* One record at a time.                                                   *)

\* What is known of a handler survives new players, closed calls and failures.
LEMMA Monotone ==
    ASSUME NEW h, NEW P, NEW Q, NEW C, NEW D, NEW F, NEW G, Safe(h, P, C, F),
           P \subseteq Q, Kept(C, D), F # 0 => G # 0
    PROVE  Safe(h, Q, D, G)
<1>1. Looked(h, Q)
  BY DEF Safe, Looked
<1>2. Truthful(h, Q, G)
  BY DEF Safe, Truthful, Shows, Honest, Tells
<1>3. Carried(h, D)
  BY DEF Safe, Carried, Kept
<1> QED
  BY <1>1, <1>2, <1>3 DEF Safe

\* Nothing is claimed of an idle handler.
LEMMA IdleSafe == ASSUME NEW P, NEW C, NEW F PROVE Safe(Idle, P, C, F)
BY DEF Idle, Safe, Phased, Looked, Truthful, Carried, CodesOf, Lists

\* A step that changes the record of one handler preserves the invariant if the
\* new record is as it should be.
LEMMA OneRecord ==
    ASSUME Inv, NEW r \in Requests, NEW h \in Handling,
           request' = [request EXCEPT ![r] = h],
           group' = group, players' = players, catalogue' = catalogue,
           balances' \subseteq Toko,
           calls' \in Seq(Call), Kept(calls, calls'),
           cache' \in [Keys -> [list : SUBSET Items, left : 0..Ttl]],
           faults' \in 0..MaxFaults, faults # 0 => faults' # 0,
           Safe(h, players, calls', faults')
    PROVE  Inv'
<1>1. request' \in [Requests -> Handling]
  BY DEF Inv, TypeOK
<1>2. TypeOK'
  BY <1>1 DEF Inv, TypeOK, Call
<1>3. ASSUME NEW s \in Requests PROVE Safe(request[s]', players', calls', faults')
  <2>1. CASE s = r
    BY <2>1 DEF Inv, TypeOK
  <2>2. CASE s # r
    <3>1. request'[s] = request[s]
      BY <2>2 DEF Inv, TypeOK
    <3>2. Safe(request[s], players, calls, faults)
      BY DEF Inv
    <3> QED
      BY <3>1, <3>2, Monotone
  <2> QED
    BY <2>1, <2>2
<1> QED
  BY <1>2, <1>3 DEF Inv

----------------------------------------------------------------------------
(* The start of a handler.                                                 *)

\* A handler that looks its players up finds players of the toko with the names
\* it is about, or it ends.
LEMMA LookupSafe ==
    ASSUME NEW op \in Asks \ Lists, NEW t \in Toko, NEW args \in Args, NEW names \in SUBSET Text,
           TypeOK,
           op # "control_users_rtp" => \A m, n \in names : m = n,
           op \in {"transfer_status", "call_apply"} => names # {},
           NEW h \in Lookup([[Idle EXCEPT !.op = op, !.toko = t]
                                 EXCEPT !.args = args, !.names = names], TRUE)
    PROVE  h \in Handling /\ Safe(h, players, calls, faults)
<1> DEFINE g == [[Idle EXCEPT !.op = op, !.toko = t] EXCEPT !.args = args, !.names = names]
           asks(rows) == [g EXCEPT !.phase = "ask", !.rows = rows]
<1>1. /\ g \in Handling
      /\ g.phase = "idle" /\ g.op = op /\ g.toko = t /\ g.args = args /\ g.names = names
      /\ g.rows = {} /\ g.list = {} /\ g.answer = {} /\ g.shown = {}
      /\ g.known = {} /\ g.did = {} /\ g.result = "ok"
  <2>1. op \in Ops /\ t \in Toko \cup {Missing}
    BY DEF Asks
  <2> QED
    BY <2>1, IdleTyped DEF Idle, Handling
<1> HIDE DEF g
<1>2. ASSUME NEW result \in {"not_found", "database"}
      PROVE  Closed(g, result) \in Handling /\ Safe(Closed(g, result), players, calls, faults)
  <2>1. /\ Closed(g, result) \in Handling
        /\ LET c == Closed(g, result)
           IN  /\ c.phase = "done" /\ c.result = result /\ c.op = op /\ c.names = names
               /\ c.rows = {} /\ c.answer = {} /\ c.shown = {} /\ c.known = {} /\ c.did = {}
    BY <1>1, ClosedFields DEF Results
  <2> DEFINE c == Closed(g, result)
  <2> HIDE DEF c
  <2>2. c.did \subseteq CodesOf(c.rows)
    BY <2>1 DEF c
  <2> QED
    BY <2>1, <2>2 DEF c, Safe, Phased, Looked, Truthful, Carried
<1>3. ASSUME NEW rows \in Picks(op, t, names)
      PROVE  asks(rows) \in Handling /\ Safe(asks(rows), players, calls, faults)
  <2>1. PICK pick \in [names -> players] :
            rows = {pick[n] : n \in names} /\ \A n \in names : pick[n] \in Found(op, t, n)
    BY DEF Picks
  <2>2. ASSUME NEW n \in names
        PROVE  pick[n] \in players /\ pick[n].toko = t /\ Names(n, pick[n])
    <3>1. pick[n] \in players /\ pick[n].toko = t /\ (n = pick[n].name \/ n = Lower(pick[n].name))
      BY <2>1 DEF Found
    <3>2. pick[n].name \in Text
      BY <3>1 DEF TypeOK, Row
    <3> QED
      BY <3>1, <3>2, LowerTwice DEF Names
  <2>3. \A row \in rows : row \in players /\ row.toko = t /\ \E n \in names : Names(n, row)
    BY <2>1, <2>2
  <2>4. \A n \in names : \E row \in rows : Names(n, row)
    BY <2>1, <2>2
  <2>5. op # "control_users_rtp" => \A p, q \in rows : p = q
    BY <2>1
  <2>6. rows \subseteq Row
    BY <2>3 DEF TypeOK
  <2> DEFINE a == asks(rows)
  <2>7. /\ a \in Handling
        /\ a.phase = "ask" /\ a.op = op /\ a.toko = t /\ a.names = names
        /\ a.rows = rows /\ a.answer = {} /\ a.shown = {} /\ a.known = {}
        /\ a.did = {} /\ a.result = "ok"
    BY <1>1, <2>6 DEF Handling
  <2> HIDE DEF a
  <2>8. Phased(a)
    BY <2>7 DEF Phased
  <2>9. Looked(a, players)
    BY <2>3, <2>4, <2>5, <2>7 DEF Looked
  <2>10. Truthful(a, players, faults) /\ Carried(a, calls)
    BY <2>7 DEF Truthful, Carried
  <2> QED
    BY <2>7, <2>8, <2>9, <2>10 DEF Safe, a
<1>4. h \in Lookup(g, TRUE)
  BY DEF g
<1>5. \/ h \in {Closed(g, "not_found"), Closed(g, "database")}
      \/ \E rows \in Picks(op, t, names) : h = asks(rows)
  BY <1>1, <1>4 DEF Lookup
<1> QED
  BY <1>2, <1>3, <1>5

\* An endpoint about players, whose request passes the client's checks if it
\* passes validation.
LEMMA AdmitSafe ==
    ASSUME Inv, NEW r \in Requests, NEW op \in Asks \ Lists, NEW t \in Toko, NEW q,
           NEW args, NEW names, NEW ready \in BOOLEAN,
           Admit(r, op, t, q, args, names, ready),
           q # Rejected =>
               /\ ready /\ args \in Args /\ names \in SUBSET Text
               /\ op # "control_users_rtp" => \A m, n \in names : m = n
               /\ op \in {"transfer_status", "call_apply"} => names # {}
    PROVE  Inv'
<1> DEFINE h == [Idle EXCEPT !.op = op, !.toko = t]
           g == [h EXCEPT !.args = args, !.names = names]
<1>0. PICK c : /\ Starts(r, c) /\ UNCHANGED balances
               /\ IF q = Rejected THEN c = Closed(h, "unprocessable") ELSE c \in Lookup(g, ready)
  BY DEF Admit
<1>1. c \in Handling /\ Safe(c, players, calls, faults)
  <2>1. CASE q = Rejected
    <3>1. /\ h \in Handling /\ h.did = {} /\ h.rows = {} /\ h.answer = {} /\ h.shown = {}
          /\ h.known = {} /\ h.op = op /\ h.names = {}
      <4>1. op \in Ops /\ t \in Toko \cup {Missing} /\ NoArgs \in Args /\ {} \in SUBSET Text
        BY DEF Asks, Args, NoArgs
      <4> QED
        BY <4>1, IdleTyped DEF Idle, Handling
    <3> HIDE DEF h
    <3>2. /\ Closed(h, "unprocessable") \in Handling
          /\ LET d == Closed(h, "unprocessable")
             IN  /\ d.phase = "done" /\ d.result = "unprocessable" /\ d.op = op /\ d.names = {}
                 /\ d.rows = {} /\ d.answer = {} /\ d.shown = {} /\ d.known = {} /\ d.did = {}
      BY <3>1, ClosedFields DEF Results
    <3> DEFINE d == Closed(h, "unprocessable")
    <3> HIDE DEF d
    <3>3. c = d
      BY <1>0, <2>1 DEF d
    <3> QED
      BY <3>2, <3>3 DEF d, Safe, Phased, Looked, Truthful, Carried, CodesOf
  <2>2. CASE q # Rejected
    <3>1. c \in Lookup(g, TRUE)
      BY <1>0, <2>2
    <3> QED
      BY <2>2, <3>1, LookupSafe DEF Inv
  <2> QED
    BY <2>1, <2>2
<1>2. /\ request' = [request EXCEPT ![r] = c]
      /\ UNCHANGED <<group, players, balances, catalogue, calls, cache, faults>>
  BY <1>0 DEF Starts
<1>3. Kept(calls, calls)
  BY DEF Kept
<1> QED
  BY <1>1, <1>2, <1>3, OneRecord DEF Inv, TypeOK, Call

\* Arguments that only keep what some endpoints need.
LEMMA NoArgsTyped == NoArgs \in Args
BY DEF NoArgs, Args

\* A provider code that passes validation is sent.
LEMMA ProviderCallable ==
    ASSUME NEW t \in Text, ValidProvider(t)
    PROVE  required_string_param(Trim(t))
BY FittingIsCallable DEF ValidProvider, validate_provider_code, Accepted

\* /game/launch preserves the invariant.
LEMMA GameLaunchSafe == ASSUME Inv, NEW r \in Requests, GameLaunch(r) PROVE Inv'
<1>1. PICK t \in Toko, b \in GameLaunchBody :
          LET q == validate_game_launch_request(b)
          IN  Admit(r, "game_launch", t, q, NoArgs,
                    {q.username}, game_launch_params(q))
  BY DEF GameLaunch
<1> DEFINE q == validate_game_launch_request(b)
<1>2. q # Rejected => game_launch_params(q) /\ q.username \in Text
  <2> SUFFICES ASSUME q # Rejected PROVE game_launch_params(q) /\ q.username \in Text
    OBVIOUS
  <2>1. /\ ValidProvider(b.provider_code)
        /\ q.username = Fold(b.username) /\ q.provider_code = Trim(b.provider_code)
    BY DEF validate_game_launch_request, Accepted
  <2>2. b.username \in Text /\ b.provider_code \in Text
    BY RequestsAssumption DEF GameLaunchBody
  <2> HIDE DEF q
  <2> QED
    BY <2>1, <2>2, Texts, ProviderCallable DEF game_launch_params
<1> HIDE DEF q
<1>3. game_launch_params(q) \in BOOLEAN
  BY DEF game_launch_params, required_string_param, Blank
<1>4. "game_launch" \in Asks \ Lists
  BY DEF Asks, Ops, Lists, Commands, Mapped
<1> QED
  BY <1>1, <1>2, <1>3, <1>4, AdmitSafe, NoArgsTyped DEF q

\* /transfer/status preserves the invariant.
LEMMA TransferStatusSafe == ASSUME Inv, NEW r \in Requests, TransferStatus(r) PROVE Inv'
<1>1. PICK t \in Toko, b \in TransferStatusBody :
          LET q == validate_transfer_status_request(b)
          IN  Admit(r, "transfer_status", t, q, NoArgs,
                    {q.username}, transfer_status_params(q))
  BY DEF TransferStatus
<1> DEFINE q == validate_transfer_status_request(b)
<1>2. q # Rejected => transfer_status_params(q) /\ q.username \in Text
  <2> SUFFICES ASSUME q # Rejected PROVE transfer_status_params(q) /\ q.username \in Text
    OBVIOUS
  <2>1. /\ Fits(b.agent_sign, 255)
        /\ q.username = Fold(b.username) /\ q.agent_sign = Trim(b.agent_sign)
    BY DEF validate_transfer_status_request, Accepted
  <2>2. b.username \in Text /\ b.agent_sign \in Text
    BY RequestsAssumption DEF TransferStatusBody
  <2> HIDE DEF q
  <2> QED
    BY <2>1, <2>2, Texts, FittingIsCallable DEF transfer_status_params
<1> HIDE DEF q
<1>3. transfer_status_params(q) \in BOOLEAN
  BY DEF transfer_status_params, required_string_param, Blank
<1>4. "transfer_status" \in Asks \ Lists
  BY DEF Asks, Ops, Lists, Commands, Mapped
<1> QED
  BY <1>1, <1>2, <1>3, <1>4, AdmitSafe, NoArgsTyped DEF q

\* /call/list preserves the invariant.
LEMMA CallListSafe == ASSUME Inv, NEW r \in Requests, CallList(r) PROVE Inv'
<1>1. PICK t \in Toko, b \in CallListBody :
          LET q == validate_call_list_request(b)
          IN  Admit(r, "call_list", t, q, NoArgs,
                    {}, call_list_params(q))
  BY DEF CallList
<1> DEFINE q == validate_call_list_request(b)
<1>2. q # Rejected => call_list_params(q)
  <2> SUFFICES ASSUME q # Rejected PROVE call_list_params(q)
    OBVIOUS
  <2>1. /\ Fits(b.provider_code, 50) /\ Fits(b.game_code, 50)
        /\ q.provider_code = Trim(b.provider_code) /\ q.game_code = Trim(b.game_code)
    BY DEF validate_call_list_request, Accepted
  <2>2. b.provider_code \in Text /\ b.game_code \in Text
    BY RequestsAssumption DEF CallListBody
  <2> HIDE DEF q
  <2> QED
    BY <2>1, <2>2, FittingIsCallable DEF call_list_params
<1> HIDE DEF q
<1>3. call_list_params(q) \in BOOLEAN
  BY DEF call_list_params, required_string_param, Blank
<1>4. "call_list" \in Asks \ Lists
  BY DEF Asks, Ops, Lists, Commands, Mapped
<1> QED
  BY <1>1, <1>2, <1>3, <1>4, AdmitSafe, NoArgsTyped DEF q

\* /call/apply preserves the invariant.
LEMMA CallApplySafe == ASSUME Inv, NEW r \in Requests, CallApply(r) PROVE Inv'
<1>1. PICK t \in Toko, b \in CallApplyBody :
          LET q == validate_call_apply_request(b)
          IN  Admit(r, "call_apply", t, q, NoArgs,
                    {q.username}, call_apply_params(q))
  BY DEF CallApply
<1> DEFINE q == validate_call_apply_request(b)
<1>2. q # Rejected => call_apply_params(q) /\ q.username \in Text
  <2> SUFFICES ASSUME q # Rejected PROVE call_apply_params(q) /\ q.username \in Text
    OBVIOUS
  <2>1. /\ ValidProvider(b.provider_code) /\ Fits(b.game_code, 50)
        /\ q.username = Fold(b.username)
        /\ q.provider_code = Trim(b.provider_code) /\ q.game_code = Trim(b.game_code)
    BY DEF validate_call_apply_request, Accepted
  <2>2. b.username \in Text /\ b.provider_code \in Text /\ b.game_code \in Text
    BY RequestsAssumption DEF CallApplyBody
  <2> HIDE DEF q
  <2> QED
    BY <2>1, <2>2, Texts, ProviderCallable, FittingIsCallable DEF call_apply_params
<1> HIDE DEF q
<1>3. call_apply_params(q) \in BOOLEAN
  BY DEF call_apply_params, required_string_param, Blank
<1>4. "call_apply" \in Asks \ Lists
  BY DEF Asks, Ops, Lists, Commands, Mapped
<1> QED
  BY <1>1, <1>2, <1>3, <1>4, AdmitSafe, NoArgsTyped DEF q

\* /call/history preserves the invariant.
LEMMA CallHistorySafe == ASSUME Inv, NEW r \in Requests, CallHistory(r) PROVE Inv'
<1>1. PICK t \in Toko, b \in CallHistoryBody :
          LET q == validate_call_history_request(b)
          IN  Admit(r, "call_history", t, q, [NoArgs EXCEPT !.offset = q.offset, !.limit = q.limit],
                    {}, TRUE)
  BY DEF CallHistory
<1> DEFINE q == validate_call_history_request(b)
<1>2. q # Rejected => [NoArgs EXCEPT !.offset = q.offset, !.limit = q.limit] \in Args
  <2> SUFFICES ASSUME q # Rejected PROVE q.offset \in Int /\ q.limit \in Int
    BY NoArgsTyped DEF Args
  <2>1. q.offset = Default(b.offset, 0) /\ q.limit = Default(b.limit, 50)
    BY DEF validate_call_history_request, Accepted
  <2>2. b.offset \in Int \cup {Missing} /\ b.limit \in Int \cup {Missing}
    BY RequestsAssumption DEF CallHistoryBody, MaybeNumber
  <2> HIDE DEF q
  <2> QED
    BY <2>1, <2>2 DEF Default
<1> HIDE DEF q
<1>4. "call_history" \in Asks \ Lists
  BY DEF Asks, Ops, Lists, Commands, Mapped
<1> QED
  BY <1>1, <1>2, <1>4, AdmitSafe, NoArgsTyped DEF q

\* /call/cancel preserves the invariant.
LEMMA CallCancelSafe == ASSUME Inv, NEW r \in Requests, CallCancel(r) PROVE Inv'
<1>1. PICK t \in Toko, b \in CallCancelBody :
          LET q == validate_call_cancel_request(b)
          IN  Admit(r, "call_cancel", t, q, [NoArgs EXCEPT !.call_id = q.call_id],
                    {}, TRUE)
  BY DEF CallCancel
<1> DEFINE q == validate_call_cancel_request(b)
<1>2. q # Rejected => [NoArgs EXCEPT !.call_id = q.call_id] \in Args
  <2> SUFFICES ASSUME q # Rejected PROVE q.call_id \in Int
    BY NoArgsTyped DEF Args
  <2>1. q = b
    BY DEF validate_call_cancel_request, Accepted
  <2>2. b.call_id \in Int
    BY RequestsAssumption DEF CallCancelBody
  <2> HIDE DEF q
  <2> QED
    BY <2>1, <2>2
<1> HIDE DEF q
<1>4. "call_cancel" \in Asks \ Lists
  BY DEF Asks, Ops, Lists, Commands, Mapped
<1> QED
  BY <1>1, <1>2, <1>4, AdmitSafe, NoArgsTyped DEF q

\* /game/rtp preserves the invariant.
LEMMA ControlRtpSafe == ASSUME Inv, NEW r \in Requests, ControlRtp(r) PROVE Inv'
<1>1. PICK t \in Toko, b \in ControlRtpBody :
          LET q == validate_control_rtp_request(b)
          IN  Admit(r, "control_rtp", t, q, NoArgs,
                    {q.username}, control_rtp_params(q))
  BY DEF ControlRtp
<1> DEFINE q == validate_control_rtp_request(b)
<1>2. q # Rejected => control_rtp_params(q) /\ q.username \in Text
  <2> SUFFICES ASSUME q # Rejected PROVE control_rtp_params(q) /\ q.username \in Text
    OBVIOUS
  <2>1. /\ ValidProvider(b.provider_code) /\ b.rtp >= 0 /\ q.rtp = b.rtp
        /\ q.username = Fold(b.username) /\ q.provider_code = Trim(b.provider_code)
    BY DEF validate_control_rtp_request, Accepted
  <2>2. b.username \in Text /\ b.provider_code \in Text
    BY RequestsAssumption DEF ControlRtpBody
  <2> HIDE DEF q
  <2> QED
    BY <2>1, <2>2, Texts, ProviderCallable DEF control_rtp_params
<1> HIDE DEF q
<1>3. control_rtp_params(q) \in BOOLEAN
  BY DEF control_rtp_params, required_string_param, Blank
<1>4. "control_rtp" \in Asks \ Lists
  BY DEF Asks, Ops, Lists, Commands, Mapped
<1> QED
  BY <1>1, <1>2, <1>3, <1>4, AdmitSafe, NoArgsTyped DEF q

\* /users/rtp preserves the invariant.
LEMMA ControlUsersRtpSafe == ASSUME Inv, NEW r \in Requests, ControlUsersRtp(r) PROVE Inv'
<1>1. PICK t \in Toko, b \in ControlUsersRtpBody :
          LET q == validate_control_users_rtp_request(b)
          IN  Admit(r, "control_users_rtp", t, q, NoArgs,
                    q.user_codes, control_users_rtp_params(q))
  BY DEF ControlUsersRtp
<1> DEFINE q == validate_control_users_rtp_request(b)
<1>2. q # Rejected => control_users_rtp_params(q) /\ q.user_codes \in SUBSET Text
  <2> SUFFICES ASSUME q # Rejected
               PROVE  control_users_rtp_params(q) /\ q.user_codes \in SUBSET Text
    OBVIOUS
  <2>1. /\ b.user_codes # {} /\ b.rtp >= 0 /\ q.rtp = b.rtp
        /\ q.user_codes = {Fold(name) : name \in b.user_codes}
    BY DEF validate_control_users_rtp_request, Accepted
  <2>2. b.user_codes \subseteq Text
    BY RequestsAssumption DEF ControlUsersRtpBody
  <2> HIDE DEF q
  <2>3. q.user_codes \subseteq Text
    BY <2>1, <2>2, Texts
  <2>4. q.user_codes # {}
    BY <2>1
  <2> QED
    BY <2>1, <2>3, <2>4 DEF control_users_rtp_params
<1> HIDE DEF q
<1>3. control_users_rtp_params(q) \in BOOLEAN
  BY DEF control_users_rtp_params
<1>4. "control_users_rtp" \in Asks \ Lists
  BY DEF Asks, Ops, Lists, Commands, Mapped
<1> QED
  BY <1>1, <1>2, <1>3, <1>4, AdmitSafe, NoArgsTyped DEF q

\* /call/players preserves the invariant.
LEMMA CallPlayersSafe == ASSUME Inv, NEW r \in Requests, CallPlayers(r) PROVE Inv'
<1>1. PICK t \in Toko : Admit(r, "call_players", t, NoArgs, NoArgs, {}, TRUE)
  BY DEF CallPlayers
<1>2. "call_players" \in Asks \ Lists
  BY DEF Asks, Ops, Lists, Commands, Mapped
<1> QED
  BY <1>1, <1>2, AdmitSafe, NoArgsTyped

\* A handler that ends without having done anything.
LEMMA ClosedSafe ==
    ASSUME NEW h \in Handling, NEW result \in Results \ {"internal"}, NEW P, NEW C, NEW F,
           h.names = {}, h.rows = {}, h.answer = {}, h.shown = {}, h.known = {}, h.did = {},
           result = "ok" => h.op # "call_cancel"
    PROVE  Closed(h, result) \in Handling /\ Safe(Closed(h, result), P, C, F)
<1> DEFINE c == Closed(h, result)
<1>1. /\ c \in Handling
      /\ c.phase = "done" /\ c.result = result /\ c.op = h.op /\ c.names = {} /\ c.rows = {}
      /\ c.answer = {} /\ c.shown = {} /\ c.known = {} /\ c.did = {}
  BY ClosedFields
<1> HIDE DEF c
<1>2. Phased(c) /\ Looked(c, P)
  BY <1>1 DEF Phased, Looked
<1>3. Truthful(c, P, F) /\ Carried(c, C)
  BY <1>1 DEF Truthful, ShowsAll, Carried, CodesOf
<1> QED
  BY <1>1, <1>2, <1>3 DEF c, Safe

\* What OneRecord asks of the variables a start leaves alone.
LEMMA StartsSafe ==
    ASSUME Inv, NEW r \in Requests, NEW h \in Handling, Safe(h, players, calls, faults),
           request' = [request EXCEPT ![r] = h], balances' \subseteq Toko,
           UNCHANGED <<group, players, catalogue, calls, cache, faults>>
    PROVE  Inv'
<1>1. Kept(calls, calls')
  BY DEF Kept
<1> QED
  BY <1>1, OneRecord DEF Inv, TypeOK, Call

\* /money-info preserves the invariant, whether it names a user or not.
LEMMA MoneyInfoSafe == ASSUME Inv, NEW r \in Requests, MoneyInfo(r) PROVE Inv'
<1> DEFINE begun(t) == [Idle EXCEPT !.op = "money_info", !.toko = t]
           named(t, q) == [begun(t) EXCEPT !.args = [NoArgs EXCEPT !.all_users = q.all_users],
                                           !.names = {q.username} \ {Missing}]
<1>1. PICK t \in Toko, b \in MoneyInfoBody :
          LET q == validate_money_info_request(b)
          IN  \/ Starts(r, Closed(begun(t), "unprocessable")) /\ UNCHANGED balances
              \/ /\ q # Rejected /\ load_or_create_balance(t)
                 /\ \E h \in Lookup(named(t, q), TRUE) : Starts(r, h)
  BY DEF MoneyInfo
<1> DEFINE q == validate_money_info_request(b)
<1>2. q # Rejected => q.username \in Text \cup {Missing} /\ q.all_users \in BOOLEAN
  <2> SUFFICES ASSUME q # Rejected
               PROVE  q.username \in Text \cup {Missing} /\ q.all_users \in BOOLEAN
    OBVIOUS
  <2>1. q.username = OptionalName(b.username) /\ q.all_users = Default(b.all_users, FALSE)
    BY DEF validate_money_info_request, Accepted
  <2>2. b.username \in Text \cup {Missing} /\ b.all_users \in BOOLEAN \cup {Missing}
    BY RequestsAssumption DEF MoneyInfoBody, MaybeName, MaybeFlag
  <2> HIDE DEF q
  <2>3. q.all_users \in BOOLEAN
    BY <2>1, <2>2 DEF Default
  <2> QED
    BY <2>1, <2>2, <2>3, Optionals
<1>3. CASE Starts(r, Closed(begun(t), "unprocessable")) /\ UNCHANGED balances
  <2> DEFINE h == begun(t)
  <2>1. "money_info" \in Ops /\ t \in Toko \cup {Missing}
    BY DEF Ops, Mapped
  <2>2. /\ h \in Handling /\ h.names = {} /\ h.rows = {} /\ h.answer = {} /\ h.shown = {}
        /\ h.known = {} /\ h.did = {}
    BY <2>1, IdleTyped DEF Idle, Handling
  <2> HIDE DEF h
  <2>3. Closed(h, "unprocessable") \in Handling /\ Safe(Closed(h, "unprocessable"), players, calls, faults)
    BY <2>2, ClosedSafe DEF Results
  <2>4. /\ request' = [request EXCEPT ![r] = Closed(h, "unprocessable")]
        /\ UNCHANGED <<group, players, catalogue, calls, cache, faults>>
    BY <1>3 DEF Starts, h
  <2> QED
    BY <1>3, <2>3, <2>4, StartsSafe DEF Inv, TypeOK
<1>4. CASE /\ q # Rejected /\ load_or_create_balance(t)
           /\ \E h \in Lookup(named(t, q), TRUE) : Starts(r, h)
  <2> DEFINE args == [NoArgs EXCEPT !.all_users = q.all_users]
             names == {q.username} \ {Missing}
  <2>0. PICK h \in Lookup([[Idle EXCEPT !.op = "money_info", !.toko = t]
                               EXCEPT !.args = args, !.names = names], TRUE) : Starts(r, h)
    BY <1>4
  <2> HIDE DEF q
  <2>1. args \in Args
    BY <1>2, <1>4, NoArgsTyped DEF Args
  <2>2. names \in SUBSET Text /\ \A m, n \in names : m = n
    BY <1>2, <1>4
  <2>3. "money_info" \in Asks \ Lists
    BY DEF Asks, Ops, Lists, Mapped
  <2>5. /\ request' = [request EXCEPT ![r] = h]
        /\ UNCHANGED <<group, players, catalogue, calls, cache, faults>>
    BY <2>0 DEF Starts
  <2> HIDE DEF args, names
  <2>6. h \in Handling /\ Safe(h, players, calls, faults)
    BY <2>1, <2>2, <2>3, LookupSafe DEF Inv
  <2>7. balances' \subseteq Toko
    BY <1>4 DEF load_or_create_balance, Inv, TypeOK
  <2> QED
    BY <2>5, <2>6, <2>7, StartsSafe
<1> QED
  BY <1>1, <1>3, <1>4

\* The endpoints that only read the balance of the toko preserve the invariant.
LEMMA BalanceSafe ==
    ASSUME Inv, NEW r \in Requests, Balance(r) \/ MerchantActive(r)
    PROVE  Inv'
<1>1. PICK t \in Toko, op \in {"balance", "merchant_active"} :
          /\ load_or_create_balance(t)
          /\ Starts(r, Closed([Idle EXCEPT !.op = op, !.toko = t], "ok"))
  BY DEF Balance, MerchantActive
<1> DEFINE h == [Idle EXCEPT !.op = op, !.toko = t]
<1>2. op \in Ops /\ t \in Toko \cup {Missing}
  BY DEF Ops
<1>3. /\ h \in Handling /\ h.names = {} /\ h.rows = {} /\ h.answer = {} /\ h.shown = {}
      /\ h.known = {} /\ h.did = {} /\ h.op # "call_cancel"
  BY <1>2, IdleTyped DEF Idle, Handling
<1>4. /\ request' = [request EXCEPT ![r] = Closed(h, "ok")]
      /\ UNCHANGED <<group, players, catalogue, calls, cache, faults>>
  BY <1>1 DEF Starts
<1> HIDE DEF h
<1>5. Closed(h, "ok") \in Handling /\ Safe(Closed(h, "ok"), players, calls, faults)
  BY <1>3, ClosedSafe DEF Results
<1>6. balances' \subseteq Toko
  BY <1>1 DEF load_or_create_balance, Inv, TypeOK
<1> QED
  BY <1>4, <1>5, <1>6, StartsSafe

----------------------------------------------------------------------------
(* The lists.                                                              *)

\* A list that is read from the cache, or asked for with a key of its own.
LEMMA LoadCachedSafe ==
    ASSUME Inv, NEW r \in Requests, NEW op \in Lists, NEW k \in Keys, NEW ready \in BOOLEAN,
           ready, LoadCached(r, op, k, ready)
    PROVE  Inv'
<1> DEFINE h == [Idle EXCEPT !.op = op, !.args = [NoArgs EXCEPT !.key = k]]
           hit == [h EXCEPT !.list = cache[k].list]
           ask == [h EXCEPT !.phase = "ask"]
<1>1. op \in Ops /\ [NoArgs EXCEPT !.key = k] \in Args /\ cache[k].list \in SUBSET Items
  BY NoArgsTyped DEF Ops, Args, Inv, TypeOK
<1>2. /\ h \in Handling /\ h.op = op /\ h.args.key = k /\ h.names = {} /\ h.rows = {}
      /\ h.answer = {} /\ h.shown = {} /\ h.known = {} /\ h.did = {} /\ h.result = "ok"
  BY <1>1, IdleTyped DEF Idle, Handling, NoArgs
<1>3. UNCHANGED <<group, players, balances, catalogue, calls, faults, cache>>
  BY DEF LoadCached, OnHit
<1>4. request' = [request EXCEPT ![r] = Closed(hit, "ok")] \/ request' = [request EXCEPT ![r] = ask]
  BY DEF LoadCached
<1> HIDE DEF h
<1>5. op # "call_cancel"
  BY DEF Lists
<1>6. Closed(hit, "ok") \in Handling /\ Safe(Closed(hit, "ok"), players, calls, faults)
  <2>1. /\ hit \in Handling /\ hit.op = op /\ hit.names = {} /\ hit.rows = {}
        /\ hit.answer = {} /\ hit.shown = {} /\ hit.known = {} /\ hit.did = {}
    BY <1>1, <1>2 DEF Handling
  <2> HIDE DEF hit
  <2> QED
    BY <1>5, <2>1, ClosedSafe DEF Results
<1>7. ask \in Handling /\ Safe(ask, players, calls, faults)
  <2>1. /\ ask \in Handling /\ ask.phase = "ask" /\ ask.op = op /\ ask.args.key = k
        /\ ask.names = {} /\ ask.rows = {} /\ ask.answer = {} /\ ask.shown = {}
        /\ ask.known = {} /\ ask.did = {} /\ ask.result = "ok"
    BY <1>2 DEF Handling
  <2>2. op \in Asks /\ op \notin {"transfer_status", "call_apply"}
    BY DEF Asks, Ops, Lists
  <2> HIDE DEF ask
  <2> QED
    BY <2>1, <2>2 DEF Safe, Phased, Looked, Truthful, Carried
<1> HIDE DEF hit, ask
<1> QED
  BY <1>3, <1>4, <1>6, <1>7, StartsSafe DEF Inv, TypeOK

\* /providers, /games and /games/v2 preserve the invariant.
LEMMA ListsSafe ==
    ASSUME Inv, NEW r \in Requests, Providers(r) \/ Games(r) \/ GamesV2(r)
    PROVE  Inv'
<1>1. CASE Providers(r)
  BY <1>1, LoadCachedSafe DEF Providers, Keys, Lists
<1>2. ASSUME NEW op \in {"games", "games_v2"}, ListGames(r, op) PROVE Inv'
  <2>1. PICK b \in GamesBody :
            LET q == validate_provider_code(b.provider_code)
            IN  \/ /\ Starts(r, Closed([Idle EXCEPT !.op = op], "unprocessable"))
                   /\ UNCHANGED balances
                \/ /\ q # Rejected
                   /\ LoadCached(r, op, <<op, q>>, game_list_params(q))
    BY <1>2 DEF ListGames
  <2> DEFINE q == validate_provider_code(b.provider_code)
  <2>2. CASE Starts(r, Closed([Idle EXCEPT !.op = op], "unprocessable")) /\ UNCHANGED balances
    <3> DEFINE h == [Idle EXCEPT !.op = op]
    <3>1. op \in Ops
      BY DEF Ops, Lists
    <3>2. /\ h \in Handling /\ h.names = {} /\ h.rows = {} /\ h.answer = {} /\ h.shown = {}
          /\ h.known = {} /\ h.did = {}
      BY <3>1, IdleTyped DEF Idle, Handling
    <3>3. /\ request' = [request EXCEPT ![r] = Closed(h, "unprocessable")]
          /\ UNCHANGED <<group, players, balances, catalogue, calls, cache, faults>>
      BY <2>2 DEF Starts
    <3> HIDE DEF h
    <3>4. /\ Closed(h, "unprocessable") \in Handling
          /\ Safe(Closed(h, "unprocessable"), players, calls, faults)
      BY <3>2, ClosedSafe DEF Results
    <3> QED
      BY <3>3, <3>4, StartsSafe DEF Inv, TypeOK
  <2>3. CASE q # Rejected /\ LoadCached(r, op, <<op, q>>, game_list_params(q))
    <3>1. Fits(b.provider_code, 50) /\ q = Trim(b.provider_code)
      BY <2>3 DEF validate_provider_code, Accepted
    <3>2. b.provider_code \in CodeTexts /\ b.provider_code \in Text
      BY RequestsAssumption DEF GamesBody
    <3>3. game_list_params(q) /\ game_list_params(q) \in BOOLEAN
      BY <3>1, <3>2, FittingIsCallable DEF game_list_params, required_string_param
    <3>4. <<op, q>> \in Keys
      BY <3>1, <3>2 DEF Keys
    <3> HIDE DEF q
    <3>5. op \in Lists
      BY DEF Lists
    <3> QED
      BY <2>3, <3>3, <3>4, <3>5, LoadCachedSafe
  <2> QED
    BY <2>1, <2>2, <2>3
<1> QED
  BY <1>1, <1>2 DEF Games, GamesV2

----------------------------------------------------------------------------
(* The answer of the platform.                                             *)

\* The player that was asked about is shown with the number of its own user.
LEMMA AskedShown ==
    ASSUME NEW h \in Handling, NEW numbers, NEW F, h.phase = "ask", h.op \in Ops,
           Looked(h, players),
           \A n \in numbers : n \in Int /\ \E row \in h.rows : Tells(n, row.code, F),
           h.op \in Commands => numbers = {}
    PROVE  /\ AskedRecords(h.rows, numbers) \subseteq Shown
           /\ \A s \in AskedRecords(h.rows, numbers) : Shows(s, h.toko, players, F)
<1> SUFFICES ASSUME NEW s \in AskedRecords(h.rows, numbers)
             PROVE  s \in Shown /\ Shows(s, h.toko, players, F)
  OBVIOUS
<1>1. PICK row \in h.rows, n \in numbers : s = [name |-> row.name, number |-> n]
  BY DEF AskedRecords
<1>2. h.op # "control_users_rtp"
  BY <1>1 DEF Commands
<1>3. PICK other \in h.rows : Tells(n, other.code, F)
  OBVIOUS
<1>4. row = other
  BY <1>2 DEF Looked
<1>5. row \in players /\ row.toko = h.toko /\ row \in Row
  BY DEF Looked, Handling
<1> QED
  BY <1>1, <1>3, <1>4, <1>5 DEF Shows, Shown, Row

\* A handler that has an answer keeps the promises, if what it asked for was done
\* for the players it is about.
LEMMA ReceivedSafe ==
    ASSUME TypeOK, NEW h \in Handling, h.phase = "ask", NEW F,
           Safe(h, players, calls, faults),
           NEW status, NEW a, AnswersTo(h, status, a, F), NEW C, Kept(calls, C),
           NEW did \in SUBSET CodesOf(h.rows), a.error = "none" => did = Done(h),
           a.error = "none" /\ h.op = "call_cancel" =>
               h.args.call_id \in DOMAIN C /\ ~C[h.args.call_id].open,
           NEW g, g = [Received(h, a) EXCEPT !.did = did] \/ (g = Received(h, a) /\ did = {})
    PROVE  g \in Handling /\ Safe(g, players, C, F)
<1>1. /\ h.op \in Asks /\ h.op \in Ops /\ h.result = "ok" /\ h.did = {} /\ h.answer = {}
      /\ h.shown = {} /\ h.known = {} /\ Looked(h, players)
      /\ h.op \in Lists => h.args.key \in Keys
  BY DEF Safe, Phased, Asks
<1>2. did \in SUBSET Codes
  BY DEF Handling, CodesOf, Row
<1>3. CASE a.error # "none"
  <2> DEFINE c == Closed(h, "upstream")
  <2>1. Received(h, a) = c
    BY <1>3 DEF Received, AnswersTo, Errors, MapError
  <2>2. /\ c \in Handling /\ c.phase = "done" /\ c.result = "upstream" /\ c.op = h.op
        /\ c.toko = h.toko /\ c.names = h.names /\ c.rows = h.rows /\ c.answer = {}
        /\ c.shown = {} /\ c.known = {} /\ c.did = {}
    BY <1>1, ClosedFields DEF Results
  <2> HIDE DEF c
  <2>3. /\ g \in Handling /\ g.phase = "done" /\ g.result = "upstream" /\ g.op = h.op
        /\ g.toko = h.toko /\ g.names = h.names /\ g.rows = h.rows /\ g.answer = {}
        /\ g.shown = {} /\ g.known = {} /\ g.did = did
    BY <1>2, <2>1, <2>2, SMTT(30) DEF Handling
  <2>4. Looked(g, players)
    BY <1>1, <2>3 DEF Looked
  <2> QED
    BY <2>3, <2>4 DEF Safe, Phased, Truthful, Carried
<1>4. CASE a.error = "none" /\ h.op \in Lists
  <2>1. did = {} /\ a.records \subseteq Items
    BY <1>4 DEF Done, Lists, Commands, AnswersTo
  <2> DEFINE e == [h EXCEPT !.phase = "store", !.list = a.records]
  <2>5. Received(h, a) = e
    BY <1>4 DEF Received
  <2>6. /\ e \in Handling /\ e.phase = "store" /\ e.result = "ok" /\ e.op = h.op
        /\ e.toko = h.toko /\ e.names = h.names /\ e.rows = h.rows /\ e.answer = {}
        /\ e.shown = {} /\ e.known = {} /\ e.did = {} /\ e.args = h.args
    BY <1>1, <2>1 DEF Handling
  <2> HIDE DEF e
  <2>2. /\ g \in Handling /\ g.phase = "store" /\ g.result = "ok" /\ g.op = h.op
        /\ g.toko = h.toko /\ g.names = h.names /\ g.rows = h.rows /\ g.answer = {}
        /\ g.shown = {} /\ g.known = {} /\ g.did = {} /\ g.args = h.args
    BY <1>2, <2>1, <2>5, <2>6 DEF Handling
  <2>3. Looked(g, players)
    BY <1>1, <2>2 DEF Looked
  <2>4. Phased(g)
    BY <1>1, <1>4, <2>2 DEF Phased
  <2> QED
    BY <2>2, <2>3, <2>4 DEF Safe, Truthful, Carried
<1> DEFINE asked == AskedRecords(h.rows, a.user)
<1>5. a.error = "none" =>
          asked \subseteq Shown /\ \A s \in asked : Shows(s, h.toko, players, F)
  BY <1>1, AskedShown DEF AnswersTo
<1>6. CASE a.error = "none" /\ h.op \in Mapped /\ (h.op = "money_info" => a.records # {})
  <2>1. /\ did = {} /\ h.op \notin Lists /\ h.op \notin Commands /\ h.op # "call_cancel"
        /\ a.records \subseteq Reported /\ \A x \in a.records : Honest(x, F)
    BY <1>6 DEF Done, Lists, Commands, Mapped, AnswersTo
  <2>2. PlayersOf(h.toko) \subseteq Row
    BY DEF TypeOK, PlayersOf
  <2> DEFINE e == [h EXCEPT !.phase = "map", !.answer = a.records,
                            !.known = PlayersOf(h.toko), !.shown = asked]
  <2>3. Received(h, a) = e
    BY <1>6, <2>1 DEF Received
  <2> HIDE DEF asked
  <2>8. /\ e \in Handling /\ e.phase = "map" /\ e.result = "ok" /\ e.op = h.op
        /\ e.toko = h.toko /\ e.names = h.names /\ e.rows = h.rows /\ e.answer = a.records
        /\ e.shown = asked /\ e.known = PlayersOf(h.toko) /\ e.did = {}
    BY <1>1, <1>5, <1>6, <2>1, <2>2 DEF Handling
  <2> HIDE DEF e
  <2>4. /\ g \in Handling /\ g.phase = "map" /\ g.result = "ok" /\ g.op = h.op
        /\ g.toko = h.toko /\ g.names = h.names /\ g.rows = h.rows /\ g.answer = a.records
        /\ g.shown = asked /\ g.known = PlayersOf(h.toko) /\ g.did = {}
    BY <1>2, <2>1, <2>3, <2>8 DEF Handling
  <2>5. Looked(g, players)
    BY <1>1, <2>4 DEF Looked
  <2>6. Phased(g)
    BY <1>1, <1>6, <2>1, <2>4 DEF Phased
  <2>7. Truthful(g, players, F)
    BY <1>5, <1>6, <2>1, <2>4 DEF Truthful, PlayersOf
  <2> QED
    BY <2>4, <2>5, <2>6, <2>7 DEF Safe, Carried
<1>7. CASE /\ a.error = "none" /\ h.op \notin Lists
           /\ ~(h.op \in Mapped /\ (h.op = "money_info" => a.records # {}))
  <2> DEFINE e == [h EXCEPT !.shown = asked]
             c == Closed(e, "ok")
  <2>1. Received(h, a) = c
    BY <1>7 DEF Received
  <2> HIDE DEF asked
  <2>2. /\ e \in Handling /\ e.op = h.op /\ e.toko = h.toko /\ e.args = h.args
        /\ e.names = h.names /\ e.rows = h.rows /\ e.answer = {} /\ e.shown = asked
        /\ e.known = {} /\ e.did = {}
    BY <1>1, <1>5, <1>7 DEF Handling
  <2> HIDE DEF e
  <2>3. /\ c \in Handling /\ c.phase = "done" /\ c.result = "ok" /\ c.op = h.op
        /\ c.toko = h.toko /\ c.args = h.args /\ c.names = h.names /\ c.rows = h.rows
        /\ c.answer = {} /\ c.shown = asked /\ c.known = {} /\ c.did = {}
    BY <2>2, ClosedFields DEF Results
  <2> HIDE DEF c
  <2>4. /\ g \in Handling /\ g.phase = "done" /\ g.result = "ok" /\ g.op = h.op
        /\ g.toko = h.toko /\ g.args = h.args /\ g.names = h.names /\ g.rows = h.rows
        /\ g.answer = {} /\ g.shown = asked /\ g.known = {} /\ g.did = did
    BY <1>2, <2>1, <2>3, SMTT(30) DEF Handling
  <2>5. Looked(g, players)
    BY <1>1, <2>4 DEF Looked
  <2>6. h.op \in Commands =>
            \A n \in h.names : \E row \in h.rows : Names(n, row) /\ row.code \in did
    BY <1>1, <1>7 DEF Done, Looked, CodesOf
  <2>7. Truthful(g, players, F)
    BY <1>5, <1>7, <2>4 DEF Truthful, ShowsAll
  <2>8. Carried(g, C)
    BY <1>7, <2>4, <2>6 DEF Carried
  <2> QED
    BY <2>4, <2>5, <2>7, <2>8 DEF Safe, Phased
<1> QED
  BY <1>3, <1>4, <1>6, <1>7

\* A handler that asks: what is known of it, and of any answer it may get.
LEMMA AskingFacts ==
    ASSUME Inv, NEW r \in Requests, Asking(r)
    PROVE  LET h == request[r]
           IN  /\ h \in Handling /\ h.phase = "ask" /\ h.did = {} /\ Safe(h, players, calls, faults)
               /\ h.op = "call_apply" => CodesOf(h.rows) # {}
               /\ CodesOf(h.rows) \subseteq Codes
               /\ \A status, kind, F :
                     (kind # "none" => F # 0) => AnswersTo(h, status, Answer(h, status, kind), F)
<1> DEFINE h == request[r]
<1>1. h \in Handling /\ h.phase = "ask" /\ Safe(h, players, calls, faults)
  BY DEF Inv, TypeOK, Asking
<1> HIDE DEF h
<1>2. h.did = {} /\ h.op \in Asks /\ (h.op \in Lists => h.args.key \in Keys)
  BY <1>1 DEF Safe, Phased
<1>3. h.op \in {"transfer_status", "call_apply"} => h.rows # {}
  BY <1>1 DEF Safe, Looked
<1>4. CodesOf(h.rows) \subseteq Codes
  BY <1>1 DEF Handling, CodesOf, Row
<1>5. h.op = "call_apply" => CodesOf(h.rows) # {}
  BY <1>3 DEF CodesOf
<1>6. \A status, kind, F :
                     (kind # "none" => F # 0) => AnswersTo(h, status, Answer(h, status, kind), F)
  BY <1>1, <1>2, <1>3, AnswerFacts DEF Inv
<1> QED
  BY <1>1, <1>2, <1>4, <1>5, <1>6 DEF h

\* What the platform does keeps the closed calls closed, and closes a call that
\* is cancelled.
LEMMA EffectKeeps ==
    ASSUME Inv, NEW r \in Requests, Asking(r), Possible(request[r]), Effect(request[r])
    PROVE  /\ calls' \in Seq(Call) /\ Kept(calls, calls')
           /\ request[r].op = "call_cancel" =>
                 /\ request[r].args.call_id \in DOMAIN calls'
                 /\ ~calls'[request[r].args.call_id].open
<1> DEFINE h == request[r]
           c == CHOOSE c \in CodesOf(h.rows) : TRUE
           new == [code |-> c, open |-> TRUE]
<1>1. calls \in Seq(Call)
  BY DEF Inv, TypeOK, Call
<1>2. CASE h.op = "call_apply"
  <2>1. c \in Codes
    BY <1>2, AskingFacts
  <2>2. new \in Call
    BY <2>1 DEF Call
  <2>3. calls' = Append(calls, new)
    BY <1>2 DEF Effect
  <2> HIDE DEF new
  <2>4. /\ calls' \in Seq(Call) /\ Len(calls') = Len(calls) + 1
        /\ \A i \in 1..Len(calls) : calls'[i] = calls[i]
    BY <1>1, <2>2, <2>3, AppendProperties
  <2>5. Kept(calls, calls')
    BY <1>1, <2>4 DEF Kept
  <2> QED
    BY <1>2, <2>4, <2>5
<1>3. CASE h.op = "call_cancel"
  <2> DEFINE id == h.args.call_id
             closed == [calls[id] EXCEPT !.open = FALSE]
  <2>1. id \in DOMAIN calls /\ calls' = [calls EXCEPT ![id] = closed]
    BY <1>3 DEF Possible, Effect
  <2>2. calls[id] \in Call
    BY <1>1, <2>1
  <2>3. closed \in Call /\ ~closed.open
    BY <2>2 DEF Call
  <2> HIDE DEF id, closed
  <2>4. calls' \in Seq(Call)
    BY <1>1, <2>1, <2>3, ExceptSeq
  <2>5. DOMAIN calls' = DOMAIN calls /\ calls'[id] = closed
        /\ \A i \in DOMAIN calls : i # id => calls'[i] = calls[i]
    BY <1>1, <2>1
  <2>6. Kept(calls, calls')
    BY <2>3, <2>5 DEF Kept
  <2> QED
    BY <2>1, <2>3, <2>4, <2>5, <2>6 DEF id
<1>4. CASE h.op \notin {"call_apply", "call_cancel"}
  <2>1. calls' = calls
    BY <1>4 DEF Effect
  <2> QED
    BY <1>1, <1>4, <2>1 DEF Kept
<1> QED
  BY <1>2, <1>3, <1>4

\* Every end of a call on the platform preserves the invariant.
LEMMA AnswersSafe ==
    ASSUME Inv, NEW r \in Requests, Answered(r) \/ Refused(r) \/ Lost(r)
    PROVE  Inv'
<1> DEFINE h == request[r]
<1>1. /\ h \in Handling /\ h.phase = "ask" /\ h.did = {} /\ Safe(h, players, calls, faults)
      /\ CodesOf(h.rows) \subseteq Codes
      /\ \A status, kind, F :
                     (kind # "none" => F # 0) => AnswersTo(h, status, Answer(h, status, kind), F)
  BY AskingFacts DEF Answered, Refused, Lost
<1>2. Done(h) \in SUBSET CodesOf(h.rows)
  BY DEF Done
<1>3. ASSUME NEW g, g \in Handling, Safe(g, players, calls', faults'), Receives(r, g),
             calls' \in Seq(Call), Kept(calls, calls'), faults' \in 0..MaxFaults,
             faults # 0 => faults' # 0
      PROVE  Inv'
  BY <1>3, OneRecord DEF Receives, Inv, TypeOK
<1>4. ASSUME NEW kind, Fault(kind) PROVE faults' \in 0..MaxFaults /\ faults' # 0
  BY <1>4, GameAssumption DEF Fault, Inv, TypeOK
<1>5. calls \in Seq(Call) /\ faults \in 0..MaxFaults /\ TypeOK
  BY DEF Inv, TypeOK, Call
<1>6. \A status, F : AnswersTo(h, status, Failed("Transport"), F) /\ Failed("Transport").error # "none"
  BY DEF AnswersTo, Failed, Errors
<1>7. CASE Answered(r)
  <2>1. PICK kind \in {"none", "empty", "absent", "malformed", "nameless"} :
            /\ IF kind = "none" THEN UNCHANGED faults ELSE Fault(kind)
            /\ Receives(r, [Received(h, Answer(h, 1, kind)) EXCEPT !.did = Done(h)])
    BY <1>7 DEF Answered
  <2> DEFINE a == Answer(h, 1, kind)
             g == [Received(h, a) EXCEPT !.did = Done(h)]
  <2>2. /\ calls' \in Seq(Call) /\ Kept(calls, calls')
        /\ h.op = "call_cancel" =>
              h.args.call_id \in DOMAIN calls' /\ ~calls'[h.args.call_id].open
    BY <1>7, EffectKeeps DEF Answered
  <2>4. faults' \in 0..MaxFaults /\ (faults # 0 => faults' # 0) /\ (kind # "none" => faults' # 0)
    BY <1>4, <1>5, <2>1
  <2>3. AnswersTo(h, 1, a, faults')
    BY <1>1, <2>4
  <2>5. Receives(r, g)
    BY <2>1
  <2> HIDE DEF h, a
  <2>6. g \in Handling /\ Safe(g, players, calls', faults')
    BY <1>1, <1>2, <1>5, <2>2, <2>3, ReceivedSafe
  <2> HIDE DEF g
  <2> QED
    BY <1>3, <2>2, <2>4, <2>5, <2>6
<1>8. CASE Refused(r)
  <2> DEFINE a == Answer(h, 0, "none")
             g == Received(h, a)
  <2>1. Receives(r, g) /\ calls' = calls /\ faults' = faults
    BY <1>8 DEF Refused
  <2>2. AnswersTo(h, 0, a, faults') /\ a.error # "none"
    <3>1. AnswersTo(h, 0, a, faults')
      BY <1>1
    <3> QED
      BY <3>1 DEF AnswersTo
  <2>3. calls' \in Seq(Call) /\ Kept(calls, calls')
    BY <1>5, <2>1 DEF Kept
  <2> HIDE DEF h, a
  <2>4. {} \in SUBSET CodesOf(h.rows)
    OBVIOUS
  <2>5. g \in Handling /\ Safe(g, players, calls', faults')
    BY <1>1, <1>5, <2>2, <2>3, <2>4, ReceivedSafe
  <2> HIDE DEF g
  <2> QED
    BY <1>3, <1>5, <2>1, <2>3, <2>5
<1>9. CASE Lost(r)
  <2> DEFINE a == Failed("Transport")
  <2>1. faults' \in 0..MaxFaults /\ faults' # 0
    BY <1>4, <1>9 DEF Lost
  <2>2. CASE /\ Possible(h) /\ Effect(h)
             /\ Receives(r, [Received(h, a) EXCEPT !.did = Done(h)])
    <3> DEFINE g == [Received(h, a) EXCEPT !.did = Done(h)]
    <3>1. calls' \in Seq(Call) /\ Kept(calls, calls')
      BY <1>9, <2>2, EffectKeeps DEF Lost
    <3> HIDE DEF h, a
    <3>2. AnswersTo(h, 0, a, faults') /\ a.error # "none"
      BY <1>6 DEF a
    <3>3. g \in Handling /\ Safe(g, players, calls', faults')
      BY <1>1, <1>2, <1>5, <3>1, <3>2, ReceivedSafe
    <3>4. Receives(r, g)
      BY <2>2
    <3> HIDE DEF g
    <3> QED
      BY <1>3, <2>1, <3>1, <3>3, <3>4
  <2>3. CASE Receives(r, Received(h, a)) /\ UNCHANGED calls
    <3> DEFINE g == Received(h, a)
    <3>1. calls' \in Seq(Call) /\ Kept(calls, calls')
      BY <1>5, <2>3 DEF Kept
    <3> HIDE DEF h, a
    <3>2. AnswersTo(h, 0, a, faults') /\ a.error # "none"
      BY <1>6 DEF a
    <3>3. {} \in SUBSET CodesOf(h.rows)
      OBVIOUS
    <3>4. g \in Handling /\ Safe(g, players, calls', faults')
      BY <1>1, <1>5, <3>1, <3>2, <3>3, ReceivedSafe
    <3>5. Receives(r, g)
      BY <2>3
    <3> HIDE DEF g
    <3> QED
      BY <1>3, <2>1, <3>1, <3>4, <3>5
  <2> QED
    BY <1>9, <2>2, <2>3 DEF Lost
<1> QED
  BY <1>7, <1>8, <1>9

\* Mapping the usernames shows every player whose user was answered, with the
\* user's own number.
LEMMA MapUsernamesSafe == ASSUME Inv, NEW r \in Requests, MapUsernames(r) PROVE Inv'
<1> DEFINE h == request[r]
           mapped == MapRecords(Usernames(h), h.answer)
           g == [h EXCEPT !.phase = "done", !.result = "ok", !.shown = @ \cup mapped]
<1>1. h \in Handling /\ h.phase = "map" /\ Safe(h, players, calls, faults)
  BY DEF Inv, TypeOK, MapUsernames
<1>2. request' = [request EXCEPT ![r] = g]
  BY DEF MapUsernames, Inv, TypeOK
<1>3. UNCHANGED <<group, players, balances, catalogue, calls, cache, faults>>
  BY DEF MapUsernames
<1>4. ASSUME NEW s \in mapped PROVE s \in Shown /\ Shows(s, h.toko, players, faults)
  <2>1. PICK row \in PlayersOf(h.toko), a \in h.answer :
            row.code = a.user_code /\ s = [name |-> row.name, number |-> a.number]
    BY DEF MapRecords, Usernames
  <2>2. row \in players /\ row.toko = h.toko /\ row \in Row
    BY DEF PlayersOf, Inv, TypeOK
  <2>3. a.number \in Int /\ Tells(a.number, row.code, faults)
    BY <1>1, <2>1, <2>2 DEF Handling, Reported, Safe, Truthful, Honest, Row
  <2> QED
    BY <2>1, <2>2, <2>3 DEF Shown, Shows, Row
<1>5. \A a \in h.answer, row \in h.known :
          row.code = a.user_code => [name |-> row.name, number |-> a.number] \in mapped
  <2> SUFFICES ASSUME NEW a \in h.answer, NEW row \in h.known, row.code = a.user_code
               PROVE  [name |-> row.name, number |-> a.number] \in mapped
    OBVIOUS
  <2>1. row \in Usernames(h)
    BY <1>1 DEF Safe, Truthful, Usernames, PlayersOf
  <2> DEFINE pair == <<row, a>>
  <2>2. /\ pair \in {y \in Usernames(h) \X h.answer : y[1].code = y[2].user_code}
        /\ pair[1] = row /\ pair[2] = a
    BY <2>1
  <2> HIDE DEF pair
  <2>3. [name |-> pair[1].name, number |-> pair[2].number] \in mapped
    BY <2>2 DEF MapRecords
  <2> QED
    BY <2>2, <2>3
<1> HIDE DEF mapped, h
<1>6. mapped \subseteq Shown
  BY <1>4
<1>7. /\ g \in Handling /\ g.phase = "done" /\ g.result = "ok" /\ g.op = h.op
      /\ g.toko = h.toko /\ g.args = h.args /\ g.names = h.names /\ g.rows = h.rows
      /\ g.answer = h.answer /\ g.known = h.known /\ g.did = h.did
      /\ g.shown = h.shown \cup mapped
  BY <1>1, <1>6 DEF Handling, Results
<1> HIDE DEF g
<1>8. h.op \notin Commands /\ h.op # "call_cancel"
  BY <1>1 DEF Safe, Phased, Mapped, Commands
<1>9. Safe(g, players, calls, faults)
  <2>1. Phased(g) /\ Looked(g, players)
    BY <1>1, <1>7 DEF Safe, Phased, Looked
  <2>2. Truthful(g, players, faults)
    BY <1>1, <1>4, <1>5, <1>7 DEF Safe, Truthful, ShowsAll
  <2>3. Carried(g, calls)
    BY <1>1, <1>7, <1>8 DEF Safe, Carried
  <2> QED
    BY <2>1, <2>2, <2>3 DEF Safe
<1> QED
  BY <1>2, <1>3, <1>7, <1>9, StartsSafe DEF Inv, TypeOK

\* A handler whose list is stored, or which breaks off, promises nothing.
LEMMA EndsSafe ==
    ASSUME Inv, NEW r \in Requests, NEW result \in {"ok", "broken"},
           request[r].phase \in {"ask", "map", "store"},
           result = "ok" => request[r].phase = "store",
           request' = [request EXCEPT ![r] = Closed(request[r], result)],
           UNCHANGED <<group, players, balances, catalogue, calls>>,
           faults' \in 0..MaxFaults, faults # 0 => faults' # 0,
           UNCHANGED cache \/ (request[r].phase = "store" /\ Cache(request[r]))
    PROVE  Inv'
<1> DEFINE h == request[r]
           c == Closed(h, result)
<1>1. h \in Handling /\ Safe(h, players, calls, faults)
  BY DEF Inv, TypeOK
<1>2. h.phase = "store" => h.args.key \in Keys /\ h.list \in SUBSET Items
  BY <1>1 DEF Safe, Phased, Handling
<1>3. cache' \in [Keys -> [list : SUBSET Items, left : 0..Ttl]]
  <2>1. cache \in [Keys -> [list : SUBSET Items, left : 0..Ttl]] /\ Ttl \in 0..Ttl
    BY GameAssumption DEF Inv, TypeOK
  <2> QED
    BY <1>2, <2>1 DEF Cache
<1>4. Kept(calls, calls') /\ calls' \in Seq(Call)
  BY DEF Kept, Inv, TypeOK, Call
<1> HIDE DEF h
<1>5. /\ c \in Handling /\ c.phase = "done" /\ c.result = result /\ c.op = h.op
      /\ c.toko = h.toko /\ c.args = h.args /\ c.names = h.names /\ c.rows = h.rows
      /\ c.answer = h.answer /\ c.shown = h.shown /\ c.known = h.known /\ c.did = h.did
  BY <1>1, ClosedFields DEF Results
<1> HIDE DEF c
<1>6. result = "ok" => h.op \notin Commands /\ h.op # "call_cancel" /\ h.answer = {}
  BY <1>1 DEF Safe, Phased, Lists, Commands, h
<1>7. Safe(c, players, calls, faults')
  <2>1. Phased(c) /\ Looked(c, players)
    BY <1>1, <1>5 DEF Safe, Phased, Looked
  <2>2. Truthful(c, players, faults')
    BY <1>1, <1>5, <1>6 DEF Safe, Truthful, ShowsAll, Shows, Honest, Tells
  <2>3. Carried(c, calls)
    BY <1>1, <1>5, <1>6 DEF Safe, Carried
  <2> QED
    BY <2>1, <2>2, <2>3 DEF Safe
<1>8. request' = [request EXCEPT ![r] = c]
  BY DEF c, h
<1> QED
  BY <1>3, <1>4, <1>5, <1>7, <1>8, OneRecord DEF Inv, TypeOK

\* Everything a handler does preserves the invariant.
LEMMA HandlerSafe == ASSUME Inv, NEW r \in Requests, Start(r) \/ Step(r) PROVE Inv'
<1>1. CASE Start(r)
  BY <1>1, BalanceSafe, ListsSafe, GameLaunchSafe, MoneyInfoSafe, TransferStatusSafe,
     CallPlayersSafe, CallListSafe, CallApplySafe, CallHistorySafe, CallCancelSafe,
     ControlRtpSafe, ControlUsersRtpSafe DEF Start
<1>2. CASE Answered(r) \/ Refused(r) \/ Lost(r)
  BY <1>2, AnswersSafe
<1>3. CASE MapUsernames(r)
  BY <1>3, MapUsernamesSafe
<1>4. CASE StoreList(r)
  <2>1. /\ request[r].phase = "store" /\ Cache(request[r])
        /\ request' = [request EXCEPT ![r] = Closed(request[r], "ok")]
        /\ UNCHANGED <<group, players, balances, catalogue, calls>>
        /\ faults' \in 0..MaxFaults /\ faults' = faults
    BY <1>4 DEF StoreList, Inv, TypeOK
  <2> QED
    BY <2>1, EndsSafe
<1>5. CASE Break(r)
  <2>1. /\ request[r].phase \in {"ask", "map", "store"}
        /\ request' = [request EXCEPT ![r] = Closed(request[r], "broken")]
        /\ UNCHANGED cache \/ (request[r].phase = "store" /\ Cache(request[r]))
        /\ UNCHANGED <<group, players, balances, catalogue, calls>>
    BY <1>5 DEF Break, Inv, TypeOK
  <2>2. faults' \in 0..MaxFaults /\ faults' # 0
    BY <1>5, GameAssumption DEF Break, Fault, Inv, TypeOK
  <2> QED
    BY <2>1, <2>2, EndsSafe
<1>6. CASE Leave(r)
  BY <1>6, IdleTyped, IdleSafe, StartsSafe DEF Leave, Inv, TypeOK
<1> QED
  BY <1>1, <1>2, <1>3, <1>4, <1>5, <1>6 DEF Step

\* What happens around the handlers preserves the invariant.
LEMMA WorldSafe == ASSUME Inv, World PROVE Inv'
<1>1. Kept(calls, calls)
  BY DEF Kept
<1>2. CASE \E row \in NewPlayers : Join(row)
  <2>1. PICK row \in NewPlayers : Join(row)
    BY <1>2
  <2>2. /\ row \in Row /\ Allows(players, row) /\ players' = players \cup {row}
        /\ UNCHANGED <<group, balances, catalogue, calls, cache, request, faults>>
    BY <2>1, GameAssumption DEF Join
  <2>3. TypeOK'
    BY <2>2 DEF Inv, TypeOK
  <2>5. players \subseteq players'
    BY <2>2
  <2>6. \A r \in Requests : Safe(request[r], players', calls, faults)
    BY <1>1, <2>5, Monotone DEF Inv
  <2> QED
    BY <2>2, <2>3, <2>6 DEF Inv
<1>3. CASE \E k \in Keys : Publish(k)
  <2>1. PICK k \in Keys : Publish(k)
    BY <1>3
  <2>2. /\ catalogue' \in [Keys -> 0..MaxEdits]
        /\ UNCHANGED <<group, players, balances, calls, cache, request, faults>>
    BY <2>1, GameAssumption DEF Publish, Inv, TypeOK
  <2> QED
    BY <2>2 DEF Inv, TypeOK
<1>4. CASE Tick
  <2>1. /\ cache' = [k \in Keys |-> IF cache[k].left <= 1 THEN Miss
                                    ELSE [cache[k] EXCEPT !.left = @ - 1]]
        /\ UNCHANGED <<group, players, balances, catalogue, calls, request, faults>>
    BY <1>4 DEF Tick
  <2>2. ASSUME NEW k \in Keys PROVE cache'[k] \in [list : SUBSET Items, left : 0..Ttl]
    <3>1. cache[k] \in [list : SUBSET Items, left : 0..Ttl]
      BY DEF Inv, TypeOK
    <3>2. Miss \in [list : SUBSET Items, left : 0..Ttl]
      BY GameAssumption DEF Miss
    <3> QED
      BY <2>1, <3>1, <3>2, GameAssumption
  <2> QED
    BY <2>1, <2>2 DEF Inv, TypeOK
<1> QED
  BY <1>2, <1>3, <1>4 DEF World

\* The invariant holds at the start.
LEMMA InitSafe == Init => Inv
<1> SUFFICES ASSUME Init PROVE Inv
  OBVIOUS
<1>1. TypeOK
  <2>1. Miss \in [list : SUBSET Items, left : 0..Ttl] /\ 0 \in 0..MaxEdits /\ 0 \in 0..MaxFaults
    BY GameAssumption DEF Miss
  <2>2. players \subseteq Row
    BY GameAssumption DEF Init
  <2>3. request \in [Requests -> Handling]
    BY IdleTyped DEF Init
  <2>4. calls \in Seq([code : Codes, open : BOOLEAN])
    BY DEF Init
  <2> QED
    BY <2>1, <2>2, <2>3, <2>4 DEF Init, TypeOK
<1>3. \A r \in Requests : Safe(request[r], players, calls, faults)
  BY IdleSafe DEF Init
<1> QED
  BY <1>1, <1>3 DEF Inv

\* The invariant holds in every reachable state.
THEOREM Invariance == Spec => []Inv
<1>1. Inv /\ [Next]_vars => Inv'
  <2> SUFFICES ASSUME Inv, [Next]_vars PROVE Inv'
    OBVIOUS
  <2>1. CASE World
    BY <2>1, WorldSafe
  <2>2. CASE \E r \in Requests : Start(r) \/ Step(r)
    BY <2>2, HandlerSafe
  <2>3. CASE UNCHANGED vars
    BY <2>3 DEF vars, Inv, TypeOK
  <2> QED
    BY <2>1, <2>2, <2>3 DEF Next
<1> QED
  BY <1>1, InitSafe, PTL DEF Spec

----------------------------------------------------------------------------
(* The theorems.                                                           *)

\* The variables of http/bridge/mod.rs only ever hold what they may hold.
THEOREM TypeCorrect == Spec => []TypeOK
<1>1. Inv => TypeOK
  BY DEF Inv
<1> QED
  BY <1>1, Invariance, PTL

\* A list of balances or calls shows the toko's own players, and all of those the
\* platform reports, for every number of tokos, players, users and handlers.
THEOREM AnswersAreOwn == Spec => []AnswersOwnPlayers
<1>1. Inv => AnswersOwnPlayers
  BY DEF Inv, Safe, Truthful, AnswersOwnPlayers, ShowsOwn, Own, Shows
<1> QED
  BY <1>1, Invariance, PTL

\* A command that is answered with success was carried out for the players it
\* names and for nobody else; a call that was cancelled is closed.
THEOREM SuccessesAreTrue == Spec => []AnsweredIsDone
<1>1. Inv => AnsweredIsDone
  <2> SUFFICES ASSUME Inv, NEW r \in Requests
               PROVE  LET h == request[r]
                      IN  /\ h.did \subseteq UNION {CodesOf(Meant(h, n)) : n \in h.names}
                          /\ h.phase = "done" /\ h.result = "ok" =>
                                /\ h.op \in Commands =>
                                      \A n \in h.names : CodesOf(Meant(h, n)) \cap h.did # {}
                                /\ h.op = "call_cancel" => ~calls[h.args.call_id].open
    BY DEF AnsweredIsDone
  <2> DEFINE h == request[r]
  <2>1. Looked(h, players) /\ Carried(h, calls)
    BY DEF Inv, Safe
  <2>2. /\ \A row \in h.rows : \E n \in h.names : Names(n, row)
        /\ \A n \in h.names, row \in h.rows : Names(n, row) => row \in Meant(h, n)
    BY <2>1 DEF Looked, Meant, Names
  <2> HIDE DEF h
  <2>3. h.did \subseteq UNION {CodesOf(Meant(h, n)) : n \in h.names}
    BY <2>1, <2>2 DEF Carried, CodesOf
  <2>4. h.phase = "done" /\ h.result = "ok" /\ h.op \in Commands =>
            \A n \in h.names : CodesOf(Meant(h, n)) \cap h.did # {}
    BY <2>1, <2>2 DEF Carried, CodesOf
  <2> QED
    BY <2>1, <2>3, <2>4 DEF h, Carried
<1> QED
  BY <1>1, Invariance, PTL

\* No request that passes a validator of http/bridge/mod.rs is refused by the
\* checks of nexusggr_client, whatever clients send.
THEOREM NeverRefusedByClient == Spec => []ValidatedIsCallable
<1>1. Inv => ValidatedIsCallable
  BY DEF Inv, Safe, Carried, ValidatedIsCallable
<1> QED
  BY <1>1, Invariance, PTL
=============================================================================
