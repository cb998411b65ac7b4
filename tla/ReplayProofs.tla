---------------------------- MODULE ReplayProofs ----------------------------
(***************************************************************************)
(* Proofs about the market replay and its scenario parser, for all command *)
(* lines, all directories, files of any length and any number of symbol    *)
(* ids: the parser accepts exactly the format of README.md, load gives     *)
(* each line its meaning and its symbol id, and a file is replayed as a    *)
(* whole or not at all, on an engine of its own.                           *)
(*                                                                         *)
(* In this order: the parser, one line at a time; the symbol table; the    *)
(* steps of a file; the inductive invariant; each action; the theorems.    *)
(***************************************************************************)
EXTENDS Replay, FiniteSetTheorems, SequenceTheorems, TLAPS

-----------------------------------------------------------------------------
(* The five forms of a line, spelled out.                                  *)

\* A token that is a std::uint64_t, and one that is positive.
Number(token) == token \in DOMAIN Value
Positive(token) == token \in DOMAIN Value /\ Value[token] > 0

\* The five forms as conditions on the tokens of a line.
IsLimit(line) ==
    /\ Len(line) = 8 /\ line[1] = "submit" /\ line[2] = "limit"
    /\ Number(line[3]) /\ Number(line[4]) /\ line[6] \in {"buy", "sell"}
    /\ Positive(line[7]) /\ Positive(line[8])
IsMarket(line) ==
    /\ Len(line) = 7 /\ line[1] = "submit" /\ line[2] = "market"
    /\ Number(line[3]) /\ Number(line[4]) /\ line[6] \in {"buy", "sell"}
    /\ Positive(line[7])
IsUpdate(line) ==
    /\ Len(line) = 6 /\ line[1] = "update" /\ line[2] = "limit"
    /\ Number(line[3]) /\ Number(line[4])
    /\ Positive(line[5]) /\ Positive(line[6])
IsCancel(line) ==
    /\ Len(line) = 3 /\ line[1] = "cancel"
    /\ Number(line[2]) /\ Number(line[3])
IsSnapshot(line) ==
    /\ Len(line) = 3 /\ line[1] = "snapshot" /\ Number(line[3])

\* The five forms as README.md writes them.
LimitForm == <<"submit", "limit", "<user>", "<client_order>",
               "<instrument>", "<buy|sell>", "<price>", "<size>">>
MarketForm == <<"submit", "market", "<user>", "<client_order>",
                "<instrument>", "<buy|sell>", "<size>">>
UpdateForm == <<"update", "limit", "<user>", "<client_order>", "<price>",
                "<size>">>
CancelForm == <<"cancel", "<user>", "<client_order>">>
SnapshotForm == <<"snapshot", "<instrument>", "<depth>">>

\* The format of README.md has five forms.
LEMMA GrammarForms ==
    Grammar = {LimitForm, MarketForm, UpdateForm, CancelForm, SnapshotForm}
BY DEF Grammar, LimitForm, MarketForm, UpdateForm, CancelForm, SnapshotForm

\* What fits a word of the format.
LEMMA FitsWord ==
    ASSUME NEW token
    PROVE  /\ Fits(token, "<user>") <=> Number(token)
           /\ Fits(token, "<client_order>") <=> Number(token)
           /\ Fits(token, "<depth>") <=> Number(token)
           /\ Fits(token, "<price>") <=> Positive(token)
           /\ Fits(token, "<size>") <=> Positive(token)
           /\ Fits(token, "<buy|sell>") <=> token \in {"buy", "sell"}
           /\ Fits(token, "<instrument>")
           /\ Fits(token, "submit") <=> token = "submit"
           /\ Fits(token, "update") <=> token = "update"
           /\ Fits(token, "cancel") <=> token = "cancel"
           /\ Fits(token, "snapshot") <=> token = "snapshot"
           /\ Fits(token, "limit") <=> token = "limit"
           /\ Fits(token, "market") <=> token = "market"
BY DEF Fits, Number, Positive

\* A line that is not blank.
Tokens(line) == line \in Seq(STRING) /\ line # <<>>

\* To derive a line from a form is to be of that form, word by word.
LEMMA DerivesForm ==
    ASSUME NEW line, Tokens(line)
    PROVE  /\ Derives(LimitForm, line) <=> IsLimit(line)
           /\ Derives(MarketForm, line) <=> IsMarket(line)
           /\ Derives(UpdateForm, line) <=> IsUpdate(line)
           /\ Derives(CancelForm, line) <=> IsCancel(line)
           /\ Derives(SnapshotForm, line) <=> IsSnapshot(line)
<1>0. DOMAIN line = 1 .. Len(line) /\ Len(line) \in Nat
  BY DEF Tokens
<1>1. Derives(LimitForm, line) <=> IsLimit(line)
  <2>1. Len(LimitForm) = 8
    BY DEF LimitForm
  <2>2. Derives(LimitForm, line) <=>
           /\ Len(line) = 8
           /\ \A i \in 1 .. 8 : Fits(line[i], LimitForm[i])
    BY <1>0, <2>1 DEF Derives
  <2>3. (\A i \in 1 .. 8 : Fits(line[i], LimitForm[i])) <=>
           /\ Fits(line[1], "submit") /\ Fits(line[2], "limit")
           /\ Fits(line[3], "<user>") /\ Fits(line[4], "<client_order>")
           /\ Fits(line[5], "<instrument>") /\ Fits(line[6], "<buy|sell>")
           /\ Fits(line[7], "<price>") /\ Fits(line[8], "<size>")
    BY DEF LimitForm
  <2> QED BY <2>2, <2>3, FitsWord DEF IsLimit
<1>2. Derives(MarketForm, line) <=> IsMarket(line)
  <2>1. Len(MarketForm) = 7
    BY DEF MarketForm
  <2>2. Derives(MarketForm, line) <=>
           /\ Len(line) = 7
           /\ \A i \in 1 .. 7 : Fits(line[i], MarketForm[i])
    BY <1>0, <2>1 DEF Derives
  <2>3. (\A i \in 1 .. 7 : Fits(line[i], MarketForm[i])) <=>
           /\ Fits(line[1], "submit") /\ Fits(line[2], "market")
           /\ Fits(line[3], "<user>") /\ Fits(line[4], "<client_order>")
           /\ Fits(line[5], "<instrument>") /\ Fits(line[6], "<buy|sell>")
           /\ Fits(line[7], "<size>")
    BY DEF MarketForm
  <2> QED BY <2>2, <2>3, FitsWord DEF IsMarket
<1>3. Derives(UpdateForm, line) <=> IsUpdate(line)
  <2>1. Len(UpdateForm) = 6
    BY DEF UpdateForm
  <2>2. Derives(UpdateForm, line) <=>
           /\ Len(line) = 6
           /\ \A i \in 1 .. 6 : Fits(line[i], UpdateForm[i])
    BY <1>0, <2>1 DEF Derives
  <2>3. (\A i \in 1 .. 6 : Fits(line[i], UpdateForm[i])) <=>
           /\ Fits(line[1], "update") /\ Fits(line[2], "limit")
           /\ Fits(line[3], "<user>") /\ Fits(line[4], "<client_order>")
           /\ Fits(line[5], "<price>") /\ Fits(line[6], "<size>")
    BY DEF UpdateForm
  <2> QED BY <2>2, <2>3, FitsWord DEF IsUpdate
<1>4. Derives(CancelForm, line) <=> IsCancel(line)
  <2>1. Len(CancelForm) = 3
    BY DEF CancelForm
  <2>2. Derives(CancelForm, line) <=>
           /\ Len(line) = 3
           /\ \A i \in 1 .. 3 : Fits(line[i], CancelForm[i])
    BY <1>0, <2>1 DEF Derives
  <2>3. (\A i \in 1 .. 3 : Fits(line[i], CancelForm[i])) <=>
           /\ Fits(line[1], "cancel") /\ Fits(line[2], "<user>")
           /\ Fits(line[3], "<client_order>")
    BY DEF CancelForm
  <2> QED BY <2>2, <2>3, FitsWord DEF IsCancel
<1>5. Derives(SnapshotForm, line) <=> IsSnapshot(line)
  <2>1. Len(SnapshotForm) = 3
    BY DEF SnapshotForm
  <2>2. Derives(SnapshotForm, line) <=>
           /\ Len(line) = 3
           /\ \A i \in 1 .. 3 : Fits(line[i], SnapshotForm[i])
    BY <1>0, <2>1 DEF Derives
  <2>3. (\A i \in 1 .. 3 : Fits(line[i], SnapshotForm[i])) <=>
           /\ Fits(line[1], "snapshot") /\ Fits(line[2], "<instrument>")
           /\ Fits(line[3], "<depth>")
    BY DEF SnapshotForm
  <2> QED BY <2>2, <2>3, FitsWord DEF IsSnapshot
<1> QED BY <1>1, <1>2, <1>3, <1>4, <1>5

\* The format of README.md in the forms.
LEMMA SentenceForm ==
    ASSUME NEW line, Tokens(line)
    PROVE  Sentence(line) <=>
              \/ IsLimit(line) \/ IsMarket(line) \/ IsUpdate(line)
              \/ IsCancel(line) \/ IsSnapshot(line)
BY DerivesForm, GrammarForms DEF Sentence

-----------------------------------------------------------------------------
(* The parser accepts the five forms and nothing else.                     *)

\* The first of up to seven fields that are wrong: the parser stops there.
LEMMA AnyWrong ==
    ASSUME NEW S \in SUBSET (1 .. 7), S # {}
    PROVE  Min(S) \in S
<1>1. \E m \in S : \A i \in S : m <= i
  <2>1. CASE 1 \in S BY <2>1
  <2>2. CASE 1 \notin S /\ 2 \in S BY <2>2
  <2>3. CASE {1, 2} \cap S = {} /\ 3 \in S BY <2>3
  <2>4. CASE {1, 2, 3} \cap S = {} /\ 4 \in S BY <2>4
  <2>5. CASE {1, 2, 3, 4} \cap S = {} /\ 5 \in S BY <2>5
  <2>6. CASE {1, 2, 3, 4, 5} \cap S = {} /\ 6 \in S BY <2>6
  <2>7. CASE {1, 2, 3, 4, 5, 6} \cap S = {}
    <3>1. \A i \in S : i = 7 BY <2>7
    <3>2. 7 \in S BY <3>1
    <3> QED BY <3>1, <3>2
  <2> QED BY <2>1, <2>2, <2>3, <2>4, <2>5, <2>6, <2>7
<1> QED BY <1>1 DEF Min

\* A line is accepted if the command is known, no field is wrong, the pricing
\* is right and nothing is left over.
LEMMA NoErrorMeans ==
    ASSUME NEW line, Tokens(line), DOMAIN fields(line) \subseteq 1 .. 7
    PROVE  parse_error(line) = NoError <=>
              /\ line[1] \in {"submit", "update", "cancel", "snapshot"}
              /\ \A i \in DOMAIN fields(line) : field_error(line, i) = NoError
              /\ line[1] = "submit" => line[2] \in {"limit", "market"}
              /\ line[1] = "update" => line[2] = "limit"
              /\ Len(line) <= Len(fields(line)) + 1
<1> DEFINE wrong ==
        {i \in DOMAIN fields(line) : field_error(line, i) # NoError}
<1>1. ASSUME wrong # {}
      PROVE  field_error(line, Min(wrong)) # NoError
  <2>1. Min(wrong) \in wrong
    BY <1>1, AnyWrong
  <2> QED BY <2>1
<1>2. /\ NoError # <<"expected", "command">>
      /\ NoError # <<"expected", "pricing">>
      /\ NoError # <<"unexpected", "">>
  BY DEF NoError
<1>3. wrong = {} <=>
         \A i \in DOMAIN fields(line) : field_error(line, i) = NoError
  OBVIOUS
<1>4. Len(line) \in Nat BY DEF Tokens
<1>5. parse_error(line) =
         IF line[1] \notin {"submit", "update", "cancel", "snapshot"}
         THEN <<"expected", "command">>
         ELSE IF wrong # {} THEN field_error(line, Min(wrong))
         ELSE IF \/ line[1] = "submit" /\ line[2] \notin {"limit", "market"}
                 \/ line[1] = "update" /\ line[2] # "limit"
              THEN <<"expected", "pricing">>
         ELSE IF Len(line) > Len(fields(line)) + 1 THEN <<"unexpected", "">>
         ELSE NoError
  BY DEF parse_error
<1>6. (~ (Len(line) > Len(fields(line)) + 1))
         <=> Len(line) <= Len(fields(line)) + 1
  OBVIOUS
<1> HIDE DEF wrong
<1> QED BY <1>1, <1>2, <1>3, <1>5, <1>6

\* What the parser asks of the token of a field.
Asks(field, token) ==
    CASE field = "side" -> token \in {"buy", "sell"}
      [] field \in {"limit_price", "size"} -> Positive(token)
      [] field \in {"user", "client_order", "depth"} -> Number(token)
      [] OTHER -> TRUE

\* The fields the parser can ask for.
FieldNames == {"pricing", "user", "client_order", "instrument", "side",
               "limit_price", "size", "depth"}

\* field_error finds no fault with a field exactly when its token is there and
\* is what the field asks for.
LEMMA FieldFits ==
    ASSUME NEW line, Tokens(line), NEW i \in Nat,
           fields(line)[i] \in FieldNames
    PROVE  field_error(line, i) = NoError <=>
              i + 1 <= Len(line) /\ Asks(fields(line)[i], line[i + 1])
<1> DEFINE field == fields(line)[i]
           token == line[i + 1]
<1>1. Len(line) \in Nat BY DEF Tokens
<1>2. /\ <<"missing", field>> # NoError
      /\ <<"expected", "side">> # NoError
      /\ <<"expected", field>> # NoError
      /\ <<"positive", field>> # NoError
  BY DEF NoError
<1>3. field_error(line, i) =
         IF i + 1 > Len(line) THEN <<"missing", field>>
         ELSE IF field = "side" /\ token \notin {"buy", "sell"}
              THEN <<"expected", "side">>
         ELSE IF field \notin {"pricing", "instrument", "side"}
                 /\ token \notin DOMAIN Value THEN <<"expected", field>>
         ELSE IF field \in {"limit_price", "size"} /\ Value[token] = 0
              THEN <<"positive", field>>
         ELSE NoError
  BY DEF field_error
<1>4. token \in DOMAIN Value => (Value[token] > 0 <=> Value[token] # 0)
  BY ScenarioAssumption
<1>5. (i + 1 > Len(line)) <=> ~ (i + 1 <= Len(line))
  BY <1>1
<1>6. field \in FieldNames
  OBVIOUS
<1> HIDE DEF field, token
<1>7. field_error(line, i) = NoError <=>
         i + 1 <= Len(line) /\ Asks(field, token)
  BY <1>2, <1>3, <1>4, <1>5, <1>6 DEF Asks, Number, Positive, FieldNames
<1> QED BY <1>7 DEF field, token

\* The fields of the five forms.
LimitFields == <<"pricing", "user", "client_order", "instrument", "side",
                 "limit_price", "size">>
MarketFields == <<"pricing", "user", "client_order", "instrument", "side",
                  "size">>
UpdateFields == <<"pricing", "user", "client_order", "limit_price", "size">>
CancelFields == <<"user", "client_order">>
SnapshotFields == <<"instrument", "depth">>

\* What parse_submit, parse_update, parse_cancel and parse_snapshot read, for
\* each way a line can begin.
LEMMA FieldsOfCommand ==
    ASSUME NEW line, Tokens(line)
    PROVE  /\ line[1] = "submit" /\ Len(line) > 1 /\ line[2] = "limit" =>
                 fields(line) = LimitFields
           /\ line[1] = "submit" /\ Len(line) > 1 /\ line[2] = "market" =>
                 fields(line) = MarketFields
           /\ line[1] = "submit" /\
              ~ (Len(line) > 1 /\ line[2] \in {"limit", "market"}) =>
                 fields(line) = <<"pricing", "user", "client_order",
                                  "instrument", "side">>
           /\ line[1] = "update" /\ Len(line) > 1 /\ line[2] = "limit" =>
                 fields(line) = UpdateFields
           /\ line[1] = "update" /\ ~ (Len(line) > 1 /\ line[2] = "limit") =>
                 fields(line) = <<"pricing", "user", "client_order">>
           /\ line[1] = "cancel" => fields(line) = CancelFields
           /\ line[1] = "snapshot" => fields(line) = SnapshotFields
           /\ line[1] \notin {"submit", "update", "cancel", "snapshot"} =>
                 fields(line) = <<>>
<1> DEFINE pricing == IF Len(line) > 1 THEN line[2] ELSE ""
<1>1. /\ Len(line) > 1 => pricing = line[2]
      /\ ~ (Len(line) > 1) => pricing = ""
  OBVIOUS
<1>2. fields(line) =
         CASE line[1] = "submit" /\ pricing = "limit" -> LimitFields
           [] line[1] = "submit" /\ pricing = "market" -> MarketFields
           [] line[1] = "submit" /\ pricing \notin {"limit", "market"} ->
                 <<"pricing", "user", "client_order", "instrument", "side">>
           [] line[1] = "update" /\ pricing = "limit" -> UpdateFields
           [] line[1] = "update" /\ pricing # "limit" ->
                 <<"pricing", "user", "client_order">>
           [] line[1] = "cancel" -> CancelFields
           [] line[1] = "snapshot" -> SnapshotFields
           [] OTHER -> <<>>
  BY DEF fields, LimitFields, MarketFields, UpdateFields, CancelFields,
         SnapshotFields
<1> HIDE DEF pricing
<1>3. /\ line[1] = "submit" /\ pricing = "limit" => fields(line) = LimitFields
      /\ line[1] = "submit" /\ pricing = "market" =>
            fields(line) = MarketFields
      /\ line[1] = "submit" /\ pricing \notin {"limit", "market"} =>
            fields(line) = <<"pricing", "user", "client_order", "instrument",
                             "side">>
  BY <1>2
<1>4. /\ line[1] = "update" /\ pricing = "limit" =>
            fields(line) = UpdateFields
      /\ line[1] = "update" /\ pricing # "limit" =>
            fields(line) = <<"pricing", "user", "client_order">>
      /\ line[1] = "cancel" => fields(line) = CancelFields
      /\ line[1] = "snapshot" => fields(line) = SnapshotFields
      /\ line[1] \notin {"submit", "update", "cancel", "snapshot"} =>
            fields(line) = <<>>
  BY <1>2
<1> QED BY <1>1, <1>3, <1>4

\* What each field asks for.
LEMMA AsksWord ==
    ASSUME NEW token
    PROVE  /\ Asks("pricing", token) /\ Asks("instrument", token)
           /\ Asks("user", token) <=> Number(token)
           /\ Asks("client_order", token) <=> Number(token)
           /\ Asks("depth", token) <=> Number(token)
           /\ Asks("side", token) <=> token \in {"buy", "sell"}
           /\ Asks("limit_price", token) <=> Positive(token)
           /\ Asks("size", token) <=> Positive(token)
BY DEF Asks

\* A line is accepted when every field is there and fits, the command and the
\* pricing are known, and no token is left over.
LEMMA Accepts ==
    ASSUME NEW line, Tokens(line), NEW k \in 0 .. 7,
           DOMAIN fields(line) = 1 .. k, Len(fields(line)) = k,
           \A i \in 1 .. k : fields(line)[i] \in FieldNames
    PROVE  parse_error(line) = NoError <=>
              /\ line[1] \in {"submit", "update", "cancel", "snapshot"}
              /\ \A i \in 1 .. k :
                    i + 1 <= Len(line) /\ Asks(fields(line)[i], line[i + 1])
              /\ line[1] = "submit" => line[2] \in {"limit", "market"}
              /\ line[1] = "update" => line[2] = "limit"
              /\ Len(line) <= k + 1
<1>1. DOMAIN fields(line) \subseteq 1 .. 7
  OBVIOUS
<1>2. \A i \in 1 .. k :
         field_error(line, i) = NoError <=>
            i + 1 <= Len(line) /\ Asks(fields(line)[i], line[i + 1])
  BY FieldFits
<1> QED BY <1>1, <1>2, NoErrorMeans

\* A line that is neither too short nor too long.
LEMMA Pinched ==
    \A m, n \in Nat : (m <= n /\ n <= m) <=> m = n
OBVIOUS

\* The forms one by one: the command and the pricing decide which it is.
LEMMA AcceptsLimit ==
    ASSUME NEW line, Tokens(line), fields(line) = LimitFields,
           line[1] = "submit", line[2] = "limit"
    PROVE  parse_error(line) = NoError <=> IsLimit(line)
<1>1. /\ 7 \in 0 .. 7 /\ DOMAIN fields(line) = 1 .. 7
      /\ Len(fields(line)) = 7
  BY DEF LimitFields
<1>2. \A i \in 1 .. 7 : fields(line)[i] \in FieldNames
  BY DEF LimitFields, FieldNames
<1>3. parse_error(line) = NoError <=>
         /\ \A i \in 1 .. 7 :
               i + 1 <= Len(line) /\ Asks(fields(line)[i], line[i + 1])
         /\ Len(line) <= 8
  BY <1>1, <1>2, Accepts
<1>4. Len(line) \in Nat BY DEF Tokens
<1>5. (\A i \in 1 .. 7 :
          i + 1 <= Len(line) /\ Asks(fields(line)[i], line[i + 1])) <=>
         /\ 8 <= Len(line)
         /\ Asks("pricing", line[2]) /\ Asks("user", line[3])
         /\ Asks("client_order", line[4]) /\ Asks("instrument", line[5])
         /\ Asks("side", line[6]) /\ Asks("limit_price", line[7])
         /\ Asks("size", line[8])
  BY <1>4 DEF LimitFields
<1>6. /\ Asks("pricing", line[2])
      /\ Asks("user", line[3]) <=> Number(line[3])
      /\ Asks("client_order", line[4]) <=> Number(line[4])
      /\ Asks("instrument", line[5])
      /\ Asks("side", line[6]) <=> line[6] \in {"buy", "sell"}
      /\ Asks("limit_price", line[7]) <=> Positive(line[7])
      /\ Asks("size", line[8]) <=> Positive(line[8])
  BY AsksWord
<1>7. (Len(line) <= 8 /\ 8 <= Len(line)) <=> Len(line) = 8
  BY <1>4, Pinched
<1> QED BY <1>3, <1>5, <1>6, <1>7 DEF IsLimit

\* parse_submit of a market order accepts its form.
LEMMA AcceptsMarket ==
    ASSUME NEW line, Tokens(line), fields(line) = MarketFields,
           line[1] = "submit", line[2] = "market"
    PROVE  parse_error(line) = NoError <=> IsMarket(line)
<1>1. /\ 6 \in 0 .. 7 /\ DOMAIN fields(line) = 1 .. 6
      /\ Len(fields(line)) = 6
  BY DEF MarketFields
<1>2. \A i \in 1 .. 6 : fields(line)[i] \in FieldNames
  BY DEF MarketFields, FieldNames
<1>3. parse_error(line) = NoError <=>
         /\ \A i \in 1 .. 6 :
               i + 1 <= Len(line) /\ Asks(fields(line)[i], line[i + 1])
         /\ Len(line) <= 7
  BY <1>1, <1>2, Accepts
<1>4. Len(line) \in Nat BY DEF Tokens
<1>5. (\A i \in 1 .. 6 :
          i + 1 <= Len(line) /\ Asks(fields(line)[i], line[i + 1])) <=>
         /\ 7 <= Len(line)
         /\ Asks("pricing", line[2]) /\ Asks("user", line[3])
         /\ Asks("client_order", line[4]) /\ Asks("instrument", line[5])
         /\ Asks("side", line[6]) /\ Asks("size", line[7])
  BY <1>4 DEF MarketFields
<1>6. /\ Asks("pricing", line[2])
      /\ Asks("user", line[3]) <=> Number(line[3])
      /\ Asks("client_order", line[4]) <=> Number(line[4])
      /\ Asks("instrument", line[5])
      /\ Asks("side", line[6]) <=> line[6] \in {"buy", "sell"}
      /\ Asks("size", line[7]) <=> Positive(line[7])
  BY AsksWord
<1>7. (Len(line) <= 7 /\ 7 <= Len(line)) <=> Len(line) = 7
  BY <1>4, Pinched
<1> QED BY <1>3, <1>5, <1>6, <1>7 DEF IsMarket

\* parse_update accepts its form.
LEMMA AcceptsUpdate ==
    ASSUME NEW line, Tokens(line), fields(line) = UpdateFields,
           line[1] = "update", line[2] = "limit"
    PROVE  parse_error(line) = NoError <=> IsUpdate(line)
<1>1. /\ 5 \in 0 .. 7 /\ DOMAIN fields(line) = 1 .. 5
      /\ Len(fields(line)) = 5
  BY DEF UpdateFields
<1>2. \A i \in 1 .. 5 : fields(line)[i] \in FieldNames
  BY DEF UpdateFields, FieldNames
<1>3. parse_error(line) = NoError <=>
         /\ \A i \in 1 .. 5 :
               i + 1 <= Len(line) /\ Asks(fields(line)[i], line[i + 1])
         /\ Len(line) <= 6
  BY <1>1, <1>2, Accepts
<1>4. Len(line) \in Nat BY DEF Tokens
<1>5. (\A i \in 1 .. 5 :
          i + 1 <= Len(line) /\ Asks(fields(line)[i], line[i + 1])) <=>
         /\ 6 <= Len(line)
         /\ Asks("pricing", line[2]) /\ Asks("user", line[3])
         /\ Asks("client_order", line[4]) /\ Asks("limit_price", line[5])
         /\ Asks("size", line[6])
  BY <1>4 DEF UpdateFields
<1>6. /\ Asks("pricing", line[2])
      /\ Asks("user", line[3]) <=> Number(line[3])
      /\ Asks("client_order", line[4]) <=> Number(line[4])
      /\ Asks("limit_price", line[5]) <=> Positive(line[5])
      /\ Asks("size", line[6]) <=> Positive(line[6])
  BY AsksWord
<1>7. (Len(line) <= 6 /\ 6 <= Len(line)) <=> Len(line) = 6
  BY <1>4, Pinched
<1> QED BY <1>3, <1>5, <1>6, <1>7 DEF IsUpdate

\* parse_cancel and parse_snapshot accept their forms.
LEMMA AcceptsShort ==
    ASSUME NEW line, Tokens(line)
    PROVE  /\ fields(line) = CancelFields /\ line[1] = "cancel" =>
                 (parse_error(line) = NoError <=> IsCancel(line))
           /\ fields(line) = SnapshotFields /\ line[1] = "snapshot" =>
                 (parse_error(line) = NoError <=> IsSnapshot(line))
<1>0. Len(line) \in Nat BY DEF Tokens
<1>1. ASSUME fields(line) = CancelFields, line[1] = "cancel"
      PROVE  parse_error(line) = NoError <=> IsCancel(line)
  <2>1. /\ 2 \in 0 .. 7 /\ DOMAIN fields(line) = 1 .. 2
        /\ Len(fields(line)) = 2
    BY <1>1 DEF CancelFields
  <2>2. \A i \in 1 .. 2 : fields(line)[i] \in FieldNames
    BY <1>1 DEF CancelFields, FieldNames
  <2>3. parse_error(line) = NoError <=>
           /\ \A i \in 1 .. 2 :
                 i + 1 <= Len(line) /\ Asks(fields(line)[i], line[i + 1])
           /\ Len(line) <= 3
    BY <1>1, <2>1, <2>2, Accepts
  <2>4. (\A i \in 1 .. 2 :
            i + 1 <= Len(line) /\ Asks(fields(line)[i], line[i + 1])) <=>
           /\ 3 <= Len(line)
           /\ Asks("user", line[2]) /\ Asks("client_order", line[3])
    BY <1>0, <1>1 DEF CancelFields
  <2>5. /\ Asks("user", line[2]) <=> Number(line[2])
        /\ Asks("client_order", line[3]) <=> Number(line[3])
    BY AsksWord
  <2>6. (Len(line) <= 3 /\ 3 <= Len(line)) <=> Len(line) = 3
    BY <1>0, Pinched
  <2> QED BY <1>1, <2>3, <2>4, <2>5, <2>6 DEF IsCancel
<1>2. ASSUME fields(line) = SnapshotFields, line[1] = "snapshot"
      PROVE  parse_error(line) = NoError <=> IsSnapshot(line)
  <2>1. /\ 2 \in 0 .. 7 /\ DOMAIN fields(line) = 1 .. 2
        /\ Len(fields(line)) = 2
    BY <1>2 DEF SnapshotFields
  <2>2. \A i \in 1 .. 2 : fields(line)[i] \in FieldNames
    BY <1>2 DEF SnapshotFields, FieldNames
  <2>3. parse_error(line) = NoError <=>
           /\ \A i \in 1 .. 2 :
                 i + 1 <= Len(line) /\ Asks(fields(line)[i], line[i + 1])
           /\ Len(line) <= 3
    BY <1>2, <2>1, <2>2, Accepts
  <2>4. (\A i \in 1 .. 2 :
            i + 1 <= Len(line) /\ Asks(fields(line)[i], line[i + 1])) <=>
           /\ 3 <= Len(line)
           /\ Asks("instrument", line[2]) /\ Asks("depth", line[3])
    BY <1>0, <1>2 DEF SnapshotFields
  <2>5. /\ Asks("instrument", line[2])
        /\ Asks("depth", line[3]) <=> Number(line[3])
    BY AsksWord
  <2>6. (Len(line) <= 3 /\ 3 <= Len(line)) <=> Len(line) = 3
    BY <1>0, Pinched
  <2> QED BY <1>2, <2>3, <2>4, <2>5, <2>6 DEF IsSnapshot
<1> QED BY <1>1, <1>2

\* With any other command or pricing the parser refuses the line.
LEMMA AcceptsNoOther ==
    ASSUME NEW line, Tokens(line), parse_error(line) = NoError
    PROVE  \/ Len(line) > 1 /\ line[1] = "submit"
              /\ line[2] \in {"limit", "market"}
           \/ Len(line) > 1 /\ line[1] = "update" /\ line[2] = "limit"
           \/ line[1] \in {"cancel", "snapshot"}
<1>0. Len(line) \in Nat BY DEF Tokens
<1>1. CASE line[1] \notin {"submit", "update", "cancel", "snapshot"}
  BY <1>1 DEF parse_error, NoError
<1>2. CASE line[1] = "submit"
           /\ ~ (Len(line) > 1 /\ line[2] \in {"limit", "market"})
  <2>0. fields(line) = <<"pricing", "user", "client_order", "instrument",
                         "side">>
    BY <1>2, FieldsOfCommand
  <2>1. /\ 5 \in 0 .. 7 /\ DOMAIN fields(line) = 1 .. 5
        /\ Len(fields(line)) = 5
    BY <2>0
  <2>2. \A i \in 1 .. 5 : fields(line)[i] \in FieldNames
    BY <2>0 DEF FieldNames
  <2>3. /\ \A i \in 1 .. 5 : i + 1 <= Len(line)
        /\ line[1] = "submit" => line[2] \in {"limit", "market"}
    BY <2>1, <2>2, Accepts
  <2>4. 1 + 1 <= Len(line) BY <2>3
  <2> QED BY <1>0, <1>2, <2>3, <2>4
<1>3. CASE line[1] = "update" /\ ~ (Len(line) > 1 /\ line[2] = "limit")
  <2>0. fields(line) = <<"pricing", "user", "client_order">>
    BY <1>3, FieldsOfCommand
  <2>1. /\ 3 \in 0 .. 7 /\ DOMAIN fields(line) = 1 .. 3
        /\ Len(fields(line)) = 3
    BY <2>0
  <2>2. \A i \in 1 .. 3 : fields(line)[i] \in FieldNames
    BY <2>0 DEF FieldNames
  <2>3. /\ \A i \in 1 .. 3 : i + 1 <= Len(line)
        /\ line[1] = "update" => line[2] = "limit"
    BY <2>1, <2>2, Accepts
  <2>4. 1 + 1 <= Len(line) BY <2>3
  <2> QED BY <1>0, <1>3, <2>3, <2>4
<1> QED BY <1>1, <1>2, <1>3

\* The parser accepts exactly the sentences of README.md's format.
THEOREM ParserExact ==
    ASSUME NEW line \in Seq(STRING), line # <<>>
    PROVE  parse_error(line) = NoError <=> Sentence(line)
<1> USE DEF Tokens
<1>0. Len(line) \in Nat
  OBVIOUS
<1>1. ASSUME parse_error(line) = NoError PROVE Sentence(line)
  BY <1>1, AcceptsNoOther, FieldsOfCommand, AcceptsLimit, AcceptsMarket,
     AcceptsUpdate, AcceptsShort, SentenceForm
<1>2. ASSUME Sentence(line) PROVE parse_error(line) = NoError
  <2>1. CASE IsLimit(line)
    BY <1>0, <2>1, FieldsOfCommand, AcceptsLimit DEF IsLimit
  <2>2. CASE IsMarket(line)
    BY <1>0, <2>2, FieldsOfCommand, AcceptsMarket DEF IsMarket
  <2>3. CASE IsUpdate(line)
    BY <1>0, <2>3, FieldsOfCommand, AcceptsUpdate DEF IsUpdate
  <2>4. CASE IsCancel(line)
    BY <2>4, FieldsOfCommand, AcceptsShort DEF IsCancel
  <2>5. CASE IsSnapshot(line)
    BY <2>5, FieldsOfCommand, AcceptsShort DEF IsSnapshot
  <2> QED BY <1>2, <2>1, <2>2, <2>3, <2>4, <2>5, SentenceForm
<1> QED BY <1>1, <1>2

-----------------------------------------------------------------------------
(* What an accepted line means.                                            *)

\* Field i of a line, which occurs once among its fields.
FieldAt(line, i, field) ==
    /\ i \in DOMAIN fields(line) /\ fields(line)[i] = field
    /\ \A j \in DOMAIN fields(line) : fields(line)[j] = field => j = i

\* read_token gives a field the token at its place.
LEMMA TokenAt ==
    ASSUME NEW line, NEW i \in Nat, NEW field, FieldAt(line, i, field)
    PROVE  TokenOf(line, field) = line[1 + i]
<1> DEFINE j == CHOOSE j \in DOMAIN fields(line) : fields(line)[j] = field
<1>1. \E k \in DOMAIN fields(line) : fields(line)[k] = field
  BY DEF FieldAt
<1>2. j \in DOMAIN fields(line) /\ fields(line)[j] = field
  BY <1>1
<1>3. j = i
  BY <1>2 DEF FieldAt
<1> HIDE DEF j
<1>4. TokenOf(line, field) = line[1 + j]
  BY DEF TokenOf, j
<1> QED BY <1>3, <1>4

\* A token for a pricing or a side, a number for any other field.
LEMMA ArgumentAt ==
    ASSUME NEW line, NEW i \in Nat, NEW field, FieldAt(line, i, field), NEW id
    PROVE  /\ field # "instrument" /\ field \in {"pricing", "side"} =>
                 make_command(line, id).arguments[field] = line[1 + i]
           /\ field # "instrument" /\ field \notin {"pricing", "side"} =>
                 make_command(line, id).arguments[field] = Value[line[1 + i]]
<1>1. field \in ToSet(fields(line))
  BY DEF FieldAt, ToSet
<1>2. make_command(line, id).arguments =
         [f \in ToSet(fields(line)) \ {"instrument"} |->
             IF f \in {"pricing", "side"} THEN TokenOf(line, f)
             ELSE Value[TokenOf(line, f)]]
  BY DEF make_command
<1> QED BY <1>1, <1>2, TokenAt

\* The places of the fields of a limit order.
LEMMA LimitFieldsAt ==
    ASSUME NEW line, fields(line) = LimitFields
    PROVE  /\ FieldAt(line, 1, "pricing") /\ FieldAt(line, 2, "user")
           /\ FieldAt(line, 3, "client_order") /\ FieldAt(line, 4, "instrument")
           /\ FieldAt(line, 5, "side") /\ FieldAt(line, 6, "limit_price")
           /\ FieldAt(line, 7, "size")
BY DEF FieldAt, LimitFields

\* The places of the fields of a market order.
LEMMA MarketFieldsAt ==
    ASSUME NEW line, fields(line) = MarketFields
    PROVE  /\ FieldAt(line, 1, "pricing") /\ FieldAt(line, 2, "user")
           /\ FieldAt(line, 3, "client_order") /\ FieldAt(line, 4, "instrument")
           /\ FieldAt(line, 5, "side") /\ FieldAt(line, 6, "size")
BY DEF FieldAt, MarketFields

\* The places of the fields of an update.
LEMMA UpdateFieldsAt ==
    ASSUME NEW line, fields(line) = UpdateFields
    PROVE  /\ FieldAt(line, 1, "pricing") /\ FieldAt(line, 2, "user")
           /\ FieldAt(line, 3, "client_order")
           /\ FieldAt(line, 4, "limit_price") /\ FieldAt(line, 5, "size")
BY DEF FieldAt, UpdateFields

\* The places of the fields of a cancellation.
LEMMA CancelFieldsAt ==
    ASSUME NEW line, fields(line) = CancelFields
    PROVE  FieldAt(line, 1, "user") /\ FieldAt(line, 2, "client_order")
BY DEF FieldAt, CancelFields

\* The places of the fields of a snapshot.
LEMMA SnapshotFieldsAt ==
    ASSUME NEW line, fields(line) = SnapshotFields
    PROVE  FieldAt(line, 1, "instrument") /\ FieldAt(line, 2, "depth")
BY DEF FieldAt, SnapshotFields

\* The fields that the parser reads from a line of each form.
LEMMA FieldsOfForm ==
    ASSUME NEW line, Tokens(line)
    PROVE  /\ IsLimit(line) => fields(line) = LimitFields
           /\ IsMarket(line) => fields(line) = MarketFields
           /\ IsUpdate(line) => fields(line) = UpdateFields
           /\ IsCancel(line) => fields(line) = CancelFields
           /\ IsSnapshot(line) => fields(line) = SnapshotFields
BY FieldsOfCommand DEF IsLimit, IsMarket, IsUpdate, IsCancel, IsSnapshot

\* The names in a line.
NamesIn(line) ==
    {line[k] : k \in {k \in DOMAIN line :
                         \E sentence \in Grammar :
                            /\ Derives(sentence, line)
                            /\ sentence[k] = "<instrument>"}}

\* A form has at most one place for a name.
LEMMA PlaceOfName ==
    /\ \A k \in 1 .. 8 : LimitForm[k] = "<instrument>" <=> k = 5
    /\ \A k \in 1 .. 7 : MarketForm[k] = "<instrument>" <=> k = 5
    /\ \A k \in 1 .. 6 : UpdateForm[k] # "<instrument>"
    /\ \A k \in 1 .. 3 : CancelForm[k] # "<instrument>"
    /\ \A k \in 1 .. 3 : SnapshotForm[k] = "<instrument>" <=> k = 2
BY DEF LimitForm, MarketForm, UpdateForm, CancelForm, SnapshotForm

\* The names in a line of each form.
LEMMA NamesOfForm ==
    ASSUME NEW line, Tokens(line)
    PROVE  NamesIn(line) =
              IF IsLimit(line) \/ IsMarket(line) THEN {line[5]}
              ELSE IF IsSnapshot(line) THEN {line[2]} ELSE {}
<1> DEFINE Place(k) == \E sentence \in Grammar :
                          /\ Derives(sentence, line)
                          /\ sentence[k] = "<instrument>"
<1>0. DOMAIN line = 1 .. Len(line) /\ Len(line) \in Nat
  BY DEF Tokens
<1>1. \A k : Place(k) <=>
         \/ IsLimit(line) /\ LimitForm[k] = "<instrument>"
         \/ IsMarket(line) /\ MarketForm[k] = "<instrument>"
         \/ IsUpdate(line) /\ UpdateForm[k] = "<instrument>"
         \/ IsCancel(line) /\ CancelForm[k] = "<instrument>"
         \/ IsSnapshot(line) /\ SnapshotForm[k] = "<instrument>"
  BY GrammarForms, DerivesForm
<1>2. NamesIn(line) = {line[k] : k \in {k \in DOMAIN line : Place(k)}}
  BY DEF NamesIn
<1> HIDE DEF Place
<1>3. CASE IsLimit(line) \/ IsMarket(line)
  <2>1. \A k \in DOMAIN line : Place(k) <=> k = 5
    BY <1>0, <1>1, <1>3, PlaceOfName
       DEF IsLimit, IsMarket, IsUpdate, IsCancel, IsSnapshot
  <2>2. 5 \in DOMAIN line
    BY <1>0, <1>3 DEF IsLimit, IsMarket
  <2> QED BY <1>2, <1>3, <2>1, <2>2
<1>4. CASE IsSnapshot(line)
  <2>1. \A k \in DOMAIN line : Place(k) <=> k = 2
    BY <1>0, <1>1, <1>4, PlaceOfName
       DEF IsLimit, IsMarket, IsUpdate, IsCancel, IsSnapshot
  <2>2. 2 \in DOMAIN line /\ ~ IsLimit(line) /\ ~ IsMarket(line)
    BY <1>0, <1>4 DEF IsLimit, IsMarket, IsSnapshot
  <2> QED BY <1>2, <1>4, <2>1, <2>2
<1>5. CASE ~ IsLimit(line) /\ ~ IsMarket(line) /\ ~ IsSnapshot(line)
  <2>1. \A k \in DOMAIN line : ~ Place(k)
    BY <1>0, <1>1, <1>5, PlaceOfName DEF IsUpdate, IsCancel
  <2> QED BY <1>2, <1>5, <2>1
<1> QED BY <1>3, <1>4, <1>5

\* A sentence names its instrument, if it has one, and nothing else.
LEMMA NamesOfSentence ==
    ASSUME NEW line, Tokens(line)
    PROVE  /\ Sentence(line) /\ HasInstrument(line) =>
                 NamesIn(line) = {TokenOf(line, "instrument")}
           /\ ~ (Sentence(line) /\ HasInstrument(line)) => NamesIn(line) = {}
<1>1. CASE IsLimit(line)
  <2>1. Sentence(line) /\ HasInstrument(line)
    BY <1>1, SentenceForm DEF HasInstrument, IsLimit
  <2>2. FieldAt(line, 4, "instrument")
    BY <1>1, FieldsOfForm, LimitFieldsAt
  <2>3. TokenOf(line, "instrument") = line[5]
    BY <2>2, TokenAt
  <2> QED BY <1>1, <2>1, <2>3, NamesOfForm
<1>2. CASE IsMarket(line)
  <2>1. Sentence(line) /\ HasInstrument(line)
    BY <1>2, SentenceForm DEF HasInstrument, IsMarket
  <2>2. FieldAt(line, 4, "instrument")
    BY <1>2, FieldsOfForm, MarketFieldsAt
  <2>3. TokenOf(line, "instrument") = line[5]
    BY <2>2, TokenAt
  <2> QED BY <1>2, <2>1, <2>3, NamesOfForm
<1>3. CASE IsSnapshot(line)
  <2>1. Sentence(line) /\ HasInstrument(line)
    BY <1>3, SentenceForm DEF HasInstrument, IsSnapshot
  <2>2. FieldAt(line, 1, "instrument")
    BY <1>3, FieldsOfForm, SnapshotFieldsAt
  <2>3. TokenOf(line, "instrument") = line[2]
    BY <2>2, TokenAt
  <2>4. ~ IsLimit(line) /\ ~ IsMarket(line)
    BY <1>3 DEF IsSnapshot, IsLimit, IsMarket
  <2> QED BY <1>3, <2>1, <2>3, <2>4, NamesOfForm
<1>4. CASE ~ IsLimit(line) /\ ~ IsMarket(line) /\ ~ IsSnapshot(line)
  <2>1. ~ (Sentence(line) /\ HasInstrument(line))
    BY <1>4, SentenceForm DEF HasInstrument, IsUpdate, IsCancel
  <2> QED BY <1>4, <2>1, NamesOfForm
<1> QED BY <1>1, <1>2, <1>3, <1>4

-----------------------------------------------------------------------------
(* Names and their order.                                                  *)

\* The names of one more line.
LEMMA NamedGrows ==
    ASSUME NEW lines, NEW n \in Nat
    PROVE  /\ Named(lines, 0) = {}
           /\ Named(lines, n + 1) = Named(lines, n) \cup NamesIn(lines[n + 1])
<1>1. \A m : Named(lines, m) = UNION {NamesIn(lines[i]) : i \in 1 .. m}
  BY DEF Named, NamesIn
<1>2. 1 .. n + 1 = (1 .. n) \cup {n + 1} /\ 1 .. 0 = {}
  OBVIOUS
<1>3. {NamesIn(lines[i]) : i \in 1 .. n + 1} =
         {NamesIn(lines[i]) : i \in 1 .. n} \cup {NamesIn(lines[n + 1])}
  BY <1>2
<1>4. Named(lines, n + 1) =
         (UNION {NamesIn(lines[i]) : i \in 1 .. n}) \cup NamesIn(lines[n + 1])
  BY <1>1, <1>3
<1>5. Named(lines, 0) = {}
  BY <1>1, <1>2
<1> QED BY <1>1, <1>4, <1>5

\* Names are never forgotten.
LEMMA NamedMonotone ==
    ASSUME NEW lines, NEW m \in Nat, NEW n \in Nat, m <= n
    PROVE  Named(lines, m) \subseteq Named(lines, n)
BY DEF Named

\* The lines of a file.
IsText(lines) == lines \in Seq(Seq(STRING))

\* A line of a file has at most one name, so a file has finitely many.
LEMMA NamesAreFew ==
    ASSUME NEW line, line \in Seq(STRING)
    PROVE  IsFiniteSet(NamesIn(line))
<1>1. CASE line = <<>>
  <2>1. NamesIn(line) = {}
    BY <1>1 DEF NamesIn
  <2> QED BY <2>1, FS_EmptySet
<1>2. CASE line # <<>>
  <2>1. \/ NamesIn(line) = {}
        \/ NamesIn(line) = {TokenOf(line, "instrument")}
    BY <1>2, NamesOfSentence DEF Tokens
  <2> QED BY <2>1, FS_EmptySet, FS_Singleton
<1> QED BY <1>1, <1>2

\* The names of a file are counted by a number.
LEMMA NamedFinite ==
    ASSUME NEW lines, IsText(lines), NEW n \in Nat, n <= Len(lines)
    PROVE  IsFiniteSet(Named(lines, n)) /\ Cardinality(Named(lines, n)) \in Nat
<1> DEFINE N == {NamesIn(lines[i]) : i \in 1 .. n}
<1>1. Named(lines, n) = UNION N
  BY DEF Named, NamesIn
<1>2. \A T \in N : IsFiniteSet(T)
  <2>1. \A i \in 1 .. n : lines[i] \in Seq(STRING)
    BY DEF IsText
  <2>2. \A i \in 1 .. n : IsFiniteSet(NamesIn(lines[i]))
    BY <2>1, NamesAreFew
  <2> QED BY <2>2
<1>3. IsFiniteSet(N)
  <2>1. IsFiniteSet(1 .. n)
    BY FS_Interval
  <2>2. [i \in 1 .. n |-> NamesIn(lines[i])] \in Surjection(1 .. n, N)
    BY DEF Surjection
  <2> QED BY <2>1, <2>2, FS_Surjection
<1> HIDE DEF N
<1> QED BY <1>1, <1>2, <1>3, FS_UNION, FS_CardinalityType

\* The id of a name that is new in line n is the number of names so far.
LEMMA FirstSeenIs ==
    ASSUME NEW lines, IsText(lines), NEW n \in 1 .. Len(lines), NEW name,
           name \in Named(lines, n), name \notin Named(lines, n - 1)
    PROVE  FirstSeen(lines, name) = Cardinality(Named(lines, n))
<1> DEFINE all == Cardinality(Named(lines, Len(lines)))
           Is(id) == \E k \in 1 .. Len(lines) :
                        /\ Cardinality(Named(lines, k)) = id
                        /\ name \in Named(lines, k) \ Named(lines, k - 1)
           now == Cardinality(Named(lines, n))
<1>0. Len(lines) \in Nat
  BY DEF IsText
<1>1. FirstSeen(lines, name) = CHOOSE id \in 1 .. all : Is(id)
  BY DEF FirstSeen
<1>2. \A k \in 1 .. Len(lines) :
         name \in Named(lines, k) \ Named(lines, k - 1) => k = n
  <2> SUFFICES ASSUME NEW k \in 1 .. Len(lines),
                      name \in Named(lines, k), name \notin Named(lines, k - 1),
                      k # n
               PROVE  FALSE
    OBVIOUS
  <2>1. CASE k < n
    <3>1. k \in Nat /\ n - 1 \in Nat /\ k <= n - 1
      BY <1>0, <2>1
    <3> QED BY <3>1, NamedMonotone
  <2>2. CASE n < k
    <3>1. n \in Nat /\ k - 1 \in Nat /\ n <= k - 1
      BY <1>0, <2>2
    <3> QED BY <3>1, NamedMonotone
  <2> QED BY <1>0, <2>1, <2>2
<1>3. Is(now) /\ \A id : Is(id) => id = now
  BY <1>2
<1>4. now \in 1 .. all
  <2>1. n \in Nat /\ n <= Len(lines)
    BY <1>0
  <2>2. /\ IsFiniteSet(Named(lines, n)) /\ now \in Nat
        /\ IsFiniteSet(Named(lines, Len(lines))) /\ all \in Nat
    BY <1>0, <2>1, NamedFinite
  <2>3. Named(lines, n) \subseteq Named(lines, Len(lines))
    BY <1>0, <2>1, NamedMonotone
  <2>4. now <= all
    BY <2>2, <2>3, FS_Subset
  <2>5. now # 0
    BY <2>2, FS_EmptySet
  <2> QED BY <2>2, <2>4, <2>5
<1> HIDE DEF Is, now, all
<1>5. (CHOOSE id \in 1 .. all : Is(id)) = now
  BY <1>3, <1>4
<1> QED BY <1>1, <1>5 DEF now

-----------------------------------------------------------------------------
(* The command of a line has the meaning of the line.                      *)

\* A command that agrees with a form place by place means the line.
LEMMA MeansForm ==
    ASSUME NEW command, NEW lines, NEW n, NEW sentence \in Grammar,
           Derives(sentence, lines[n]), command.kind = sentence[1],
           \A k \in DOMAIN sentence :
              /\ sentence[k] = "<instrument>" =>
                    command.instrument = FirstSeen(lines, lines[n][k])
              /\ sentence[k] = "<user>" =>
                    command.arguments["user"] = Value[lines[n][k]]
              /\ sentence[k] = "<client_order>" =>
                    command.arguments["client_order"] = Value[lines[n][k]]
              /\ sentence[k] = "<price>" =>
                    command.arguments["limit_price"] = Value[lines[n][k]]
              /\ sentence[k] = "<size>" =>
                    command.arguments["size"] = Value[lines[n][k]]
              /\ sentence[k] = "<depth>" =>
                    command.arguments["depth"] = Value[lines[n][k]]
              /\ sentence[k] = "<buy|sell>" =>
                    command.arguments["side"] = lines[n][k]
              /\ k # 1 /\ sentence[k] \in {"limit", "market"} =>
                    command.arguments["pricing"] = lines[n][k],
           \A k \in DOMAIN sentence :
              \/ k = 1
              \/ sentence[k] \in {"<instrument>", "<user>", "<client_order>",
                                  "<price>", "<size>", "<depth>",
                                  "<buy|sell>", "limit", "market"}
    PROVE  Means(command, lines, n)
BY DEF Means

\* make_command keeps the token of a pricing or a side.
LEMMA TextAt ==
    ASSUME NEW line, NEW i \in Nat, NEW field \in {"pricing", "side"},
           FieldAt(line, i, field), NEW id, NEW k, k = 1 + i
    PROVE  make_command(line, id).arguments[field] = line[k]
BY ArgumentAt

\* make_command takes the number of any other token.
LEMMA NumberAt ==
    ASSUME NEW line, NEW i \in Nat,
           NEW field \in FieldNames \ {"pricing", "side", "instrument"},
           FieldAt(line, i, field), NEW id, NEW k, k = 1 + i
    PROVE  make_command(line, id).arguments[field] = Value[line[k]]
BY ArgumentAt DEF FieldNames

\* The arguments of a limit order are its tokens.
LEMMA LimitArguments ==
    ASSUME NEW line, fields(line) = LimitFields, NEW id
    PROVE  /\ make_command(line, id).arguments["pricing"] = line[2]
           /\ make_command(line, id).arguments["user"] = Value[line[3]]
           /\ make_command(line, id).arguments["client_order"] = Value[line[4]]
           /\ TokenOf(line, "instrument") = line[5]
           /\ make_command(line, id).arguments["side"] = line[6]
           /\ make_command(line, id).arguments["limit_price"] = Value[line[7]]
           /\ make_command(line, id).arguments["size"] = Value[line[8]]
<1>1. make_command(line, id).arguments["pricing"] = line[2]
  <2>1. FieldAt(line, 1, "pricing")
    BY LimitFieldsAt
  <2>2. 1 \in Nat /\ 2 = 1 + 1
    BY DEF FieldNames
  <2> QED BY <2>1, <2>2, TextAt
<1>2. make_command(line, id).arguments["user"] = Value[line[3]]
  <2>1. FieldAt(line, 2, "user")
    BY LimitFieldsAt
  <2>2. 2 \in Nat /\ 3 = 1 + 2 /\ "user" \in FieldNames
    BY DEF FieldNames
  <2> QED BY <2>1, <2>2, NumberAt
<1>3. make_command(line, id).arguments["client_order"] = Value[line[4]]
  <2>1. FieldAt(line, 3, "client_order")
    BY LimitFieldsAt
  <2>2. 3 \in Nat /\ 4 = 1 + 3 /\ "client_order" \in FieldNames
    BY DEF FieldNames
  <2> QED BY <2>1, <2>2, NumberAt
<1>4. TokenOf(line, "instrument") = line[5]
  <2>1. FieldAt(line, 4, "instrument")
    BY LimitFieldsAt
  <2>2. 4 \in Nat /\ 5 = 1 + 4
    BY DEF FieldNames
  <2> QED BY <2>1, <2>2, TokenAt
<1>5. make_command(line, id).arguments["side"] = line[6]
  <2>1. FieldAt(line, 5, "side")
    BY LimitFieldsAt
  <2>2. 5 \in Nat /\ 6 = 1 + 5
    BY DEF FieldNames
  <2> QED BY <2>1, <2>2, TextAt
<1>6. make_command(line, id).arguments["limit_price"] = Value[line[7]]
  <2>1. FieldAt(line, 6, "limit_price")
    BY LimitFieldsAt
  <2>2. 6 \in Nat /\ 7 = 1 + 6 /\ "limit_price" \in FieldNames
    BY DEF FieldNames
  <2> QED BY <2>1, <2>2, NumberAt
<1>7. make_command(line, id).arguments["size"] = Value[line[8]]
  <2>1. FieldAt(line, 7, "size")
    BY LimitFieldsAt
  <2>2. 7 \in Nat /\ 8 = 1 + 7 /\ "size" \in FieldNames
    BY DEF FieldNames
  <2> QED BY <2>1, <2>2, NumberAt
<1> QED BY <1>1, <1>2, <1>3, <1>4, <1>5, <1>6, <1>7

\* The arguments of a market order are its tokens.
LEMMA MarketArguments ==
    ASSUME NEW line, fields(line) = MarketFields, NEW id
    PROVE  /\ make_command(line, id).arguments["pricing"] = line[2]
           /\ make_command(line, id).arguments["user"] = Value[line[3]]
           /\ make_command(line, id).arguments["client_order"] = Value[line[4]]
           /\ TokenOf(line, "instrument") = line[5]
           /\ make_command(line, id).arguments["side"] = line[6]
           /\ make_command(line, id).arguments["size"] = Value[line[7]]
<1>1. make_command(line, id).arguments["pricing"] = line[2]
  <2>1. FieldAt(line, 1, "pricing")
    BY MarketFieldsAt
  <2>2. 1 \in Nat /\ 2 = 1 + 1
    BY DEF FieldNames
  <2> QED BY <2>1, <2>2, TextAt
<1>2. make_command(line, id).arguments["user"] = Value[line[3]]
  <2>1. FieldAt(line, 2, "user")
    BY MarketFieldsAt
  <2>2. 2 \in Nat /\ 3 = 1 + 2 /\ "user" \in FieldNames
    BY DEF FieldNames
  <2> QED BY <2>1, <2>2, NumberAt
<1>3. make_command(line, id).arguments["client_order"] = Value[line[4]]
  <2>1. FieldAt(line, 3, "client_order")
    BY MarketFieldsAt
  <2>2. 3 \in Nat /\ 4 = 1 + 3 /\ "client_order" \in FieldNames
    BY DEF FieldNames
  <2> QED BY <2>1, <2>2, NumberAt
<1>4. TokenOf(line, "instrument") = line[5]
  <2>1. FieldAt(line, 4, "instrument")
    BY MarketFieldsAt
  <2>2. 4 \in Nat /\ 5 = 1 + 4
    BY DEF FieldNames
  <2> QED BY <2>1, <2>2, TokenAt
<1>5. make_command(line, id).arguments["side"] = line[6]
  <2>1. FieldAt(line, 5, "side")
    BY MarketFieldsAt
  <2>2. 5 \in Nat /\ 6 = 1 + 5
    BY DEF FieldNames
  <2> QED BY <2>1, <2>2, TextAt
<1>6. make_command(line, id).arguments["size"] = Value[line[7]]
  <2>1. FieldAt(line, 6, "size")
    BY MarketFieldsAt
  <2>2. 6 \in Nat /\ 7 = 1 + 6 /\ "size" \in FieldNames
    BY DEF FieldNames
  <2> QED BY <2>1, <2>2, NumberAt
<1> QED BY <1>1, <1>2, <1>3, <1>4, <1>5, <1>6

\* The arguments of an update are its tokens.
LEMMA UpdateArguments ==
    ASSUME NEW line, fields(line) = UpdateFields, NEW id
    PROVE  /\ make_command(line, id).arguments["pricing"] = line[2]
           /\ make_command(line, id).arguments["user"] = Value[line[3]]
           /\ make_command(line, id).arguments["client_order"] = Value[line[4]]
           /\ make_command(line, id).arguments["limit_price"] = Value[line[5]]
           /\ make_command(line, id).arguments["size"] = Value[line[6]]
<1>1. make_command(line, id).arguments["pricing"] = line[2]
  <2>1. FieldAt(line, 1, "pricing")
    BY UpdateFieldsAt
  <2>2. 1 \in Nat /\ 2 = 1 + 1
    BY DEF FieldNames
  <2> QED BY <2>1, <2>2, TextAt
<1>2. make_command(line, id).arguments["user"] = Value[line[3]]
  <2>1. FieldAt(line, 2, "user")
    BY UpdateFieldsAt
  <2>2. 2 \in Nat /\ 3 = 1 + 2 /\ "user" \in FieldNames
    BY DEF FieldNames
  <2> QED BY <2>1, <2>2, NumberAt
<1>3. make_command(line, id).arguments["client_order"] = Value[line[4]]
  <2>1. FieldAt(line, 3, "client_order")
    BY UpdateFieldsAt
  <2>2. 3 \in Nat /\ 4 = 1 + 3 /\ "client_order" \in FieldNames
    BY DEF FieldNames
  <2> QED BY <2>1, <2>2, NumberAt
<1>4. make_command(line, id).arguments["limit_price"] = Value[line[5]]
  <2>1. FieldAt(line, 4, "limit_price")
    BY UpdateFieldsAt
  <2>2. 4 \in Nat /\ 5 = 1 + 4 /\ "limit_price" \in FieldNames
    BY DEF FieldNames
  <2> QED BY <2>1, <2>2, NumberAt
<1>5. make_command(line, id).arguments["size"] = Value[line[6]]
  <2>1. FieldAt(line, 5, "size")
    BY UpdateFieldsAt
  <2>2. 5 \in Nat /\ 6 = 1 + 5 /\ "size" \in FieldNames
    BY DEF FieldNames
  <2> QED BY <2>1, <2>2, NumberAt
<1> QED BY <1>1, <1>2, <1>3, <1>4, <1>5

\* The arguments of a cancellation are its tokens.
LEMMA CancelArguments ==
    ASSUME NEW line, fields(line) = CancelFields, NEW id
    PROVE  /\ make_command(line, id).arguments["user"] = Value[line[2]]
           /\ make_command(line, id).arguments["client_order"] = Value[line[3]]
<1>1. make_command(line, id).arguments["user"] = Value[line[2]]
  <2>1. FieldAt(line, 1, "user")
    BY CancelFieldsAt
  <2>2. 1 \in Nat /\ 2 = 1 + 1 /\ "user" \in FieldNames
    BY DEF FieldNames
  <2> QED BY <2>1, <2>2, NumberAt
<1>2. make_command(line, id).arguments["client_order"] = Value[line[3]]
  <2>1. FieldAt(line, 2, "client_order")
    BY CancelFieldsAt
  <2>2. 2 \in Nat /\ 3 = 1 + 2 /\ "client_order" \in FieldNames
    BY DEF FieldNames
  <2> QED BY <2>1, <2>2, NumberAt
<1> QED BY <1>1, <1>2

\* The arguments of a snapshot are its tokens.
LEMMA SnapshotArguments ==
    ASSUME NEW line, fields(line) = SnapshotFields, NEW id
    PROVE  /\ TokenOf(line, "instrument") = line[2]
           /\ make_command(line, id).arguments["depth"] = Value[line[3]]
<1>1. TokenOf(line, "instrument") = line[2]
  <2>1. FieldAt(line, 1, "instrument")
    BY SnapshotFieldsAt
  <2>2. 1 \in Nat /\ 2 = 1 + 1
    BY DEF FieldNames
  <2> QED BY <2>1, <2>2, TokenAt
<1>2. make_command(line, id).arguments["depth"] = Value[line[3]]
  <2>1. FieldAt(line, 2, "depth")
    BY SnapshotFieldsAt
  <2>2. 2 \in Nat /\ 3 = 1 + 2 /\ "depth" \in FieldNames
    BY DEF FieldNames
  <2> QED BY <2>1, <2>2, NumberAt
<1> QED BY <1>1, <1>2

\* make_command gives a sentence the command README.md says it means, if the
\* symbol id of its name is right.
LEMMA MeaningOfLine ==
    ASSUME NEW lines, NEW n, Tokens(lines[n]), Sentence(lines[n]), NEW id,
           HasInstrument(lines[n]) =>
              id = FirstSeen(lines, TokenOf(lines[n], "instrument"))
    PROVE  Means(make_command(lines[n], id), lines, n)
<1> DEFINE line == lines[n]
           command == make_command(line, id)
<1>0. command.kind = line[1] /\ command.instrument = id
  BY DEF make_command
<1>1. Tokens(line)
  OBVIOUS
<1>h. HasInstrument(line) => id = FirstSeen(lines, TokenOf(line, "instrument"))
  OBVIOUS
<1>f. /\ LimitForm \in Grammar /\ MarketForm \in Grammar
      /\ UpdateForm \in Grammar /\ CancelForm \in Grammar
      /\ SnapshotForm \in Grammar
  BY GrammarForms
<1>l. line = lines[n]
  OBVIOUS
<1>s. Sentence(line)
  OBVIOUS
<1>q. Means(command, lines, n) => Means(make_command(lines[n], id), lines, n)
  OBVIOUS
<1> HIDE DEF line
<1>2. CASE IsLimit(line)
  <2>0. fields(line) = LimitFields
    BY <1>1, <1>2, FieldsOfForm
  <2>1. /\ command.arguments["pricing"] = line[2]
        /\ command.arguments["user"] = Value[line[3]]
        /\ command.arguments["client_order"] = Value[line[4]]
        /\ TokenOf(line, "instrument") = line[5]
        /\ command.arguments["side"] = line[6]
        /\ command.arguments["limit_price"] = Value[line[7]]
        /\ command.arguments["size"] = Value[line[8]]
    BY <2>0, LimitArguments
  <2>2. line[1] = "submit"
    BY <1>2 DEF IsLimit
  <2>3. Derives(LimitForm, line)
    BY <1>1, <1>2, DerivesForm
  <2>4. command.instrument = FirstSeen(lines, line[5])
    BY <1>0, <1>h, <2>1, <2>2 DEF HasInstrument
  <2> HIDE DEF command
  <2>5. DOMAIN LimitForm = 1 .. 8 /\ command.kind = LimitForm[1]
    BY <1>0, <2>2 DEF LimitForm
  <2>6. \A k \in 1 .. 8 :
           \/ k = 1 /\ LimitForm[k] = "submit"
           \/ k = 2 /\ LimitForm[k] = "limit"
           \/ k = 3 /\ LimitForm[k] = "<user>"
           \/ k = 4 /\ LimitForm[k] = "<client_order>"
           \/ k = 5 /\ LimitForm[k] = "<instrument>"
           \/ k = 6 /\ LimitForm[k] = "<buy|sell>"
           \/ k = 7 /\ LimitForm[k] = "<price>"
           \/ k = 8 /\ LimitForm[k] = "<size>"
    BY DEF LimitForm
  <2>7. Means(command, lines, n)
    BY <1>f, <1>l, <2>1, <2>3, <2>4, <2>5, <2>6, MeansForm
  <2> QED BY <1>q, <2>7 DEF command
<1>3. CASE IsMarket(line)
  <2>0. fields(line) = MarketFields
    BY <1>1, <1>3, FieldsOfForm
  <2>1. /\ command.arguments["pricing"] = line[2]
        /\ command.arguments["user"] = Value[line[3]]
        /\ command.arguments["client_order"] = Value[line[4]]
        /\ TokenOf(line, "instrument") = line[5]
        /\ command.arguments["side"] = line[6]
        /\ command.arguments["size"] = Value[line[7]]
    BY <2>0, MarketArguments
  <2>2. line[1] = "submit"
    BY <1>3 DEF IsMarket
  <2>3. Derives(MarketForm, line)
    BY <1>1, <1>3, DerivesForm
  <2>4. command.instrument = FirstSeen(lines, line[5])
    BY <1>0, <1>h, <2>1, <2>2 DEF HasInstrument
  <2> HIDE DEF command
  <2>5. DOMAIN MarketForm = 1 .. 7 /\ command.kind = MarketForm[1]
    BY <1>0, <2>2 DEF MarketForm
  <2>6. \A k \in 1 .. 7 :
           \/ k = 1 /\ MarketForm[k] = "submit"
           \/ k = 2 /\ MarketForm[k] = "market"
           \/ k = 3 /\ MarketForm[k] = "<user>"
           \/ k = 4 /\ MarketForm[k] = "<client_order>"
           \/ k = 5 /\ MarketForm[k] = "<instrument>"
           \/ k = 6 /\ MarketForm[k] = "<buy|sell>"
           \/ k = 7 /\ MarketForm[k] = "<size>"
    BY DEF MarketForm
  <2>7. Means(command, lines, n)
    BY <1>f, <1>l, <2>1, <2>3, <2>4, <2>5, <2>6, MeansForm
  <2> QED BY <1>q, <2>7 DEF command
<1>4. CASE IsUpdate(line)
  <2>0. fields(line) = UpdateFields
    BY <1>1, <1>4, FieldsOfForm
  <2>1. /\ command.arguments["pricing"] = line[2]
        /\ command.arguments["user"] = Value[line[3]]
        /\ command.arguments["client_order"] = Value[line[4]]
        /\ command.arguments["limit_price"] = Value[line[5]]
        /\ command.arguments["size"] = Value[line[6]]
    BY <2>0, UpdateArguments
  <2>2. line[1] = "update"
    BY <1>4 DEF IsUpdate
  <2>3. Derives(UpdateForm, line)
    BY <1>1, <1>4, DerivesForm
  <2> HIDE DEF command
  <2>5. DOMAIN UpdateForm = 1 .. 6 /\ command.kind = UpdateForm[1]
    BY <1>0, <2>2 DEF UpdateForm
  <2>6. \A k \in 1 .. 6 :
           \/ k = 1 /\ UpdateForm[k] = "update"
           \/ k = 2 /\ UpdateForm[k] = "limit"
           \/ k = 3 /\ UpdateForm[k] = "<user>"
           \/ k = 4 /\ UpdateForm[k] = "<client_order>"
           \/ k = 5 /\ UpdateForm[k] = "<price>"
           \/ k = 6 /\ UpdateForm[k] = "<size>"
    BY DEF UpdateForm
  <2>7. Means(command, lines, n)
    BY <1>f, <1>l, <2>1, <2>3, <2>5, <2>6, MeansForm
  <2> QED BY <1>q, <2>7 DEF command
<1>5. CASE IsCancel(line)
  <2>0. fields(line) = CancelFields
    BY <1>1, <1>5, FieldsOfForm
  <2>1. /\ command.arguments["user"] = Value[line[2]]
        /\ command.arguments["client_order"] = Value[line[3]]
    BY <2>0, CancelArguments
  <2>2. line[1] = "cancel"
    BY <1>5 DEF IsCancel
  <2>3. Derives(CancelForm, line)
    BY <1>1, <1>5, DerivesForm
  <2> HIDE DEF command
  <2>5. DOMAIN CancelForm = 1 .. 3 /\ command.kind = CancelForm[1]
    BY <1>0, <2>2 DEF CancelForm
  <2>6. \A k \in 1 .. 3 :
           \/ k = 1 /\ CancelForm[k] = "cancel"
           \/ k = 2 /\ CancelForm[k] = "<user>"
           \/ k = 3 /\ CancelForm[k] = "<client_order>"
    BY DEF CancelForm
  <2>7. Means(command, lines, n)
    BY <1>f, <1>l, <2>1, <2>3, <2>5, <2>6, MeansForm
  <2> QED BY <1>q, <2>7 DEF command
<1>6. CASE IsSnapshot(line)
  <2>0. fields(line) = SnapshotFields
    BY <1>1, <1>6, FieldsOfForm
  <2>1. /\ TokenOf(line, "instrument") = line[2]
        /\ command.arguments["depth"] = Value[line[3]]
    BY <2>0, SnapshotArguments
  <2>2. line[1] = "snapshot"
    BY <1>6 DEF IsSnapshot
  <2>3. Derives(SnapshotForm, line)
    BY <1>1, <1>6, DerivesForm
  <2>4. command.instrument = FirstSeen(lines, line[2])
    BY <1>0, <1>h, <2>1, <2>2 DEF HasInstrument
  <2> HIDE DEF command
  <2>5. DOMAIN SnapshotForm = 1 .. 3 /\ command.kind = SnapshotForm[1]
    BY <1>0, <2>2 DEF SnapshotForm
  <2>6. \A k \in 1 .. 3 :
           \/ k = 1 /\ SnapshotForm[k] = "snapshot"
           \/ k = 2 /\ SnapshotForm[k] = "<instrument>"
           \/ k = 3 /\ SnapshotForm[k] = "<depth>"
    BY DEF SnapshotForm
  <2>7. Means(command, lines, n)
    BY <1>f, <1>l, <2>1, <2>3, <2>4, <2>5, <2>6, MeansForm
  <2> QED BY <1>q, <2>7 DEF command
<1> QED BY <1>1, <1>s, <1>2, <1>3, <1>4, <1>5, <1>6, SentenceForm

-----------------------------------------------------------------------------
(* Loading a file, line by line.                                           *)

\* A list of anything.
IsList(s) == s \in Seq(ToSet(s))

\* The length and the places of a list.
LEMMA ListFacts ==
    ASSUME NEW s, IsList(s)
    PROVE  /\ Len(s) \in Nat /\ DOMAIN s = 1 .. Len(s)
           /\ s = <<>> <=> Len(s) = 0
BY DEF IsList

\* Every sequence is a list.
LEMMA ListOfAnything ==
    ASSUME NEW S, NEW s \in Seq(S)
    PROVE  IsList(s)
<1>1. \A i \in 1 .. Len(s) : s[i] \in ToSet(s)
  BY DEF ToSet
<1> QED BY <1>1 DEF IsList

\* One more element at the end of a list.
LEMMA AppendList ==
    ASSUME NEW s, IsList(s), NEW e
    PROVE  /\ IsList(Append(s, e)) /\ Len(Append(s, e)) = Len(s) + 1
           /\ Append(s, e)[Len(s) + 1] = e
           /\ \A i \in 1 .. Len(s) : Append(s, e)[i] = s[i]
<1>1. s \in Seq(ToSet(s) \cup {e})
  BY DEF IsList
<1>2. Append(s, e) \in Seq(ToSet(s) \cup {e})
  BY <1>1
<1>3. IsList(Append(s, e))
  BY <1>2, ListOfAnything
<1> QED BY <1>1, <1>3

\* A list without its first element.
LEMMA TailList ==
    ASSUME NEW s, IsList(s), s # <<>>
    PROVE  /\ IsList(Tail(s)) /\ Len(Tail(s)) = Len(s) - 1
           /\ \A i \in 1 .. Len(s) - 1 : Tail(s)[i] = s[i + 1]
           /\ Head(s) = s[1] /\ Len(s) >= 1
<1>1. Tail(s) \in Seq(ToSet(s))
  BY DEF IsList
<1>2. IsList(Tail(s))
  BY <1>1, ListOfAnything
<1>3. Len(s) \in Nat /\ Len(s) # 0
  BY ListFacts
<1>4. /\ Len(Tail(s)) = Len(s) - 1 /\ Head(s) = s[1]
      /\ \A i \in 1 .. Len(s) - 1 : Tail(s)[i] = s[i + 1]
  BY <1>3 DEF IsList
<1> QED BY <1>2, <1>3, <1>4

\* The steps loaded from the first n lines.
StepsOf(lines, n, list) ==
    /\ {list[k].line : k \in DOMAIN list} = {i \in 1 .. n : lines[i] # <<>>}
    /\ \A k \in DOMAIN list :
          /\ Means(list[k].command, lines, list[k].line)
          /\ \A j \in 1 .. k - 1 : list[j].line < list[k].line

\* The symbol table after the first n lines: the names so far, each with its
\* number in the order of their first use.
Interned(lines, n, ids, next) ==
    /\ DOMAIN ids = Named(lines, n)
    /\ \A name \in DOMAIN ids : ids[name] = FirstSeen(lines, name)
    /\ Cardinality(Named(lines, n)) < SymbolIdValues
    /\ next = (Cardinality(Named(lines, n)) + 1) % SymbolIdValues

\* Before the first line nothing is loaded and nothing is interned.
LEMMA LoadNothing ==
    ASSUME NEW lines
    PROVE  StepsOf(lines, 0, <<>>) /\ Interned(lines, 0, <<>>, 1)
<1>1. StepsOf(lines, 0, <<>>)
  BY DEF StepsOf
<1>2. Named(lines, 0) = {} /\ DOMAIN <<>> = {}
  BY NamedGrows
<1>3. Cardinality(Named(lines, 0)) = 0
  BY <1>2, FS_EmptySet
<1>4. 1 % SymbolIdValues = 1 /\ 0 < SymbolIdValues
  BY ScenarioAssumption
<1> QED BY <1>1, <1>2, <1>3, <1>4 DEF Interned

\* LoadLine adds the step of one more line.
LEMMA LoadStep ==
    ASSUME NEW lines, NEW n \in Nat, NEW list, IsList(list),
           StepsOf(lines, n, list), NEW command,
           lines[n + 1] # <<>>, Means(command, lines, n + 1)
    PROVE  StepsOf(lines, n + 1,
                   Append(list, [line |-> n + 1, command |-> command]))
<1> DEFINE e == [line |-> n + 1, command |-> command]
           list2 == Append(list, e)
<1>1. /\ Len(list) \in Nat /\ DOMAIN list = 1 .. Len(list)
  BY ListFacts
<1>2. /\ IsList(list2) /\ Len(list2) = Len(list) + 1
      /\ list2[Len(list) + 1] = e
      /\ \A i \in 1 .. Len(list) : list2[i] = list[i]
  BY AppendList
<1>3. DOMAIN list2 = 1 .. Len(list) + 1
  BY <1>2, ListFacts
<1>4. e.line = n + 1 /\ e.command = command
  OBVIOUS
<1> HIDE DEF e, list2
<1>5. \A k \in DOMAIN list : list[k].line \in 1 .. n
  BY DEF StepsOf
<1>6. {list2[k].line : k \in DOMAIN list2} =
         {list[k].line : k \in DOMAIN list} \cup {n + 1}
  <2>1. DOMAIN list2 = DOMAIN list \cup {Len(list) + 1}
    BY <1>1, <1>3
  <2> QED BY <1>1, <1>2, <1>4, <2>1
<1>7. {i \in 1 .. n + 1 : lines[i] # <<>>} =
         {i \in 1 .. n : lines[i] # <<>>} \cup {n + 1}
  <2>1. 1 .. n + 1 = (1 .. n) \cup {n + 1}
    OBVIOUS
  <2> QED BY <2>1
<1>8. {list2[k].line : k \in DOMAIN list2} =
         {i \in 1 .. n + 1 : lines[i] # <<>>}
  BY <1>6, <1>7 DEF StepsOf
<1>9. ASSUME NEW k \in DOMAIN list2
      PROVE  /\ Means(list2[k].command, lines, list2[k].line)
             /\ \A j \in 1 .. k - 1 : list2[j].line < list2[k].line
  <2>1. CASE k \in DOMAIN list
    <3>1. list2[k] = list[k] /\ \A j \in 1 .. k - 1 : list2[j] = list[j]
      BY <1>1, <1>2, <2>1
    <3> QED BY <2>1, <3>1 DEF StepsOf
  <2>2. CASE k = Len(list) + 1
    <3>1. list2[k] = e
      BY <1>2, <2>2
    <3>2. \A j \in 1 .. k - 1 : j \in DOMAIN list /\ list2[j] = list[j]
      BY <1>1, <1>2, <2>2
    <3>3. \A j \in 1 .. k - 1 : list2[j].line < n + 1
      BY <1>5, <3>2
    <3> QED BY <1>4, <3>1, <3>3
  <2> QED BY <1>1, <1>3, <2>1, <2>2
<1>10. StepsOf(lines, n + 1, list2)
  BY <1>8, <1>9 DEF StepsOf
<1> QED BY <1>10 DEF list2, e

\* SkipLine adds no step, and none is due.
LEMMA LoadBlank ==
    ASSUME NEW lines, NEW n \in Nat, NEW list, StepsOf(lines, n, list),
           lines[n + 1] = <<>>
    PROVE  StepsOf(lines, n + 1, list)
<1>1. 1 .. n + 1 = (1 .. n) \cup {n + 1}
  OBVIOUS
<1>2. {i \in 1 .. n + 1 : lines[i] # <<>>} = {i \in 1 .. n : lines[i] # <<>>}
  BY <1>1
<1> QED BY <1>2 DEF StepsOf

\* A line without a name leaves the symbol table as it is.
LEMMA InternNothing ==
    ASSUME NEW lines, NEW n \in Nat, NEW ids, NEW next,
           Interned(lines, n, ids, next), NamesIn(lines[n + 1]) = {}
    PROVE  /\ Interned(lines, n + 1, ids, next)
           /\ Cardinality(Named(lines, n + 1)) < SymbolIdValues
<1>1. Named(lines, n + 1) = Named(lines, n)
  BY NamedGrows
<1> QED BY <1>1 DEF Interned

\* The counter reads 0 exactly when all ids are used up.
LEMMA CounterWraps ==
    ASSUME NEW c \in Nat, c < SymbolIdValues
    PROVE  /\ (c + 1) % SymbolIdValues = 0 <=> c + 1 >= SymbolIdValues
           /\ c + 1 < SymbolIdValues => (c + 1) % SymbolIdValues = c + 1
<1>1. SymbolIdValues \in Nat /\ SymbolIdValues > 1
  BY ScenarioAssumption
<1>2. CASE c + 1 < SymbolIdValues
  <2>1. (c + 1) % SymbolIdValues = c + 1
    BY <1>1, <1>2
  <2> QED BY <1>1, <1>2, <2>1
<1>3. CASE c + 1 = SymbolIdValues
  <2>1. SymbolIdValues % SymbolIdValues = 0
    BY <1>1
  <2> QED BY <1>1, <1>3, <2>1
<1> QED BY <1>1, <1>2, <1>3

\* A name in a line is looked up, or gets the next id, or is one too many.
LEMMA InternName ==
    ASSUME NEW lines, IsText(lines), NEW n \in Nat, n < Len(lines),
           NEW ids, NEW next, Interned(lines, n, ids, next),
           NEW name, NamesIn(lines[n + 1]) = {name}
    PROVE  /\ intern_throws(ids, next, name) <=>
                 Cardinality(Named(lines, n + 1)) >= SymbolIdValues
           /\ ~ intern_throws(ids, next, name) =>
                 /\ intern(ids, next, name).id = FirstSeen(lines, name)
                 /\ Interned(lines, n + 1,
                             intern(ids, next, name).ids,
                             intern(ids, next, name).next_id)
<1> DEFINE c == Cardinality(Named(lines, n))
           d == Cardinality(Named(lines, n + 1))
           id == intern(ids, next, name).id
           ids2 == intern(ids, next, name).ids
           next2 == intern(ids, next, name).next_id
<1>0. Len(lines) \in Nat /\ SymbolIdValues \in Nat
  BY ScenarioAssumption DEF IsText
<1>1. Named(lines, n + 1) = Named(lines, n) \cup {name}
  BY NamedGrows
<1>2. IsFiniteSet(Named(lines, n)) /\ c \in Nat
  BY <1>0, NamedFinite
<1>3. /\ c < SymbolIdValues /\ next = (c + 1) % SymbolIdValues
      /\ DOMAIN ids = Named(lines, n)
      /\ \A m \in DOMAIN ids : ids[m] = FirstSeen(lines, m)
  BY DEF Interned
<1>4. d = IF name \in Named(lines, n) THEN c ELSE c + 1
  BY <1>1, <1>2, FS_AddElement
<1>5. /\ DOMAIN ids2 = DOMAIN ids \cup {name}
      /\ ids2[name] = id
      /\ \A m \in DOMAIN ids : m # name => ids2[m] = ids[m]
  <2>1. name \in DOMAIN ids => DOMAIN ids = DOMAIN ids \cup {name}
    OBVIOUS
  <2> QED BY <2>1 DEF intern, emplace
<1> HIDE DEF c, d, ids2
<1>6. CASE name \in DOMAIN ids
  <2>1. ~ intern_throws(ids, next, name) /\ d = c
    BY <1>3, <1>4, <1>6 DEF intern_throws
  <2>2. id = ids[name] /\ next2 = next
    BY <1>6 DEF intern
  <2> HIDE DEF id, next2
  <2>3. id = FirstSeen(lines, name)
    BY <1>3, <1>6, <2>2
  <2>4. Interned(lines, n + 1, ids2, next2)
    <3>1. DOMAIN ids2 = Named(lines, n + 1)
      BY <1>1, <1>3, <1>5
    <3>2. \A m \in DOMAIN ids2 : ids2[m] = FirstSeen(lines, m)
      BY <1>3, <1>5, <2>3
    <3> QED BY <1>3, <2>1, <2>2, <3>1, <3>2 DEF Interned, d
  <2>5. ~ (d >= SymbolIdValues)
    BY <1>0, <1>2, <1>3, <2>1
  <2> QED BY <2>1, <2>3, <2>4, <2>5 DEF id, next2, ids2, d
<1>7. CASE name \notin DOMAIN ids
  <2>1. d = c + 1 /\ (intern_throws(ids, next, name) <=> next = 0)
    BY <1>3, <1>4, <1>7 DEF intern_throws
  <2>2. next = 0 <=> c + 1 >= SymbolIdValues
    BY <1>2, <1>3, CounterWraps
  <2>3. ASSUME next # 0
        PROVE  /\ id = FirstSeen(lines, name)
               /\ Interned(lines, n + 1, ids2, next2)
    <3>1. c + 1 < SymbolIdValues
      BY <1>0, <1>2, <2>2, <2>3
    <3>2. next = c + 1
      BY <1>2, <1>3, <3>1, CounterWraps
    <3>3. id = next /\ next2 = (next + 1) % SymbolIdValues
      BY <1>7 DEF intern
    <3> HIDE DEF id, next2
    <3>4. FirstSeen(lines, name) = d
      <4>1. n + 1 \in 1 .. Len(lines) /\ (n + 1) - 1 = n
        BY <1>0
      <4>2. /\ name \in Named(lines, n + 1)
            /\ name \notin Named(lines, (n + 1) - 1)
        BY <1>1, <1>3, <1>7, <4>1
      <4> QED BY <4>1, <4>2, FirstSeenIs DEF d
    <3>5. id = FirstSeen(lines, name)
      BY <2>1, <3>2, <3>3, <3>4
    <3>6. DOMAIN ids2 = Named(lines, n + 1)
      BY <1>1, <1>3, <1>5
    <3>7. \A m \in DOMAIN ids2 : ids2[m] = FirstSeen(lines, m)
      BY <1>3, <1>5, <3>5
    <3>8. d < SymbolIdValues /\ next2 = (d + 1) % SymbolIdValues
      BY <2>1, <3>1, <3>2, <3>3
    <3> QED BY <3>5, <3>6, <3>7, <3>8 DEF Interned, d
  <2> QED BY <2>1, <2>2, <2>3 DEF id, next2, ids2, d
<1> QED BY <1>6, <1>7

-----------------------------------------------------------------------------
(* The inductive invariant.                                                *)

\* Not both --file and --directory are given.
OneSource == options.file = "" \/ options.directory = ""

\* The types, and what the stages imply about the lists.
TypeInv ==
    /\ Directory \notin DOMAIN contents
    /\ \A path \in DOMAIN contents : IsText(contents[path])
    /\ options = [format |-> options.format, file |-> options.file,
                  directory |-> options.directory]
    /\ OneSource
    /\ stage \in {"arguments", "files", "load", "execute", "exited"}
    /\ exit_status \in {-1, 0, 1} /\ (exit_status = -1 <=> stage # "exited")
    /\ IsList(files) /\ IsList(steps) /\ IsList(engine) /\ IsList(output)
    /\ stage = "arguments" => files = <<>> /\ output = <<>>
    /\ stage \in {"load", "execute"} => files # <<>>
    /\ exit_status = 0 => files = <<>>

\* The files still to be run come after all those that were, by path.
QueueInv ==
    /\ \A i \in DOMAIN files : files[i] \in Asked
    /\ \A i, j \in DOMAIN files :
          i < j => files[i] # files[j] /\ Rank[files[i]] < Rank[files[j]]
    /\ \A n \in DOMAIN output :
          /\ output[n].file \in Asked
          /\ \A i \in DOMAIN files :
                \/ stage = "execute" /\ i = 1 /\ output[n].file = files[i]
                \/ /\ output[n].file # files[i]
                   /\ Rank[output[n].file] < Rank[files[i]]

\* What an engine has run that is to answer output[n] for a file.
HasRun(commands, n, file) ==
    LET first == n - Len(commands)
    IN  /\ first >= 1
        /\ \A k \in DOMAIN commands :
              LET earlier == output[first + k - 1]
              IN  earlier.file = file /\ commands[k] = earlier.step.command
        /\ first > 1 => output[first - 1].file # file

\* What WholeFilesOnly says of the engines and the order of the output.
OutputInv ==
    /\ \A n \in DOMAIN output : OwnEngine(n) /\ IsList(output[n].before)
    /\ \A m, n \in DOMAIN output :
          m < n =>
             IF output[m].file = output[n].file
             THEN SourceGiven => output[m].step.line < output[n].step.line
             ELSE Rank[output[m].file] < Rank[output[n].file]

\* The symbol table and the steps are those of the lines read so far, none of
\* which is malformed.
LoadInv ==
    stage = "load" =>
       /\ Head(files) \in DOMAIN contents \cup {Directory}
       /\ line_number \in 0 .. Len(Lines)
       /\ \A i \in 1 .. line_number : Lines[i] # <<>> => Sentence(Lines[i])
       /\ StepsOf(Lines, line_number, steps)
       /\ Interned(Lines, line_number, symbols, next_id)

\* What was written of the file at work and what is left make up the file.
ExecuteInv ==
    stage = "execute" =>
       /\ HasRun(engine, Len(output) + 1, Head(files))
       /\ SourceGiven =>
             /\ Head(files) \in DOMAIN contents \cup {Directory}
             /\ \A i \in Commands(Lines) : Sentence(Lines[i])
             /\ LinesWritten(Head(files))
                   \cup {steps[k].line : k \in DOMAIN steps} = Commands(Lines)
             /\ \A n \in Entries(Head(files)) : \A k \in DOMAIN steps :
                   output[n].step.line < steps[k].line
             /\ \A k \in DOMAIN steps : \A j \in 1 .. k - 1 :
                   steps[j].line < steps[k].line

\* A file that is well-formed and was run to its end.
Complete(file) ==
    /\ file \in DOMAIN contents
    /\ \A i \in Commands(contents[file]) : Sentence(contents[file][i])
    /\ LinesWritten(file) = Commands(contents[file])

\* main is past its command line and has not failed.
Running == stage \in {"files", "load", "execute"} \/ exit_status = 0

\* What was run is complete, and what is not yet run is queued; the demo writes
\* something.
DoneInv ==
    /\ SourceGiven =>
          \A n \in DOMAIN output :
             \/ stage = "execute" /\ output[n].file = Head(files)
             \/ Complete(output[n].file)
    /\ SourceGiven /\ Running =>
          \A file \in Asked \ {Directory} :
             file \in ToSet(files) \/ Complete(file)
    /\ ~ SourceGiven =>
          /\ stage # "load"
          /\ stage = "execute" =>
                Len(files) = 1 /\ (steps # <<>> \/ output # <<>>)
          /\ Running /\ stage # "execute" => files = <<>> /\ output # <<>>

\* The inductive invariant.
ReplayInv ==
    /\ TypeInv /\ QueueInv /\ OutputInv /\ LoadInv /\ ExecuteInv /\ DoneInv

-----------------------------------------------------------------------------
(* What does not change while parts of the state do not.                   *)

\* What main is asked for depends on the command line and the files only.
LEMMA SameOptions ==
    ASSUME options' = options, contents' = contents
    PROVE  /\ (SourceGiven' <=> SourceGiven) /\ Asked' = Asked
           /\ (OneSource' <=> OneSource)
<1>1. (SourceGiven' <=> SourceGiven) /\ (OneSource' <=> OneSource)
  BY DEF SourceGiven, OneSource
<1>2. Asked' = Asked
  BY <1>1 DEF Asked
<1> QED BY <1>1, <1>2

\* What was written is judged by the output and the files only.
LEMMA SameOutput ==
    ASSUME output' = output, contents' = contents
    PROVE  /\ \A n : OwnEngine(n)' <=> OwnEngine(n)
           /\ \A file : Complete(file)' <=> Complete(file)
           /\ \A file : LinesWritten(file)' = LinesWritten(file)
           /\ \A file : Entries(file)' = Entries(file)
           /\ \A commands, n, file :
                 HasRun(commands, n, file)' <=> HasRun(commands, n, file)
BY DEF OwnEngine, Complete, LinesWritten, Entries, HasRun

\* A step that writes nothing keeps what holds of the output.
LEMMA SameOutputInv ==
    ASSUME OutputInv, options' = options, contents' = contents,
           output' = output
    PROVE  OutputInv'
BY SameOptions, SameOutput DEF OutputInv

\* The lines of the file at work depend on the file only.
LEMMA SameLines ==
    ASSUME files' = files, contents' = contents
    PROVE  Lines' = Lines
BY DEF Lines

\* Before any file is run the invariant says nothing but types.
LEMMA NothingYet ==
    ASSUME files' = <<>>, output' = <<>>, stage' \in {"arguments", "exited"},
           exit_status' # 0
    PROVE  QueueInv' /\ OutputInv' /\ LoadInv' /\ ExecuteInv' /\ DoneInv'
<1>1. QueueInv' /\ OutputInv'
  BY DEF QueueInv, OutputInv
<1>2. LoadInv' /\ ExecuteInv'
  BY DEF LoadInv, ExecuteInv
<1>3. DoneInv'
  BY DEF DoneInv, Running
<1> QED BY <1>1, <1>2, <1>3

\* main starts with nothing read, queued or written.
LEMMA InitReplay == Init => ReplayInv
<1> SUFFICES ASSUME Init PROVE ReplayInv
  OBVIOUS
<1>1. /\ Directory \notin DOMAIN contents
      /\ \A path \in DOMAIN contents : IsText(contents[path])
  BY ReplayAssumption DEF Init, IsText
<1>2. IsList(<<>>)
  BY DEF IsList
<1>b. /\ options.file = "" /\ options.directory = ""
      /\ options = [format |-> options.format, file |-> options.file,
                    directory |-> options.directory]
  BY DEF Init
<1>c. OneSource
  BY <1>b DEF OneSource
<1>d. options = [format |-> options.format, file |-> options.file,
                 directory |-> options.directory]
  BY <1>b
<1>e. /\ stage = "arguments" /\ exit_status = -1 /\ files = <<>>
      /\ steps = <<>> /\ engine = <<>> /\ output = <<>>
  BY DEF Init
<1>3. TypeInv
  BY <1>1, <1>2, <1>c, <1>d, <1>e DEF TypeInv
<1>0. /\ files = <<>> /\ output = <<>> /\ stage = "arguments"
      /\ exit_status = -1
  BY DEF Init
<1>4. QueueInv /\ OutputInv
  BY <1>0 DEF QueueInv, OutputInv
<1>5. LoadInv /\ ExecuteInv
  BY <1>0 DEF LoadInv, ExecuteInv
<1>6. DoneInv
  BY <1>0 DEF DoneInv, Running
<1> QED BY <1>3, <1>4, <1>5, <1>6 DEF ReplayInv

-----------------------------------------------------------------------------
(* The command line.                                                       *)

\* What keeps the types.
LEMMA KeepTypes ==
    ASSUME TypeInv, contents' = contents,
           options' = [format |-> options'.format, file |-> options'.file,
                       directory |-> options'.directory],
           OneSource',
           stage' \in {"arguments", "files", "load", "execute", "exited"},
           exit_status' \in {-1, 0, 1},
           exit_status' = -1 <=> stage' # "exited",
           IsList(files'), IsList(steps'), IsList(engine'), IsList(output'),
           stage' = "arguments" => files' = <<>> /\ output' = <<>>,
           stage' \in {"load", "execute"} => files' # <<>>,
           exit_status' = 0 => files' = <<>>
    PROVE  TypeInv'
BY SameOptions DEF TypeInv

\* A step that leaves the options alone.
LEMMA KeepTypesAfter ==
    ASSUME TypeInv, contents' = contents, options' = options,
           stage' \in {"files", "load", "execute", "exited"},
           exit_status' \in {-1, 0, 1},
           exit_status' = -1 <=> stage' # "exited",
           IsList(files'), IsList(steps'), IsList(engine'), IsList(output'),
           stage' \in {"load", "execute"} => files' # <<>>,
           exit_status' = 0 => files' = <<>>
    PROVE  TypeInv'
BY SameOptions DEF TypeInv

\* TakeFormat: --format leaves the sources alone.
LEMMA StepTakeFormat ==
    ASSUME TypeInv, TakeFormat
    PROVE  TypeInv' /\ files' = <<>> /\ output' = <<>>
           /\ stage' = "arguments" /\ exit_status' # 0
<1>a. /\ options' = [format |-> options'.format, file |-> options'.file,
                     directory |-> options'.directory]
      /\ options'.file = options.file
      /\ options'.directory = options.directory
  BY DEF TypeInv, TakeFormat
<1>1. OneSource'
  BY <1>a DEF TypeInv, OneSource
<1>2. /\ contents' = contents /\ files' = files /\ steps' = steps
      /\ engine' = engine /\ output' = output /\ stage = "arguments"
      /\ stage' = stage /\ exit_status' = exit_status
  BY DEF TakeFormat, inputVars, lineVars
<1>3. /\ files = <<>> /\ output = <<>> /\ exit_status = -1
      /\ IsList(files) /\ IsList(steps) /\ IsList(engine) /\ IsList(output)
  BY <1>2 DEF TypeInv
<1>4. TypeInv'
  BY <1>a, <1>1, <1>2, <1>3, KeepTypes
<1> QED BY <1>2, <1>3, <1>4

\* TakeSource: a second --file or --directory is not taken.
LEMMA StepTakeSource ==
    ASSUME TypeInv, TakeSource
    PROVE  TypeInv' /\ files' = <<>> /\ output' = <<>>
           /\ stage' = "arguments" /\ exit_status' # 0
<1>0. options.file = "" /\ options.directory = ""
  BY DEF TakeSource, SourceFits, SourceGiven
<1>a. /\ options' = [format |-> options'.format, file |-> options'.file,
                     directory |-> options'.directory]
      /\ options'.file = options.file \/ options'.directory = options.directory
  BY DEF TypeInv, TakeSource
<1>1. OneSource'
  BY <1>0, <1>a DEF OneSource
<1>2. /\ contents' = contents /\ files' = files /\ steps' = steps
      /\ engine' = engine /\ output' = output /\ stage = "arguments"
      /\ stage' = stage /\ exit_status' = exit_status
  BY DEF TakeSource, inputVars, lineVars
<1>3. /\ files = <<>> /\ output = <<>> /\ exit_status = -1
      /\ IsList(files) /\ IsList(steps) /\ IsList(engine) /\ IsList(output)
  BY <1>2 DEF TypeInv
<1>4. TypeInv'
  BY <1>a, <1>1, <1>2, <1>3, KeepTypes
<1> QED BY <1>2, <1>3, <1>4

\* RefuseArgument: a bad command line runs nothing.
LEMMA StepRefuseArgument ==
    ASSUME TypeInv, RefuseArgument
    PROVE  TypeInv' /\ files' = <<>> /\ output' = <<>>
           /\ stage' = "exited" /\ exit_status' # 0
<1>1. /\ contents' = contents /\ options' = options /\ files' = files
      /\ steps' = steps /\ engine' = engine /\ output' = output
      /\ stage = "arguments" /\ stage' = "exited" /\ exit_status' = 1
  BY DEF RefuseArgument, Exit, inputVars, lineVars
<1>2. /\ files = <<>> /\ output = <<>>
      /\ IsList(files) /\ IsList(steps) /\ IsList(engine) /\ IsList(output)
  BY <1>1 DEF TypeInv
<1>3. TypeInv'
  BY <1>1, <1>2, KeepTypesAfter
<1> QED BY <1>1, <1>2, <1>3

-----------------------------------------------------------------------------
(* What is asked for.                                                      *)

\* A list of one element.
LEMMA OneElement ==
    ASSUME NEW e
    PROVE  /\ IsList(<<e>>) /\ <<e>> # <<>> /\ Len(<<e>>) = 1
           /\ DOMAIN <<e>> = 1 .. 1 /\ <<e>>[1] = e /\ Head(<<e>>) = e
           /\ ToSet(<<e>>) = {e}
<1>1. <<e>> \in Seq({e})
  OBVIOUS
<1>2. IsList(<<e>>)
  BY <1>1, ListOfAnything
<1>3. /\ <<e>> # <<>> /\ Len(<<e>>) = 1
      /\ DOMAIN <<e>> = 1 .. 1 /\ <<e>>[1] = e /\ Head(<<e>>) = e
  OBVIOUS
<1>4. ToSet(<<e>>) = {e}
  BY <1>3 DEF ToSet
<1> QED BY <1>2, <1>3, <1>4

\* The empty list.
LEMMA EmptyList == IsList(<<>>)
BY DEF IsList

\* RunDemo: the built-in scenario is executed at once, and is not empty.
LEMMA StepRunDemo ==
    ASSUME ReplayInv, RunDemo
    PROVE  ReplayInv'
<1>a. /\ ~ SourceGiven /\ contents' = contents /\ options' = options
      /\ output' = output /\ files' = <<"demo">> /\ engine' = <<>>
      /\ stage = "arguments" /\ stage' = "execute"
      /\ exit_status' = exit_status /\ steps' = default_scenario
  BY DEF RunDemo, inputVars
<1>b. output = <<>> /\ exit_status = -1 /\ IsList(output) /\ TypeInv
  BY <1>a DEF ReplayInv, TypeInv
<1>0. /\ ~ SourceGiven' /\ contents' = contents /\ options' = options
      /\ output' = <<>> /\ files' = <<"demo">> /\ engine' = <<>>
      /\ stage' = "execute" /\ exit_status' = -1
      /\ steps' = default_scenario
  BY <1>a, <1>b, SameOptions
<1>1. Asked' = {"demo"}
  BY <1>0 DEF Asked
<1>2. IsList(default_scenario) /\ default_scenario # <<>>
  <2> DEFINE kinds == <<"submit", "submit", "snapshot", "submit", "snapshot",
                        "update", "cancel", "snapshot">>
             step(n) == [line |-> 0,
                         command |-> [kind |-> kinds[n], step |-> n]]
  <2>1. default_scenario = [n \in 1 .. 8 |-> step(n)]
    BY DEF default_scenario
  <2> HIDE DEF step
  <2>2. default_scenario \in Seq({step(n) : n \in 1 .. 8})
    BY <2>1
  <2>3. Len(default_scenario) = 8
    BY <2>1
  <2> QED BY <2>2, <2>3, ListOfAnything
<1>3. IsList(<<>>) /\ IsList(<<"demo">>) /\ <<"demo">> # <<>>
  BY EmptyList, OneElement
<1>4. TypeInv'
  BY <1>0, <1>2, <1>3, <1>b, KeepTypesAfter
<1>5. QueueInv' /\ OutputInv'
  <2>1. DOMAIN files' = {1} /\ files'[1] = "demo"
    BY <1>0, OneElement
  <2> QED BY <1>0, <1>1, <2>1 DEF QueueInv, OutputInv
<1>6. LoadInv' /\ ExecuteInv'
  <2>1. HasRun(engine, Len(output) + 1, Head(files))'
    BY <1>0 DEF HasRun
  <2> QED BY <1>0, <2>1 DEF LoadInv, ExecuteInv
<1>7. DoneInv'
  <2>1. Len(files') = 1
    BY <1>0, OneElement
  <2> QED BY <1>0, <1>2, <2>1 DEF DoneInv, Running
<1> QED BY <1>4, <1>5, <1>6, <1>7 DEF ReplayInv

\* The files that are asked for are queued in their order, and nothing has been
\* written yet.
LEMMA QueueFiles ==
    ASSUME ReplayInv, stage = "arguments", stage' = "files",
           options' = options, contents' = contents, output' = output,
           SourceGiven, exit_status' # 0, ToSet(files') = Asked,
           \A i, j \in DOMAIN files' :
              i < j => /\ files'[i] # files'[j]
                       /\ Rank[files'[i]] < Rank[files'[j]]
    PROVE  QueueInv' /\ OutputInv' /\ LoadInv' /\ ExecuteInv' /\ DoneInv'
<1>0. output' = <<>> /\ SourceGiven' /\ Asked' = Asked
  BY SameOptions DEF ReplayInv, TypeInv
<1>1. \A i \in DOMAIN files' : files'[i] \in Asked
  BY DEF ToSet
<1>2. QueueInv' /\ OutputInv'
  BY <1>0, <1>1 DEF QueueInv, OutputInv
<1>3. LoadInv' /\ ExecuteInv'
  BY DEF LoadInv, ExecuteInv
<1>4. DoneInv'
  <2>1. ToSet(files)' = Asked
    BY DEF ToSet
  <2> QED BY <1>0, <2>1 DEF DoneInv
<1> QED BY <1>2, <1>3, <1>4

\* RunFile: one file is queued.
LEMMA StepRunFile ==
    ASSUME ReplayInv, RunFile
    PROVE  ReplayInv'
<1>0. /\ stage = "arguments" /\ stage' = "files" /\ options' = options
      /\ contents' = contents /\ output' = output /\ exit_status' = exit_status
      /\ files' = <<options.file>> /\ SourceGiven
  BY DEF RunFile, inputVars, SourceGiven
<1>1. Asked = {options.file}
  BY DEF Asked, RunFile, SourceGiven
<1>2. PICK e : e = options.file
  OBVIOUS
<1>3. /\ IsList(files') /\ ToSet(files') = Asked /\ DOMAIN files' = 1 .. 1
  BY <1>0, <1>1, <1>2, OneElement
<1>4. /\ exit_status = -1 /\ TypeInv /\ steps' = steps /\ engine' = engine
      /\ IsList(steps) /\ IsList(engine) /\ IsList(output)
  BY <1>0 DEF ReplayInv, TypeInv, RunFile
<1>5. TypeInv'
  BY <1>0, <1>3, <1>4, KeepTypesAfter
<1>6. \A i, j \in DOMAIN files' :
         i < j => files'[i] # files'[j] /\ Rank[files'[i]] < Rank[files'[j]]
  BY <1>3
<1> QED BY <1>0, <1>3, <1>4, <1>5, <1>6, QueueFiles DEF ReplayInv

\* RunDirectory: the .txt files are queued by path.
LEMMA StepRunDirectory ==
    ASSUME ReplayInv, RunDirectory
    PROVE  ReplayInv'
<1>0. /\ stage = "arguments" /\ options' = options /\ contents' = contents
      /\ output' = output
  BY DEF RunDirectory, inputVars
<1>a. /\ exit_status = -1 /\ TypeInv /\ steps' = steps /\ engine' = engine
      /\ files = <<>> /\ output = <<>>
      /\ IsList(files) /\ IsList(steps) /\ IsList(engine) /\ IsList(output)
  BY <1>0 DEF ReplayInv, TypeInv, RunDirectory
<1>1. CASE options.directory # Directory
  <2>1. /\ stage' = "exited" /\ exit_status' = 1 /\ files' = files
    BY <1>1 DEF RunDirectory, Exit
  <2>2. files' = <<>> /\ output' = <<>>
    BY <1>0, <1>a, <2>1
  <2>3. TypeInv'
    BY <1>0, <1>a, <2>1, KeepTypesAfter
  <2> QED BY <2>1, <2>2, <2>3, NothingYet DEF ReplayInv
<1>2. CASE options.directory = Directory
  <2> DEFINE found == DOMAIN Rank \cap DOMAIN contents
  <2>1. /\ stage' = "files" /\ exit_status' = exit_status
        /\ files' \in scenario_files_in
    BY <1>2 DEF RunDirectory
  <2>2. /\ files' \in [1 .. Cardinality(found) -> found]
        /\ ToSet(files') = found
        /\ \A i, j \in DOMAIN files' :
              i < j => Rank[files'[i]] < Rank[files'[j]]
    BY <2>1 DEF scenario_files_in
  <2>3. Cardinality(found) \in Nat
    BY ReplayAssumption, FS_Intersection, FS_CardinalityType
  <2>4. IsList(files')
    <3> HIDE DEF found
    <3>1. PICK n \in Nat : n = Cardinality(found)
      BY <2>3
    <3>2. files' \in [1 .. n -> found]
      BY <2>2, <3>1
    <3>3. files' \in Seq(found)
      BY <3>2
    <3> QED BY <3>3, ListOfAnything
  <2>5. SourceGiven /\ Asked = found
    <3>1. OneSource
      BY DEF ReplayInv, TypeInv
    <3>2. options.directory # ""
      BY DEF RunDirectory
    <3> QED BY <3>1, <3>2 DEF SourceGiven, Asked, OneSource
  <2>6. \A i, j \in DOMAIN files' :
           i < j => files'[i] # files'[j] /\ Rank[files'[i]] < Rank[files'[j]]
    <3> SUFFICES ASSUME NEW i \in DOMAIN files', NEW j \in DOMAIN files', i < j
                 PROVE  files'[i] # files'[j]
      BY <2>2
    <3>1. files'[i] \in found /\ Rank[files'[i]] < Rank[files'[j]]
      BY <2>2
    <3>2. Rank[files'[i]] \in Nat
      BY <3>1, ReplayAssumption
    <3> QED BY <3>1, <3>2
  <2>7. exit_status' = -1
    BY <1>a, <2>1
  <2>8. TypeInv'
    BY <1>0, <1>a, <2>1, <2>4, <2>7, KeepTypesAfter
  <2>9. ToSet(files') = Asked /\ exit_status' # 0
    BY <2>2, <2>5, <2>7
  <2> QED BY <1>0, <2>1, <2>5, <2>6, <2>8, <2>9, QueueFiles DEF ReplayInv
<1> QED BY <1>1, <1>2

-----------------------------------------------------------------------------
(* Loading.                                                                *)

\* While a file is loaded the queue stays in order.
LEMMA KeepQueue ==
    ASSUME QueueInv, stage # "execute", options' = options,
           contents' = contents, files' = files, output' = output
    PROVE  QueueInv'
BY SameOptions DEF QueueInv

\* While a file is loaded those that were run stay complete.
LEMMA KeepDone ==
    ASSUME DoneInv, stage # "execute", options' = options,
           contents' = contents, files' = files, output' = output,
           Running' => Running, SourceGiven
    PROVE  DoneInv'
<1>1. SourceGiven' /\ Asked' = Asked
  BY SameOptions
<1>2. \A file : Complete(file)' <=> Complete(file)
  BY SameOutput
<1>3. ToSet(files)' = ToSet(files)
  OBVIOUS
<1>4. SourceGiven => \A n \in DOMAIN output : Complete(output[n].file)
  BY DEF DoneInv
<1>6. (\A n \in DOMAIN output : Complete(output[n].file))'
  BY <1>2, <1>4
<1>5. Running' =>
         \A file \in Asked \ {Directory} :
            file \in ToSet(files) \/ Complete(file)'
  BY <1>2 DEF DoneInv
<1> QED BY <1>1, <1>3, <1>6, <1>5 DEF DoneInv

\* A step of a program that was past its command line and not executing.
LEMMA KeepRest ==
    ASSUME ReplayInv, stage # "execute", options' = options,
           contents' = contents, files' = files, output' = output,
           Running' => Running, SourceGiven, stage' # "execute"
    PROVE  QueueInv' /\ OutputInv' /\ ExecuteInv' /\ DoneInv'
<1>1. ExecuteInv'
  BY DEF ExecuteInv
<1> QED BY <1>1, KeepQueue, SameOutputInv, KeepDone DEF ReplayInv

\* A file of the demo is not loaded.
LEMMA LoadingFiles ==
    ASSUME ReplayInv, stage = "load"
    PROVE  /\ SourceGiven /\ IsText(Lines) /\ Len(Lines) \in Nat
           /\ IsList(steps) /\ line_number \in Nat
<1>1. SourceGiven
  BY DEF ReplayInv, DoneInv
<1>2. IsText(Lines)
  <2>1. IsText(<<>>)
    BY DEF IsText
  <2>2. Head(files) \in DOMAIN contents \cup {Directory}
    BY DEF ReplayInv, LoadInv
  <2>3. \A path \in DOMAIN contents : IsText(contents[path])
    BY DEF ReplayInv, TypeInv
  <2> QED BY <2>1, <2>2, <2>3 DEF Lines
<1>3. Len(Lines) \in Nat
  BY <1>2 DEF IsText
<1>4. IsList(steps) /\ line_number \in Nat
  BY <1>3 DEF ReplayInv, TypeInv, LoadInv
<1> QED BY <1>1, <1>2, <1>3, <1>4

\* NextFile: loading starts with the first line and no symbols.
LEMMA StepNextFile ==
    ASSUME ReplayInv, NextFile
    PROVE  ReplayInv'
<1>0. /\ stage = "files" /\ options' = options /\ contents' = contents
      /\ files' = files /\ output' = output /\ engine' = engine
      /\ line_number' = 0 /\ symbols' = <<>> /\ next_id' = 1 /\ steps' = <<>>
  BY DEF NextFile, inputVars
<1>a. /\ TypeInv /\ exit_status = -1 /\ IsList(files) /\ IsList(engine)
      /\ IsList(output) /\ IsList(<<>>)
  BY <1>0, EmptyList DEF ReplayInv, TypeInv
<1>b. Running
  BY <1>0 DEF Running
<1>c. SourceGiven' <=> SourceGiven
  BY <1>0, SameOptions
<1>1. CASE files = <<>> /\ Exit(0)
  <2>1. stage' = "exited" /\ exit_status' = 0
    BY <1>1 DEF Exit
  <2>2. TypeInv'
    BY <1>0, <1>1, <1>a, <2>1, KeepTypesAfter
  <2>3. QueueInv' /\ OutputInv'
    BY <1>0, KeepQueue, SameOutputInv DEF ReplayInv
  <2>4. LoadInv' /\ ExecuteInv'
    BY <2>1 DEF LoadInv, ExecuteInv
  <2>5. DoneInv'
    <3>1. CASE SourceGiven
      BY <1>0, <1>b, <3>1, KeepDone DEF ReplayInv
    <3>2. CASE ~ SourceGiven
      <4>1. files = <<>> /\ output # <<>>
        BY <1>0, <1>b, <3>2 DEF ReplayInv, DoneInv
      <4> QED BY <1>0, <1>c, <2>1, <3>2, <4>1 DEF DoneInv
    <3> QED BY <3>1, <3>2
  <2> QED BY <2>2, <2>3, <2>4, <2>5 DEF ReplayInv
<1>2. CASE files # <<>>
  <2>1. SourceGiven
    BY <1>0, <1>2, <1>b DEF ReplayInv, DoneInv
  <2>2. CASE Head(files) \notin DOMAIN contents /\ Exit(1)
    <3>1. stage' = "exited" /\ exit_status' = 1
      BY <2>2 DEF Exit
    <3>2. TypeInv'
      BY <1>0, <1>a, <3>1, KeepTypesAfter
    <3>3. LoadInv'
      BY <3>1 DEF LoadInv
    <3> QED BY <1>0, <1>b, <2>1, <3>1, <3>2, <3>3, KeepRest DEF ReplayInv
  <2>3. CASE /\ Head(files) \in DOMAIN contents \cup {Directory}
             /\ stage' = "load" /\ exit_status' = exit_status
    <3>1. exit_status' = -1 /\ stage' = "load"
      BY <1>a, <2>3
    <3>2. TypeInv'
      BY <1>0, <1>2, <1>a, <3>1, KeepTypesAfter
    <3>3. Lines' = Lines /\ Len(Lines) \in Nat
      <4>1. IsText(<<>>)
        BY DEF IsText
      <4>2. \A path \in DOMAIN contents : IsText(contents[path])
        BY <1>a DEF TypeInv
      <4>3. IsText(Lines)
        BY <2>3, <4>1, <4>2 DEF Lines
      <4> QED BY <1>0, <4>3, SameLines DEF IsText
    <3>4. LoadInv'
      <4>1. StepsOf(Lines, 0, <<>>) /\ Interned(Lines, 0, <<>>, 1)
        BY LoadNothing
      <4>2. StepsOf(Lines, line_number, steps)'
        BY <1>0, <3>3, <4>1
      <4>3. Interned(Lines, line_number, symbols, next_id)'
        BY <1>0, <3>3, <4>1
      <4>4. \A i \in 1 .. line_number' : FALSE
        BY <1>0
      <4>5. line_number' \in 0 .. Len(Lines)'
        BY <1>0, <3>3
      <4>6. Head(files') \in DOMAIN contents' \cup {Directory}
        BY <1>0, <2>3
      <4> QED BY <4>2, <4>3, <4>4, <4>5, <4>6 DEF LoadInv
    <3> QED BY <1>0, <1>b, <2>1, <3>1, <3>2, <3>4, KeepRest DEF ReplayInv
  <2> QED BY <1>2, <2>2, <2>3 DEF NextFile
<1> QED BY <1>1, <1>2 DEF NextFile

\* SkipLine: a blank line is counted and otherwise ignored.
LEMMA StepSkipLine ==
    ASSUME ReplayInv, SkipLine
    PROVE  ReplayInv'
<1>0. /\ stage = "load" /\ stage' = "load" /\ options' = options
      /\ contents' = contents /\ files' = files /\ output' = output
      /\ engine' = engine /\ steps' = steps /\ symbols' = symbols
      /\ next_id' = next_id /\ exit_status' = exit_status
      /\ line_number' = line_number + 1
      /\ line_number < Len(Lines) /\ Lines[line_number + 1] = <<>>
  BY DEF SkipLine, inputVars, Line
<1>a. /\ TypeInv /\ exit_status = -1 /\ IsList(files) /\ IsList(engine)
      /\ IsList(output) /\ IsList(steps) /\ files # <<>>
  BY <1>0 DEF ReplayInv, TypeInv
<1>1. /\ SourceGiven /\ IsText(Lines) /\ Len(Lines) \in Nat
      /\ line_number \in Nat
  BY <1>0, LoadingFiles
<1>2. Lines' = Lines
  BY <1>0, SameLines
<1>3. TypeInv'
  BY <1>0, <1>a, KeepTypesAfter
<1>4. LoadInv'
  <2>1. /\ Head(files) \in DOMAIN contents \cup {Directory}
        /\ \A i \in 1 .. line_number : Lines[i] # <<>> => Sentence(Lines[i])
        /\ StepsOf(Lines, line_number, steps)
        /\ Interned(Lines, line_number, symbols, next_id)
    BY <1>0 DEF ReplayInv, LoadInv
  <2>2. StepsOf(Lines, line_number + 1, steps)
    BY <1>0, <1>1, <2>1, LoadBlank
  <2>3. NamesIn(Lines[line_number + 1]) = {}
    BY <1>0 DEF NamesIn
  <2>4. Interned(Lines, line_number + 1, symbols, next_id)
    BY <1>1, <2>1, <2>3, InternNothing
  <2>5. \A i \in 1 .. line_number + 1 : Lines[i] # <<>> => Sentence(Lines[i])
    BY <1>0, <1>1, <2>1
  <2>6. line_number + 1 \in 0 .. Len(Lines)
    BY <1>0, <1>1
  <2> QED BY <1>0, <1>2, <2>1, <2>2, <2>4, <2>5, <2>6 DEF LoadInv
<1>5. Running
  BY <1>0 DEF Running
<1> QED BY <1>0, <1>1, <1>3, <1>4, <1>5, KeepRest DEF ReplayInv

\* The next line, when there is a command in it.
LEMMA LineAtHand ==
    ASSUME ReplayInv, stage = "load", line_number < Len(Lines), Line # <<>>
    PROVE  /\ Line = Lines[line_number + 1] /\ Tokens(Line)
           /\ parse_error(Line) = NoError <=> Sentence(Line)
<1>1. /\ IsText(Lines) /\ Len(Lines) \in Nat /\ line_number \in Nat
  BY LoadingFiles
<1>2. Line = Lines[line_number + 1]
  BY DEF Line
<1>3. line_number + 1 \in 1 .. Len(Lines)
  BY <1>1
<1>4. Line \in Seq(STRING)
  BY <1>1, <1>2, <1>3 DEF IsText
<1> QED BY <1>2, <1>4, ParserExact DEF Tokens

\* LoadLine: one more line is loaded, with its number, its meaning and the
\* symbol id of its name.
LEMMA StepLoadLine ==
    ASSUME ReplayInv, LoadLine
    PROVE  ReplayInv'
<1> DEFINE n == line_number
           name == TokenOf(Line, "instrument")
           interned == intern(symbols, next_id, name)
           id == IF HasInstrument(Line) THEN interned.id ELSE NoSymbol
           command == make_command(Line, id)
<1>0. /\ stage = "load" /\ stage' = "load" /\ options' = options
      /\ contents' = contents /\ files' = files /\ output' = output
      /\ engine' = engine /\ exit_status' = exit_status
      /\ line_number' = n + 1 /\ line_number < Len(Lines)
      /\ Line # <<>> /\ ~ Throws(Line)
  BY DEF LoadLine, inputVars
<1>s. /\ steps' = Append(steps, [line |-> n + 1, command |-> command])
      /\ HasInstrument(Line) =>
            symbols' = interned.ids /\ next_id' = interned.next_id
      /\ ~ HasInstrument(Line) => symbols' = symbols /\ next_id' = next_id
  BY DEF LoadLine
<1>a. /\ TypeInv /\ exit_status = -1 /\ IsList(files) /\ IsList(engine)
      /\ IsList(output) /\ IsList(steps) /\ files # <<>>
  BY <1>0 DEF ReplayInv, TypeInv
<1>1. /\ SourceGiven /\ IsText(Lines) /\ Len(Lines) \in Nat
      /\ n \in Nat
  BY <1>0, LoadingFiles
<1>2. Lines' = Lines
  BY <1>0, SameLines
<1>3. /\ Line = Lines[n + 1] /\ Tokens(Line)
      /\ parse_error(Line) = NoError <=> Sentence(Line)
  BY <1>0, LineAtHand
<1>4. /\ Sentence(Line)
      /\ HasInstrument(Line) => ~ intern_throws(symbols, next_id, name)
  BY <1>0, <1>3 DEF Throws
<1>5. /\ Head(files) \in DOMAIN contents \cup {Directory}
      /\ \A i \in 1 .. n : Lines[i] # <<>> => Sentence(Lines[i])
      /\ StepsOf(Lines, n, steps)
      /\ Interned(Lines, n, symbols, next_id)
  BY <1>0 DEF ReplayInv, LoadInv
<1> HIDE DEF n, name, interned, id, command
<1>6. /\ HasInstrument(Line) => id = FirstSeen(Lines, name)
      /\ Interned(Lines, n + 1, symbols', next_id')
  <2>1. CASE HasInstrument(Line)
    <3>1. NamesIn(Lines[n + 1]) = {name}
      BY <1>3, <1>4, <2>1, NamesOfSentence DEF name
    <3>2. n < Len(Lines)
      BY <1>0 DEF n
    <3>3. /\ interned.id = FirstSeen(Lines, name)
          /\ Interned(Lines, n + 1, interned.ids, interned.next_id)
      BY <1>1, <1>4, <1>5, <2>1, <3>1, <3>2, InternName DEF interned
    <3> QED BY <1>s, <2>1, <3>3 DEF id
  <2>2. CASE ~ HasInstrument(Line)
    <3>1. NamesIn(Lines[n + 1]) = {}
      BY <1>3, <2>2, NamesOfSentence
    <3>2. Interned(Lines, n + 1, symbols, next_id)
      BY <1>1, <1>5, <3>1, InternNothing
    <3> QED BY <1>s, <2>2, <3>2
  <2> QED BY <2>1, <2>2
<1>7. Means(command, Lines, n + 1)
  <2>1. HasInstrument(Lines[n + 1]) =>
           id = FirstSeen(Lines, TokenOf(Lines[n + 1], "instrument"))
    BY <1>3, <1>6 DEF name
  <2>2. Means(make_command(Lines[n + 1], id), Lines, n + 1)
    BY <1>3, <1>4, <2>1, MeaningOfLine
  <2> QED BY <1>3, <2>2 DEF command
<1>8. StepsOf(Lines, n + 1, steps') /\ IsList(steps')
  BY <1>0, <1>1, <1>3, <1>5, <1>7, <1>a, <1>s, LoadStep, AppendList
<1>9. LoadInv'
  <2>1. \A i \in 1 .. n + 1 : Lines[i] # <<>> => Sentence(Lines[i])
    BY <1>1, <1>3, <1>4, <1>5
  <2>2. n + 1 \in 0 .. Len(Lines)
    BY <1>0, <1>1 DEF n
  <2> QED BY <1>0, <1>2, <1>5, <1>6, <1>8, <2>1, <2>2 DEF LoadInv
<1>10. TypeInv'
  BY <1>0, <1>8, <1>a, KeepTypesAfter
<1>11. Running
  BY <1>0 DEF Running
<1> QED BY <1>0, <1>1, <1>9, <1>10, <1>11, KeepRest DEF ReplayInv

\* RefuseLine: the program ends before any command of the file runs.
LEMMA StepRefuseLine ==
    ASSUME ReplayInv, RefuseLine
    PROVE  ReplayInv'
<1>0. /\ stage = "load" /\ stage' = "exited" /\ options' = options
      /\ contents' = contents /\ files' = files /\ output' = output
      /\ engine' = engine /\ steps' = steps /\ exit_status' = 1
  BY DEF RefuseLine, Exit, inputVars
<1>a. /\ TypeInv /\ IsList(files) /\ IsList(engine) /\ IsList(output)
      /\ IsList(steps)
  BY DEF ReplayInv, TypeInv
<1>1. SourceGiven
  BY <1>0, LoadingFiles
<1>2. TypeInv'
  BY <1>0, <1>a, KeepTypesAfter
<1>3. LoadInv'
  BY <1>0 DEF LoadInv
<1>4. Running
  BY <1>0 DEF Running
<1> QED BY <1>0, <1>1, <1>2, <1>3, <1>4, KeepRest DEF ReplayInv

-----------------------------------------------------------------------------
(* Executing.                                                              *)

\* StartRunner: the steps that were loaded are the commands of the whole file.
LEMMA StepStartRunner ==
    ASSUME ReplayInv, StartRunner
    PROVE  ReplayInv'
<1>0. /\ stage = "load" /\ stage' = "execute" /\ options' = options
      /\ contents' = contents /\ files' = files /\ output' = output
      /\ engine' = <<>> /\ steps' = steps /\ exit_status' = exit_status
      /\ line_number = Len(Lines)
  BY DEF StartRunner, inputVars
<1>a. /\ TypeInv /\ exit_status = -1 /\ IsList(files) /\ IsList(<<>>)
      /\ IsList(output) /\ IsList(steps) /\ files # <<>>
  BY <1>0, EmptyList DEF ReplayInv, TypeInv
<1>1. /\ SourceGiven /\ IsText(Lines) /\ Len(Lines) \in Nat
  BY <1>0, LoadingFiles
<1>2. /\ Lines' = Lines /\ (SourceGiven' <=> SourceGiven) /\ Asked' = Asked
  BY <1>0, SameLines, SameOptions
<1>3. TypeInv'
  BY <1>0, <1>a, KeepTypesAfter
<1>4. /\ \A n \in DOMAIN output : output[n].file # files[1]
      /\ Head(files) = files[1] /\ 1 \in DOMAIN files
  <2>1. 1 \in DOMAIN files /\ Head(files) = files[1]
    BY <1>a, TailList, ListFacts
  <2> QED BY <1>0, <2>1 DEF ReplayInv, QueueInv
<1>5. QueueInv'
  BY <1>0, <1>2 DEF ReplayInv, QueueInv
<1>6. OutputInv' /\ LoadInv'
  BY <1>0, SameOutputInv DEF ReplayInv, LoadInv
<1>7. HasRun(engine, Len(output) + 1, Head(files))'
  <2>1. Len(output) \in Nat /\ DOMAIN output = 1 .. Len(output)
    BY <1>a, ListFacts
  <2>2. Len(output) > 0 => output[Len(output)].file # Head(files)
    BY <1>4, <2>1
  <2> QED BY <1>0, <2>1, <2>2 DEF HasRun
<1>8. LinesWritten(Head(files)) = {} /\ Entries(Head(files)) = {}
  BY <1>4 DEF LinesWritten, Entries
<1>9. /\ Head(files) \in DOMAIN contents \cup {Directory}
      /\ \A i \in Commands(Lines) : Sentence(Lines[i])
      /\ {steps[k].line : k \in DOMAIN steps} = Commands(Lines)
      /\ \A k \in DOMAIN steps : \A j \in 1 .. k - 1 :
            steps[j].line < steps[k].line
  <2>1. DOMAIN Lines = 1 .. Len(Lines)
    BY <1>1 DEF IsText
  <2> QED BY <1>0, <2>1 DEF ReplayInv, LoadInv, StepsOf, Commands
<1>10. ExecuteInv'
  <2>1. LinesWritten(Head(files))' = {} /\ Entries(Head(files))' = {}
    BY <1>0, <1>8 DEF LinesWritten, Entries
  <2> QED BY <1>0, <1>2, <1>7, <1>9, <2>1 DEF ExecuteInv
<1>11. DoneInv'
  <2>1. (\A n \in DOMAIN output : Complete(output[n].file))'
    <3>1. \A n \in DOMAIN output : Complete(output[n].file)
      BY <1>0, <1>1 DEF ReplayInv, DoneInv
    <3> QED BY <1>0, <3>1, SameOutput
  <2>2. \A file \in Asked \ {Directory} :
           file \in ToSet(files) \/ Complete(file)
    BY <1>0, <1>1 DEF ReplayInv, DoneInv, Running
  <2>3. ToSet(files)' = ToSet(files)
    BY <1>0
  <2>4. \A file \in Asked' \ {Directory} :
           file \in ToSet(files)' \/ Complete(file)'
    BY <1>0, <1>2, <2>2, <2>3, SameOutput
  <2> QED BY <1>1, <1>2, <2>1, <2>4 DEF DoneInv
<1> QED BY <1>3, <1>5, <1>6, <1>10, <1>11 DEF ReplayInv

\* What an engine has run is not affected by what is written later.
LEMMA RunBefore ==
    ASSUME NEW size \in Nat, \A m \in 1 .. size : output'[m] = output[m],
           NEW commands, IsList(commands), NEW n \in 1 .. size + 1, NEW file,
           HasRun(commands, n, file)
    PROVE  HasRun(commands, n, file)'
<1> DEFINE first == n - Len(commands)
<1>1. Len(commands) \in Nat /\ DOMAIN commands = 1 .. Len(commands)
  BY ListFacts
<1>2. /\ first >= 1 /\ first \in Int
      /\ \A k \in DOMAIN commands :
            /\ output[first + k - 1].file = file
            /\ commands[k] = output[first + k - 1].step.command
      /\ first > 1 => output[first - 1].file # file
  BY <1>1 DEF HasRun
<1>3. \A k \in DOMAIN commands : first + k - 1 \in 1 .. size
  BY <1>1, <1>2
<1>4. first > 1 => first - 1 \in 1 .. size
  BY <1>1, <1>2
<1>5. /\ \A k \in DOMAIN commands :
            /\ output'[first + k - 1].file = file
            /\ commands[k] = output'[first + k - 1].step.command
      /\ first > 1 => output'[first - 1].file # file
  BY <1>2, <1>3, <1>4
<1> QED BY <1>2, <1>5 DEF HasRun

\* One more command was run, and its answer written.
LEMMA RunOneMore ==
    ASSUME NEW commands, IsList(commands), NEW n \in Nat, NEW file,
           HasRun(commands, n, file)', output'[n].file = file,
           NEW command, output'[n].step.command = command
    PROVE  HasRun(Append(commands, command), n + 1, file)'
<1> DEFINE first == n - Len(commands)
           more == Append(commands, command)
<1>1. Len(commands) \in Nat /\ DOMAIN commands = 1 .. Len(commands)
  BY ListFacts
<1>2. /\ IsList(more) /\ Len(more) = Len(commands) + 1
      /\ more[Len(commands) + 1] = command
      /\ \A i \in 1 .. Len(commands) : more[i] = commands[i]
  BY AppendList
<1>3. DOMAIN more = 1 .. Len(commands) + 1
  BY <1>2, ListFacts
<1>4. /\ first >= 1
      /\ \A k \in DOMAIN commands :
            /\ output'[first + k - 1].file = file
            /\ commands[k] = output'[first + k - 1].step.command
      /\ first > 1 => output'[first - 1].file # file
  BY DEF HasRun
<1> HIDE DEF more
<1>5. n + 1 - Len(more) = first
  BY <1>1, <1>2
<1>6. ASSUME NEW k \in DOMAIN more
      PROVE  /\ output'[first + k - 1].file = file
             /\ more[k] = output'[first + k - 1].step.command
  <2>1. CASE k \in 1 .. Len(commands)
    BY <1>1, <1>2, <1>4, <2>1
  <2>2. CASE k = Len(commands) + 1
    <3>1. first + k - 1 = n
      BY <1>1, <2>2
    <3> QED BY <1>2, <2>2, <3>1
  <2> QED BY <1>1, <1>3, <2>1, <2>2
<1> HIDE DEF first
<1>7. HasRun(more, n + 1, file)'
  BY <1>4, <1>5, <1>6 DEF HasRun
<1> QED BY <1>7 DEF more

\* An entry was answered by its own engine if that had run what HasRun says.
LEMMA OwnEngineIs ==
    ASSUME NEW n
    PROVE  OwnEngine(n) <=> HasRun(output[n].before, n, output[n].file)
BY DEF OwnEngine, HasRun

\* ExecuteStep: what is written is one more entry for the file at work.
Wrote(e) ==
    /\ IsList(output) /\ Len(output) \in Nat
    /\ DOMAIN output = 1 .. Len(output)
    /\ IsList(output') /\ Len(output') = Len(output) + 1
    /\ DOMAIN output' = 1 .. Len(output) + 1
    /\ output'[Len(output) + 1] = e
    /\ \A n \in 1 .. Len(output) : output'[n] = output[n]

\* One more entry is written.
LEMMA WriteOne ==
    ASSUME NEW e, IsList(output), output' = Append(output, e)
    PROVE  Wrote(e)
<1>1. /\ IsList(output') /\ Len(output') = Len(output) + 1
      /\ output'[Len(output) + 1] = e
      /\ \A n \in 1 .. Len(output) : output'[n] = output[n]
  BY AppendList
<1>2. /\ Len(output) \in Nat /\ DOMAIN output = 1 .. Len(output)
      /\ DOMAIN output' = 1 .. Len(output')
  BY <1>1, ListFacts
<1> QED BY <1>1, <1>2 DEF Wrote

\* The line of the entry is now written for its file, and for no other file.
LEMMA WrittenLines ==
    ASSUME NEW e, Wrote(e)
    PROVE  /\ LinesWritten(e.file)' = LinesWritten(e.file) \cup {e.step.line}
           /\ \A file : file # e.file =>
                 LinesWritten(file)' = LinesWritten(file)
<1>1. /\ DOMAIN output' = DOMAIN output \cup {Len(output) + 1}
      /\ \A n \in DOMAIN output : output'[n] = output[n]
      /\ output'[Len(output) + 1] = e
  BY DEF Wrote
<1>2. Entries(e.file)' = Entries(e.file) \cup {Len(output) + 1}
  BY <1>1 DEF Entries
<1>3. \A file : file # e.file => Entries(file)' = Entries(file)
  BY <1>1 DEF Entries
<1>4. \A file : \A n \in Entries(file) : output'[n] = output[n]
  BY <1>1 DEF Entries
<1>5. LinesWritten(e.file)' = LinesWritten(e.file) \cup {e.step.line}
  BY <1>1, <1>2, <1>4 DEF LinesWritten
<1>6. \A file : file # e.file => LinesWritten(file)' = LinesWritten(file)
  BY <1>3, <1>4 DEF LinesWritten
<1> QED BY <1>5, <1>6

\* The entry keeps the output in order if its engine and its line do.
LEMMA KeepOutput ==
    ASSUME NEW e, Wrote(e), OutputInv, options' = options,
           contents' = contents, IsList(e.before),
           HasRun(e.before, Len(output) + 1, e.file),
           \A m \in DOMAIN output :
              IF output[m].file = e.file
              THEN SourceGiven => output[m].step.line < e.step.line
              ELSE Rank[output[m].file] < Rank[e.file]
    PROVE  OutputInv'
<1> DEFINE size == Len(output)
<1>1. /\ size \in Nat /\ DOMAIN output = 1 .. size
      /\ DOMAIN output' = 1 .. size + 1 /\ output'[size + 1] = e
      /\ \A n \in 1 .. size : output'[n] = output[n]
  BY DEF Wrote
<1>2. SourceGiven' <=> SourceGiven
  BY SameOptions
<1>s. PICK top \in Nat : top = size
  BY <1>1
<1>3. \A n \in 1 .. size + 1 : OwnEngine(n)' /\ IsList(output'[n].before)
  <2>1. ASSUME NEW n \in 1 .. top
        PROVE  OwnEngine(n)' /\ IsList(output'[n].before)
    <3>1. OwnEngine(n) /\ IsList(output[n].before) /\ output'[n] = output[n]
      BY <1>1, <1>s, <2>1 DEF OutputInv
    <3>2. PICK entry : entry = output[n]
      OBVIOUS
    <3>3. PICK commands, file : commands = entry.before /\ file = entry.file
      OBVIOUS
    <3>4. HasRun(commands, n, file) /\ IsList(commands)
      BY <3>1, <3>2, <3>3, OwnEngineIs
    <3>5. n \in 1 .. top + 1 /\ \A m \in 1 .. top : output'[m] = output[m]
      BY <1>1, <1>s
    <3>6. HasRun(commands, n, file)'
      BY <3>4, <3>5, RunBefore
    <3>7. output'[n].before = commands /\ output'[n].file = file
      BY <3>1, <3>2, <3>3
    <3> QED BY <3>4, <3>6, <3>7 DEF OwnEngine, HasRun
  <2>2. OwnEngine(top + 1)' /\ IsList(output'[top + 1].before)
    <3>1. PICK commands, file : commands = e.before /\ file = e.file
      OBVIOUS
    <3>2. HasRun(commands, top + 1, file) /\ IsList(commands)
      BY <1>s, <3>1
    <3>3. top + 1 \in 1 .. top + 1 /\ \A m \in 1 .. top : output'[m] = output[m]
      BY <1>1, <1>s
    <3>4. HasRun(commands, top + 1, file)'
      BY <3>2, <3>3, RunBefore
    <3>5. output'[top + 1].before = commands /\ output'[top + 1].file = file
      BY <1>1, <1>s, <3>1
    <3> QED BY <3>2, <3>4, <3>5 DEF OwnEngine, HasRun
  <2> QED BY <1>s, <2>1, <2>2
<1>4. ASSUME NEW m \in 1 .. size + 1, NEW n \in 1 .. size + 1, m < n
      PROVE  IF output'[m].file = output'[n].file
             THEN SourceGiven => output'[m].step.line < output'[n].step.line
             ELSE Rank[output'[m].file] < Rank[output'[n].file]
  <2>1. m \in 1 .. size /\ output'[m] = output[m]
    BY <1>1, <1>4
  <2>2. CASE n \in 1 .. size
    BY <1>1, <1>4, <2>1, <2>2 DEF OutputInv
  <2>3. CASE n = size + 1
    BY <1>1, <2>1, <2>3
  <2> QED BY <1>1, <2>2, <2>3
<1> HIDE DEF size
<1>5. (\A n \in DOMAIN output : OwnEngine(n) /\ IsList(output[n].before))'
  BY <1>1, <1>3
<1> QED BY <1>1, <1>2, <1>4, <1>5 DEF OutputInv

\* Taking the first of the steps that are left.
LinesOf(list) == {list[k].line : k \in DOMAIN list}

\* Taking the first of the steps that are left.
LEMMA TakeStep ==
    ASSUME NEW list, IsList(list), list # <<>>, NEW rest, rest = Tail(list)
    PROVE  /\ LinesOf(list) = {list[1].line} \cup LinesOf(rest)
           /\ \A k \in DOMAIN rest :
                 rest[k] = list[k + 1] /\ k + 1 \in DOMAIN list
                 /\ k \in Nat /\ k >= 1
           /\ Head(list) = list[1] /\ 1 \in DOMAIN list
<1>1. /\ IsList(Tail(list)) /\ Len(Tail(list)) = Len(list) - 1
      /\ \A i \in 1 .. Len(list) - 1 : Tail(list)[i] = list[i + 1]
      /\ Head(list) = list[1] /\ Len(list) >= 1
  BY TailList
<1>2. /\ Len(list) \in Nat /\ DOMAIN list = 1 .. Len(list)
      /\ DOMAIN Tail(list) = 1 .. Len(list) - 1
  BY <1>1, ListFacts
<1>3. \A k \in 1 .. Len(list) : k = 1 \/ (k - 1 \in DOMAIN rest
                                          /\ rest[k - 1] = list[k])
  BY <1>1, <1>2
<1>4. \A k \in DOMAIN rest : rest[k] = list[k + 1] /\ k + 1 \in DOMAIN list
                             /\ k \in Nat /\ k >= 1
  BY <1>1, <1>2
<1>5. {list[k].line : k \in DOMAIN list} =
         {list[1].line} \cup {rest[k].line : k \in DOMAIN rest}
  <2>1. 1 \in DOMAIN list
    BY <1>1, <1>2
  <2>2. \A k \in DOMAIN list :
           k = 1 \/ \E j \in DOMAIN rest : list[k] = rest[j]
    BY <1>2, <1>3
  <2>3. \A j \in DOMAIN rest : \E k \in DOMAIN list : rest[j] = list[k]
    BY <1>4
  <2> QED BY <2>1, <2>2, <2>3
<1>6. Head(list) = list[1] /\ 1 \in DOMAIN list
  BY <1>1, <1>2
<1>7. LinesOf(list) = {list[1].line} \cup LinesOf(rest)
  BY <1>5 DEF LinesOf
<1> QED BY <1>4, <1>6, <1>7

\* ExecuteStep: the first step that is left is run by the engine of the file
\* and written.
LEMMA StepExecuteStep ==
    ASSUME ReplayInv, ExecuteStep
    PROVE  ReplayInv'
<1>0. /\ stage = "execute" /\ stage' = "execute" /\ options' = options
      /\ contents' = contents /\ files' = files /\ exit_status' = exit_status
      /\ steps # <<>> /\ steps' = Tail(steps)
  BY DEF ExecuteStep, inputVars
<1>e. PICK e : e = [file |-> Head(files), step |-> Head(steps),
                    before |-> engine]
  OBVIOUS
<1>o. /\ output' = Append(output, e)
      /\ engine' = Append(engine, Head(steps).command)
      /\ e.file = Head(files) /\ e.step = Head(steps) /\ e.before = engine
  BY <1>e DEF ExecuteStep
<1>a. /\ TypeInv /\ exit_status = -1 /\ IsList(files) /\ IsList(engine)
      /\ IsList(output) /\ IsList(steps) /\ files # <<>>
      /\ QueueInv /\ OutputInv /\ ExecuteInv /\ DoneInv
  BY <1>0 DEF ReplayInv, TypeInv
<1>1. Wrote(e)
  BY <1>a, <1>o, WriteOne
<1>2. PICK size \in Nat : size = Len(output)
  BY <1>1 DEF Wrote
<1>w. /\ DOMAIN output = 1 .. size /\ DOMAIN output' = 1 .. size + 1
      /\ output'[size + 1] = e /\ Len(output') = size + 1 /\ IsList(output')
      /\ \A n \in 1 .. size : output'[n] = output[n]
  BY <1>1, <1>2 DEF Wrote
<1>3. /\ (SourceGiven' <=> SourceGiven) /\ Asked' = Asked /\ Lines' = Lines
  BY <1>0, SameOptions, SameLines
<1>4. /\ Head(files) = files[1] /\ 1 \in DOMAIN files
      /\ Head(steps) = steps[1]
  BY <1>0, <1>a, TailList, ListFacts
<1>5. TypeInv'
  <2>1. IsList(steps') /\ IsList(engine')
    BY <1>0, <1>a, <1>o, TailList, AppendList
  <2> QED BY <1>0, <1>a, <1>w, <2>1, KeepTypesAfter
<1>6. /\ HasRun(engine, size + 1, Head(files))
      /\ SourceGiven =>
            /\ Head(files) \in DOMAIN contents \cup {Directory}
            /\ \A i \in Commands(Lines) : Sentence(Lines[i])
            /\ LinesWritten(Head(files))
                  \cup {steps[k].line : k \in DOMAIN steps} = Commands(Lines)
            /\ \A n \in Entries(Head(files)) : \A k \in DOMAIN steps :
                  output[n].step.line < steps[k].line
            /\ \A k \in DOMAIN steps : \A j \in 1 .. k - 1 :
                  steps[j].line < steps[k].line
  BY <1>0, <1>a, <1>2 DEF ExecuteInv
<1>t. /\ {steps[k].line : k \in DOMAIN steps} =
            {steps[1].line} \cup {steps'[k].line : k \in DOMAIN steps'}
      /\ \A k \in DOMAIN steps' :
            steps'[k] = steps[k + 1] /\ k + 1 \in DOMAIN steps
            /\ k \in Nat /\ k >= 1
      /\ 1 \in DOMAIN steps
  <2>1. PICK list, rest : list = steps /\ rest = steps'
    OBVIOUS
  <2>2. IsList(list) /\ list # <<>> /\ rest = Tail(list)
    BY <1>0, <1>a, <2>1
  <2>3. /\ LinesOf(list) = {list[1].line} \cup LinesOf(rest)
        /\ \A k \in DOMAIN rest : rest[k] = list[k + 1] /\ k + 1 \in DOMAIN list
                                  /\ k \in Nat /\ k >= 1
        /\ 1 \in DOMAIN list
    BY <2>2, TakeStep
  <2> QED BY <2>1, <2>3 DEF LinesOf
<1>7. QueueInv'
  <2>1. ASSUME NEW n \in 1 .. size + 1
        PROVE  /\ output'[n].file \in Asked
               /\ \A i \in DOMAIN files :
                     \/ i = 1 /\ output'[n].file = files[i]
                     \/ /\ output'[n].file # files[i]
                        /\ Rank[output'[n].file] < Rank[files[i]]
    <3>1. CASE n \in 1 .. size
      BY <1>a, <1>w, <3>1 DEF QueueInv
    <3>2. CASE n = size + 1
      <4>1. output'[n].file = files[1]
        BY <1>4, <1>o, <1>w, <3>2
      <4>2. \A i \in DOMAIN files : i = 1 \/ 1 < i
        BY <1>a, ListFacts
      <4> QED BY <1>4, <1>a, <4>1, <4>2 DEF QueueInv
    <3> QED BY <3>1, <3>2
  <2> QED BY <1>0, <1>3, <1>a, <1>w, <2>1 DEF QueueInv
<1>8. OutputInv'
  <2>1. ASSUME NEW m \in DOMAIN output
        PROVE  IF output[m].file = e.file
               THEN SourceGiven => output[m].step.line < e.step.line
               ELSE Rank[output[m].file] < Rank[e.file]
    <3>1. CASE output[m].file = e.file
      <4>1. m \in Entries(Head(files))
        BY <1>o, <3>1 DEF Entries
      <4> QED BY <1>4, <1>6, <1>o, <1>t, <3>1, <4>1
    <3>2. CASE output[m].file # e.file
      BY <1>4, <1>a, <1>o, <3>2 DEF QueueInv
    <3> QED BY <3>1, <3>2
  <2>2. IsList(e.before) /\ HasRun(e.before, Len(output) + 1, e.file)
    BY <1>2, <1>6, <1>a, <1>o
  <2> QED BY <1>0, <1>1, <1>a, <2>1, <2>2, KeepOutput
<1>9. LoadInv'
  BY <1>0 DEF LoadInv
<1>10. HasRun(engine, Len(output) + 1, Head(files))'
  <2>1. PICK commands, file : commands = engine /\ file = Head(files)
    OBVIOUS
  <2>2. /\ size + 1 \in 1 .. size + 1
        /\ \A m \in 1 .. size : output'[m] = output[m]
    BY <1>w
  <2>3. HasRun(commands, size + 1, file)'
    BY <1>6, <1>a, <2>1, <2>2, RunBefore
  <2>4. /\ output'[size + 1].file = file /\ size + 1 \in Nat
        /\ output'[size + 1].step.command = Head(steps).command
    BY <1>o, <1>w, <2>1
  <2>5. PICK command : command = Head(steps).command
    OBVIOUS
  <2>7. HasRun(Append(commands, command), size + 1 + 1, file)'
    BY <1>a, <2>1, <2>3, <2>4, <2>5, RunOneMore
  <2>8. /\ engine' = Append(commands, command)
        /\ Len(output') + 1 = size + 1 + 1
        /\ Head(files') = file
    BY <1>0, <1>o, <1>w, <2>1, <2>5
  <2> QED BY <2>7, <2>8 DEF HasRun
<1>l. /\ LinesWritten(Head(files))' =
            LinesWritten(Head(files)) \cup {steps[1].line}
      /\ \A file : file # Head(files) =>
            LinesWritten(file)' = LinesWritten(file)
  <2>1. PICK file : file = Head(files)
    OBVIOUS
  <2>2. LinesWritten(file)' = LinesWritten(file) \cup {steps[1].line}
    BY <1>1, <1>4, <1>o, <2>1, WrittenLines
  <2>3. LinesWritten(Head(files))' = LinesWritten(file)'
    BY <1>0, <2>1 DEF LinesWritten, Entries
  <2> QED BY <1>1, <1>o, <2>1, <2>2, <2>3, WrittenLines
<1>11. ExecuteInv'
  <2>1. ASSUME SourceGiven, NEW n \in 1 .. size + 1,
               output'[n].file = Head(files), NEW k \in DOMAIN steps'
        PROVE  output'[n].step.line < steps'[k].line
    <3>1. CASE n \in 1 .. size
      <4>1. n \in Entries(Head(files)) /\ output'[n] = output[n]
        BY <1>w, <2>1, <3>1 DEF Entries
      <4> QED BY <1>6, <1>t, <2>1, <4>1
    <3>2. CASE n = size + 1
      <4>1. output'[n].step.line = steps[1].line
        BY <1>4, <1>o, <1>w, <3>2
      <4>2. k + 1 \in DOMAIN steps /\ 1 \in 1 .. (k + 1) - 1
        BY <1>t
      <4> QED BY <1>6, <1>t, <2>1, <4>1, <4>2
    <3> QED BY <3>1, <3>2
  <2>2. SourceGiven => \A k \in DOMAIN steps' : \A j \in 1 .. k - 1 :
                          steps'[j].line < steps'[k].line
    <3> SUFFICES ASSUME SourceGiven, NEW k \in DOMAIN steps',
                        NEW j \in 1 .. k - 1
                 PROVE  steps'[j].line < steps'[k].line
      OBVIOUS
    <3>1. j \in DOMAIN steps'
      <4>1. /\ DOMAIN steps' = 1 .. Len(steps') /\ Len(steps') \in Nat
        BY <1>5, ListFacts DEF TypeInv
      <4> QED BY <4>1
    <3>2. k + 1 \in DOMAIN steps /\ j + 1 \in 1 .. (k + 1) - 1
      BY <1>t
    <3> QED BY <1>6, <1>t, <3>1, <3>2
  <2>3. SourceGiven => (LinesWritten(Head(files))
                           \cup {steps[k].line : k \in DOMAIN steps})'
                       = Commands(Lines)
    BY <1>6, <1>l, <1>t
  <2>4. (\A i \in Commands(Lines) : Sentence(Lines[i]))'
           <=> \A i \in Commands(Lines) : Sentence(Lines[i])
    BY <1>3 DEF Commands
  <2>5. SourceGiven => (\A n \in Entries(Head(files)) : \A k \in DOMAIN steps :
                           output[n].step.line < steps[k].line)'
    BY <1>0, <1>w, <2>1 DEF Entries
  <2>6. Commands(Lines)' = Commands(Lines)
    BY <1>3 DEF Commands
  <2>7. SourceGiven => Head(files') \in DOMAIN contents' \cup {Directory}
    BY <1>0, <1>6
  <2> QED
    BY <1>3, <1>6, <1>10, <2>2, <2>3, <2>4, <2>5, <2>6, <2>7 DEF ExecuteInv
<1>12. DoneInv'
  <2>1. \A file : file # Head(files) => (Complete(file)' <=> Complete(file))
    BY <1>0, <1>l DEF Complete
  <2>2. SourceGiven =>
           (\A n \in DOMAIN output :
               output[n].file = Head(files) \/ Complete(output[n].file))'
    <3> SUFFICES ASSUME SourceGiven, NEW n \in 1 .. size + 1
                 PROVE  (\/ output[n].file = Head(files)
                         \/ Complete(output[n].file))'
      BY <1>w
    <3>1. CASE n \in 1 .. size
      <4>1. output'[n].file = output[n].file
        BY <1>w, <3>1
      <4>2. output[n].file = Head(files) \/ Complete(output[n].file)
        BY <1>a, <1>w, <3>1 DEF DoneInv
      <4>3. PICK file : file = output[n].file
        OBVIOUS
      <4>4. file = Head(files) \/ Complete(file)'
        BY <2>1, <4>2, <4>3
      <4>5. (output[n].file = file)'
        BY <4>1, <4>3
      <4> QED BY <1>0, <4>4, <4>5
    <3>2. CASE n = size + 1
      BY <1>0, <1>o, <1>w, <3>2
    <3> QED BY <3>1, <3>2
  <2>3. SourceGiven =>
           \A file \in Asked \ {Directory} :
              file \in ToSet(files) \/ Complete(file)'
    <3>1. Head(files) \in ToSet(files)
      BY <1>4 DEF ToSet
    <3>2. SourceGiven =>
             \A file \in Asked \ {Directory} :
                file \in ToSet(files) \/ Complete(file)
      BY <1>0, <1>a DEF DoneInv, Running
    <3> QED BY <2>1, <3>1, <3>2
  <2>4. ToSet(files)' = ToSet(files)
    BY <1>0
  <2>5. ~ SourceGiven => Len(files') = 1 /\ output' # <<>>
    <3>1. Len(output') # 0 /\ IsList(output')
      BY <1>w
    <3>2. output' # <<>>
      BY <3>1, ListFacts
    <3> QED BY <1>0, <1>a, <3>2 DEF DoneInv
  <2> QED BY <1>0, <1>3, <2>2, <2>3, <2>4, <2>5 DEF DoneInv
<1> QED BY <1>5, <1>7, <1>8, <1>9, <1>11, <1>12 DEF ReplayInv

\* StopRunner: the file at work has been run to its end.
LEMMA StepStopRunner ==
    ASSUME ReplayInv, StopRunner
    PROVE  ReplayInv'
<1>0. /\ stage = "execute" /\ stage' = "files" /\ options' = options
      /\ contents' = contents /\ files' = Tail(files)
      /\ exit_status' = exit_status /\ steps = <<>> /\ steps' = steps
      /\ engine' = engine /\ output' = output
  BY DEF StopRunner, inputVars
<1>a. /\ TypeInv /\ exit_status = -1 /\ IsList(files) /\ IsList(engine)
      /\ IsList(output) /\ IsList(steps) /\ files # <<>>
      /\ QueueInv /\ OutputInv /\ ExecuteInv /\ DoneInv
  BY <1>0 DEF ReplayInv, TypeInv
<1>1. /\ (SourceGiven' <=> SourceGiven) /\ Asked' = Asked
  BY <1>0, SameOptions
<1>2. PICK rest : rest = Tail(files)
  OBVIOUS
<1>3. /\ IsList(rest) /\ Len(rest) = Len(files) - 1 /\ Len(files) \in Nat
      /\ DOMAIN files = 1 .. Len(files) /\ DOMAIN rest = 1 .. Len(rest)
      /\ Head(files) = files[1] /\ 1 \in DOMAIN files
      /\ \A i \in DOMAIN rest : rest[i] = files[i + 1] /\ i + 1 \in DOMAIN files
                                /\ i \in Nat /\ i >= 1
  <2>1. /\ IsList(rest) /\ Len(rest) = Len(files) - 1
        /\ \A i \in 1 .. Len(files) - 1 : rest[i] = files[i + 1]
        /\ Head(files) = files[1] /\ Len(files) >= 1
    BY <1>2, <1>a, TailList
  <2>2. /\ Len(files) \in Nat /\ DOMAIN files = 1 .. Len(files)
        /\ DOMAIN rest = 1 .. Len(rest)
    BY <1>a, <2>1, ListFacts
  <2> QED BY <2>1, <2>2
<1>f. files' = rest
  BY <1>0, <1>2
<1>4. TypeInv'
  <2>1. /\ stage' = "files" /\ options' = options /\ contents' = contents
        /\ exit_status' = -1 /\ IsList(files') /\ IsList(steps')
        /\ IsList(engine') /\ IsList(output')
    BY <1>0, <1>3, <1>a, <1>f
  <2> QED BY <1>a, <2>1, KeepTypesAfter
<1>5. QueueInv'
  <2>1. \A i \in DOMAIN rest : rest[i] \in Asked
    BY <1>3, <1>a DEF QueueInv
  <2>2. \A i, j \in DOMAIN rest :
           i < j => rest[i] # rest[j] /\ Rank[rest[i]] < Rank[rest[j]]
    BY <1>3, <1>a DEF QueueInv
  <2>3. \A n \in DOMAIN output :
           /\ output[n].file \in Asked
           /\ \A i \in DOMAIN rest : /\ output[n].file # rest[i]
                                     /\ Rank[output[n].file] < Rank[rest[i]]
    BY <1>3, <1>a DEF QueueInv
  <2> QED BY <1>0, <1>1, <1>f, <2>1, <2>2, <2>3 DEF QueueInv
<1>6. OutputInv' /\ LoadInv' /\ ExecuteInv'
  BY <1>0, <1>a, SameOutputInv DEF LoadInv, ExecuteInv
<1>7. SourceGiven /\ (Head(files) # Directory \/ Entries(Head(files)) # {})
         => Complete(Head(files))
  <2> SUFFICES ASSUME SourceGiven,
                      Head(files) # Directory \/ Entries(Head(files)) # {}
               PROVE  Complete(Head(files))
    OBVIOUS
  <2>1. /\ Head(files) \in DOMAIN contents \cup {Directory}
        /\ \A i \in Commands(Lines) : Sentence(Lines[i])
        /\ LinesWritten(Head(files)) = Commands(Lines)
    <3>1. {steps[k].line : k \in DOMAIN steps} = {}
      BY <1>0
    <3> QED BY <1>0, <1>a, <3>1 DEF ExecuteInv
  <2>2. Head(files) # Directory
    <3> SUFFICES ASSUME Head(files) = Directory, Entries(Head(files)) # {}
                 PROVE  FALSE
      OBVIOUS
    <3>1. Commands(Lines) = {}
      BY DEF Lines, Commands
    <3> QED BY <2>1, <3>1 DEF LinesWritten
  <2>3. Head(files) \in DOMAIN contents /\ Lines = contents[Head(files)]
    BY <2>1, <2>2 DEF Lines
  <2> QED BY <2>1, <2>3 DEF Complete
<1>8. DoneInv'
  <2>1. SourceGiven => (\A n \in DOMAIN output : Complete(output[n].file))'
    <3>1. SourceGiven => \A n \in DOMAIN output : Complete(output[n].file)
      <4> SUFFICES ASSUME SourceGiven, NEW n \in DOMAIN output
                   PROVE  Complete(output[n].file)
        OBVIOUS
      <4>1. CASE output[n].file = Head(files)
        BY <1>7, <4>1 DEF Entries
      <4>2. CASE output[n].file # Head(files)
        BY <1>a, <4>2 DEF DoneInv
      <4> QED BY <4>1, <4>2
    <3> QED BY <1>0, <3>1, SameOutput
  <2>2. SourceGiven =>
           \A file \in Asked \ {Directory} :
              file \in ToSet(rest) \/ Complete(file)'
    <3> SUFFICES ASSUME SourceGiven, NEW file \in Asked \ {Directory}
                 PROVE  file \in ToSet(rest) \/ Complete(file)'
      OBVIOUS
    <3>1. file \in ToSet(files) \/ Complete(file)
      BY <1>0, <1>a DEF DoneInv, Running
    <3>2. file \in ToSet(files) => file = Head(files) \/ file \in ToSet(rest)
      <4>1. \A i \in DOMAIN files : i = 1 \/ i - 1 \in DOMAIN rest
        BY <1>3
      <4>2. \A i \in DOMAIN files : i = 1 \/ rest[i - 1] = files[i]
        BY <1>3
      <4> QED BY <1>3, <4>1, <4>2 DEF ToSet
    <3>3. file = Head(files) => Complete(file)
      BY <1>7
    <3> QED BY <1>0, <3>1, <3>2, <3>3, SameOutput
  <2>3. ToSet(files)' = ToSet(rest)
    BY <1>f
  <2>4. ~ SourceGiven => files' = <<>> /\ output' # <<>>
    <3> SUFFICES ASSUME ~ SourceGiven PROVE files' = <<>> /\ output' # <<>>
      OBVIOUS
    <3>1. Len(files) = 1 /\ output # <<>>
      BY <1>0, <1>a DEF DoneInv
    <3>2. rest = <<>>
      BY <1>3, <3>1, ListFacts
    <3> QED BY <1>0, <1>f, <3>1, <3>2
  <2> QED BY <1>0, <1>1, <2>1, <2>2, <2>3, <2>4 DEF DoneInv
<1> QED BY <1>4, <1>5, <1>6, <1>8 DEF ReplayInv

-----------------------------------------------------------------------------
(* The theorems.                                                           *)

\* Every step of the program keeps the invariant.
LEMMA StepReplay ==
    ASSUME ReplayInv, [Next]_vars
    PROVE  ReplayInv'
<1>1. CASE TakeFormat
  BY <1>1, StepTakeFormat, NothingYet DEF ReplayInv
<1>2. CASE TakeSource
  BY <1>2, StepTakeSource, NothingYet DEF ReplayInv
<1>3. CASE RefuseArgument
  BY <1>3, StepRefuseArgument, NothingYet DEF ReplayInv
<1>4. CASE RunDemo
  BY <1>4, StepRunDemo
<1>5. CASE RunFile
  BY <1>5, StepRunFile
<1>6. CASE RunDirectory
  BY <1>6, StepRunDirectory
<1>7. CASE NextFile
  BY <1>7, StepNextFile
<1>8. CASE SkipLine
  BY <1>8, StepSkipLine
<1>9. CASE LoadLine
  BY <1>9, StepLoadLine
<1>10. CASE RefuseLine
  BY <1>10, StepRefuseLine
<1>11. CASE StartRunner
  BY <1>11, StepStartRunner
<1>12. CASE ExecuteStep
  BY <1>12, StepExecuteStep
<1>13. CASE StopRunner
  BY <1>13, StepStopRunner
<1>14. CASE UNCHANGED vars
  <2>1. /\ args' = args /\ contents' = contents /\ index' = index
        /\ options' = options /\ stage' = stage /\ files' = files
        /\ line_number' = line_number /\ symbols' = symbols
        /\ next_id' = next_id /\ steps' = steps /\ engine' = engine
        /\ output' = output /\ exit_status' = exit_status
    BY <1>14 DEF vars, inputVars, lineVars
  <2>2. TypeInv'
    BY <2>1, SameOptions DEF ReplayInv, TypeInv
  <2>3. /\ (SourceGiven' <=> SourceGiven) /\ Asked' = Asked /\ Lines' = Lines
        /\ ToSet(files)' = ToSet(files)
    BY <2>1, SameOptions, SameLines
  <2>4. QueueInv' /\ OutputInv'
    BY <2>1, <2>3, SameOutputInv DEF ReplayInv, QueueInv
  <2>5. LoadInv'
    BY <2>1, <2>3 DEF ReplayInv, LoadInv
  <2>6. ExecuteInv'
    BY <2>1, <2>3, SameOutput DEF ReplayInv, ExecuteInv, HasRun, Commands,
       LinesWritten, Entries
  <2>7. DoneInv'
    BY <2>1, <2>3, SameOutput DEF ReplayInv, DoneInv, Running
  <2> QED BY <2>2, <2>4, <2>5, <2>6, <2>7 DEF ReplayInv
<1> QED
  BY <1>1, <1>2, <1>3, <1>4, <1>5, <1>6, <1>7, <1>8, <1>9, <1>10, <1>11, <1>12,
     <1>13, <1>14 DEF Next, Step

\* The invariant holds throughout every replay, whatever the command line, the
\* files and the number of symbol ids.
THEOREM ReplayInductive == Spec => []ReplayInv
BY InitReplay, StepReplay, PTL DEF Spec

\* The invariant says that load reads the format of README.md.
LEMMA LoadInvFaithful == ReplayInv => LoadFaithful
<1> SUFFICES ASSUME ReplayInv PROVE LoadFaithful
  OBVIOUS
<1>1. stage = "load" =>
         /\ {steps[k].line : k \in DOMAIN steps} =
               {n \in 1 .. line_number : Lines[n] # <<>>}
         /\ \A k \in DOMAIN steps :
               /\ Means(steps[k].command, Lines, steps[k].line)
               /\ \A j \in 1 .. k - 1 : steps[j].line < steps[k].line
  BY DEF ReplayInv, LoadInv, StepsOf
<1>2. ASSUME stage = "load", line_number < Len(Lines), Line # <<>>
      PROVE  Throws(Line) <=>
                \/ ~ Sentence(Line)
                \/ Cardinality(Named(Lines, line_number + 1)) >= SymbolIdValues
  <2>1. /\ IsText(Lines) /\ Len(Lines) \in Nat /\ line_number \in Nat
        /\ Interned(Lines, line_number, symbols, next_id)
    BY <1>2, LoadingFiles DEF ReplayInv, LoadInv
  <2>2. /\ Line = Lines[line_number + 1] /\ Tokens(Line)
        /\ parse_error(Line) = NoError <=> Sentence(Line)
    BY <1>2, LineAtHand
  <2>3. CASE ~ Sentence(Line)
    BY <2>2, <2>3 DEF Throws
  <2>4. CASE Sentence(Line) /\ HasInstrument(Line)
    <3>1. NamesIn(Lines[line_number + 1]) = {TokenOf(Line, "instrument")}
      BY <2>2, <2>4, NamesOfSentence
    <3>2. intern_throws(symbols, next_id, TokenOf(Line, "instrument")) <=>
             Cardinality(Named(Lines, line_number + 1)) >= SymbolIdValues
      BY <1>2, <2>1, <3>1, InternName
    <3> QED BY <2>2, <2>4, <3>2 DEF Throws
  <2>5. CASE Sentence(Line) /\ ~ HasInstrument(Line)
    <3>1. NamesIn(Lines[line_number + 1]) = {}
      BY <2>2, <2>5, NamesOfSentence
    <3>2. Cardinality(Named(Lines, line_number + 1)) < SymbolIdValues
      BY <2>1, <3>1, InternNothing
    <3>3. Cardinality(Named(Lines, line_number + 1)) \in Nat
      BY <1>2, <2>1, NamedFinite
    <3>4. ~ Throws(Line)
      BY <2>2, <2>5 DEF Throws
    <3> QED BY <2>5, <3>2, <3>3, <3>4, ScenarioAssumption
  <2> QED BY <2>3, <2>4, <2>5
<1> QED BY <1>1, <1>2 DEF LoadFaithful

\* load reads exactly the format of README.md, for all files: every step it
\* appends is a line, in order and with its meaning, and it throws only for a
\* line that is no sentence or one name too many.
THEOREM LoadsFaithfully == Spec => []LoadFaithful
BY ReplayInductive, LoadInvFaithful, PTL

\* The invariant says that files are run as a whole.
LEMMA ReplayInvWhole == ReplayInv => WholeFilesOnly
<1> SUFFICES ASSUME ReplayInv PROVE WholeFilesOnly
  OBVIOUS
<1>1. /\ \A n \in DOMAIN output : OwnEngine(n)
      /\ \A m, n \in DOMAIN output :
            m < n =>
               IF output[m].file = output[n].file
               THEN SourceGiven => output[m].step.line < output[n].step.line
               ELSE Rank[output[m].file] < Rank[output[n].file]
  BY DEF ReplayInv, OutputInv
<1>2. ASSUME SourceGiven, NEW n \in DOMAIN output
      PROVE  /\ \A i \in Commands(contents[output[n].file]) :
                   Sentence(contents[output[n].file][i])
             /\ stage \in {"files", "exited"} =>
                   LinesWritten(output[n].file) =
                      Commands(contents[output[n].file])
  <2>1. CASE Complete(output[n].file)
    BY <2>1 DEF Complete
  <2>2. CASE stage = "execute" /\ output[n].file = Head(files)
    <3>1. /\ Head(files) \in DOMAIN contents \cup {Directory}
          /\ \A i \in Commands(Lines) : Sentence(Lines[i])
          /\ LinesWritten(Head(files)) \subseteq Commands(Lines)
      BY <1>2, <2>2 DEF ReplayInv, ExecuteInv
    <3>2. output[n].step.line \in LinesWritten(Head(files))
      BY <2>2 DEF LinesWritten, Entries
    <3>3. Head(files) # Directory
      <4>1. Head(files) = Directory => Commands(Lines) = {}
        BY DEF Lines, Commands
      <4> QED BY <3>1, <3>2, <4>1
    <3>4. Lines = contents[output[n].file]
      BY <2>2, <3>3 DEF Lines
    <3> QED BY <2>2, <3>1, <3>4
  <2> QED BY <1>2, <2>1, <2>2 DEF ReplayInv, DoneInv
<1>3. ASSUME exit_status = 0
      PROVE  {output[n].file : n \in DOMAIN output} =
                IF SourceGiven
                THEN {file \in Asked \ {Directory} :
                         Commands(contents[file]) # {}}
                ELSE Asked
  <2>0. /\ files = <<>> /\ stage = "exited" /\ Directory \notin DOMAIN contents
        /\ \A n \in DOMAIN output : output[n].file \in Asked
        /\ IsList(output)
    BY <1>3 DEF ReplayInv, TypeInv, QueueInv
  <2>1. CASE SourceGiven
    <3>1. \A n \in DOMAIN output : Complete(output[n].file)
      BY <2>0, <2>1 DEF ReplayInv, DoneInv
    <3>2. \A file \in Asked \ {Directory} : Complete(file)
      <4>1. ToSet(files) = {}
        BY <2>0 DEF ToSet
      <4> QED BY <1>3, <2>1, <4>1 DEF ReplayInv, DoneInv, Running
    <3>3. \A n \in DOMAIN output :
             /\ output[n].file \in Asked \ {Directory}
             /\ Commands(contents[output[n].file]) # {}
      <4> SUFFICES ASSUME NEW n \in DOMAIN output
                   PROVE  /\ output[n].file \in Asked \ {Directory}
                          /\ Commands(contents[output[n].file]) # {}
        OBVIOUS
      <4>1. /\ output[n].file \in DOMAIN contents
            /\ LinesWritten(output[n].file) = Commands(contents[output[n].file])
        BY <3>1 DEF Complete
      <4>2. output[n].step.line \in LinesWritten(output[n].file)
        BY DEF LinesWritten, Entries
      <4> QED BY <2>0, <4>1, <4>2
    <3>4. \A file \in Asked \ {Directory} :
             Commands(contents[file]) # {} =>
                \E n \in DOMAIN output : output[n].file = file
      <4> SUFFICES ASSUME NEW file \in Asked \ {Directory},
                          Commands(contents[file]) # {}
                   PROVE  \E n \in DOMAIN output : output[n].file = file
        OBVIOUS
      <4>1. LinesWritten(file) # {}
        BY <3>2 DEF Complete
      <4> QED BY <4>1 DEF LinesWritten, Entries
    <3>5. {output[n].file : n \in DOMAIN output} =
             {file \in Asked \ {Directory} : Commands(contents[file]) # {}}
      BY <3>3, <3>4
    <3> QED BY <2>1, <3>5
  <2>2. CASE ~ SourceGiven
    <3>1. Asked = {"demo"}
      BY <2>2 DEF Asked
    <3>2. output # <<>>
      BY <1>3, <2>0, <2>2 DEF ReplayInv, DoneInv, Running
    <3>3. 1 \in DOMAIN output
      BY <2>0, <3>2, ListFacts
    <3>4. {output[n].file : n \in DOMAIN output} = Asked
      BY <2>0, <3>1, <3>3
    <3> QED BY <2>2, <3>4
  <2> QED BY <2>1, <2>2
<1> QED BY <1>1, <1>2, <1>3 DEF WholeFilesOnly

\* run_replay runs a file as a whole or not at all, on a fresh engine, the
\* files by path, for any number of files and lines; status 0 means that all of
\* them were run.
THEOREM ReplaysWholeFiles == Spec => []WholeFilesOnly
BY ReplayInductive, ReplayInvWhole, PTL

=============================================================================
