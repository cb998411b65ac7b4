------------------------------ MODULE Scenario ------------------------------
(***************************************************************************)
(* The scenario parser of the market replay (scenario_parser.cpp), line by *)
(* line, as operators.  A line is the sequence of its tokens, without its  *)
(* comment; the characters of a token matter only in that some tokens are  *)
(* the keywords of the format and some denote a std::uint64_t.             *)
(***************************************************************************)
EXTENDS Integers, SequencesExt

CONSTANTS
    Value,          \* the number each numeric token denotes, by token
    SymbolIdValues  \* number of values of a symbol id (2^32)

ASSUME ScenarioAssumption ==
    /\ \A token \in DOMAIN Value : Value[token] \in Nat
    /\ SymbolIdValues \in Nat \ {0, 1}

-----------------------------------------------------------------------------
(* parse_command, parse_submit, parse_update, parse_cancel, parse_snapshot *)

NoError == <<"ok", "">>

\* The tokens that are read after the command, in the order of reading.  The
\* pricing is read first and only looked at when all but price and size have
\* been read.
fields(line) ==
    LET pricing == IF Len(line) > 1 THEN line[2] ELSE ""
    IN  CASE line[1] = "submit" /\ pricing = "limit" ->
                <<"pricing", "user", "client_order", "instrument", "side",
                  "limit_price", "size">>
          [] line[1] = "submit" /\ pricing = "market" ->
                <<"pricing", "user", "client_order", "instrument", "side",
                  "size">>
          [] line[1] = "submit" /\ pricing \notin {"limit", "market"} ->
                <<"pricing", "user", "client_order", "instrument", "side">>
          [] line[1] = "update" /\ pricing = "limit" ->
                <<"pricing", "user", "client_order", "limit_price", "size">>
          [] line[1] = "update" /\ pricing # "limit" ->
                <<"pricing", "user", "client_order">>
          [] line[1] = "cancel" -> <<"user", "client_order">>
          [] line[1] = "snapshot" -> <<"instrument", "depth">>
          [] OTHER -> <<>>

\* read_token, then parse_side, parse_uint64, parse_positive_uint64 or
\* parse_size (std::size_t has 64 bits).
field_error(line, i) ==
    LET field == fields(line)[i]
        token == line[i + 1]
        number == field \notin {"pricing", "instrument", "side"}
    IN  IF i + 1 > Len(line) THEN <<"missing", field>>
        ELSE IF field = "side" /\ token \notin {"buy", "sell"}
             THEN <<"expected", "side">>
        ELSE IF number /\ token \notin DOMAIN Value THEN <<"expected", field>>
        ELSE IF field \in {"limit_price", "size"} /\ Value[token] = 0
             THEN <<"positive", field>>
        ELSE NoError

\* The error that ends the parsing of a line, or NoError.
parse_error(line) ==
    LET wrong == {i \in DOMAIN fields(line) : field_error(line, i) # NoError}
    IN  IF line[1] \notin {"submit", "update", "cancel", "snapshot"}
        THEN <<"expected", "command">>
        ELSE IF wrong # {} THEN field_error(line, Min(wrong))
        ELSE IF \/ line[1] = "submit" /\ line[2] \notin {"limit", "market"}
                \/ line[1] = "update" /\ line[2] # "limit"
             THEN <<"expected", "pricing">>
        ELSE IF Len(line) > Len(fields(line)) + 1 THEN <<"unexpected", "">>
        ELSE NoError

\* The token that was read for a field.
TokenOf(line, field) ==
    line[1 + CHOOSE i \in DOMAIN fields(line) : fields(line)[i] = field]

\* The command a line stands for, with the symbol id of its instrument, if it
\* has one.
make_command(line, id) ==
    [kind |-> line[1], instrument |-> id,
     arguments |-> [field \in ToSet(fields(line)) \ {"instrument"} |->
                       IF field \in {"pricing", "side"}
                       THEN TokenOf(line, field)
                       ELSE Value[TokenOf(line, field)]]]

-----------------------------------------------------------------------------
(* symbol_table                                                            *)

NoSymbol == 0
HasInstrument(line) == line[1] \in {"submit", "snapshot"}

emplace(ids, name, id) ==
    [known \in DOMAIN ids \cup {name} |->
        IF known = name THEN id ELSE ids[known]]

\* Mutant: the counter is advanced for a name that is known, too.
intern_recounts(ids, next_id, name) ==
    LET id == IF name \in DOMAIN ids THEN ids[name] ELSE next_id
    IN  [id |-> id, ids |-> emplace(ids, name, id),
         next_id |-> (next_id + 1) % SymbolIdValues]

\* The id of a name, and the table after it: a new name gets the next id.  The
\* counter wraps to 0 after the largest id.
intern(ids, next_id, name) ==
    IF name \in DOMAIN ids
    THEN [id |-> ids[name], ids |-> ids, next_id |-> next_id]
    ELSE [id |-> next_id, ids |-> emplace(ids, name, next_id),
          next_id |-> (next_id + 1) % SymbolIdValues]

\* intern throws: the ids are used up.
intern_throws(ids, next_id, name) == name \notin DOMAIN ids /\ next_id = 0

-----------------------------------------------------------------------------
(* The format as README.md gives it.                                       *)

Grammar ==
    {<<"submit", "limit", "<user>", "<client_order>", "<instrument>",
       "<buy|sell>", "<price>", "<size>">>,
     <<"submit", "market", "<user>", "<client_order>", "<instrument>",
       "<buy|sell>", "<size>">>,
     <<"update", "limit", "<user>", "<client_order>", "<price>", "<size>">>,
     <<"cancel", "<user>", "<client_order>">>,
     <<"snapshot", "<instrument>", "<depth>">>}

\* A token stands where the format has that word.
Fits(token, word) ==
    CASE word \in {"<user>", "<client_order>", "<depth>"} ->
            token \in DOMAIN Value
      [] word \in {"<price>", "<size>"} ->
            token \in DOMAIN Value /\ Value[token] > 0
      [] word = "<buy|sell>" -> token \in {"buy", "sell"}
      [] word = "<instrument>" -> TRUE
      [] OTHER -> token = word

Derives(sentence, line) ==
    /\ Len(line) = Len(sentence)
    /\ \A i \in DOMAIN line : Fits(line[i], sentence[i])

Sentence(line) == \E sentence \in Grammar : Derives(sentence, line)

=============================================================================
