------------------------------ MODULE MCReplay ------------------------------
(***************************************************************************)
(* Inputs of Replay: lines one token away from a sentence of the format,   *)
(* one to a file; files of up to three lines; directories of two files;    *)
(* and command lines.                                                      *)
(***************************************************************************)
EXTENDS Replay

MCValue == "0" :> 0 @@ "1" :> 1 @@ "2" :> 2
MCRank == "a.txt" :> 1 @@ "b.txt" :> 2

Words == {"submit", "update", "cancel", "snapshot", "limit", "market", "buy",
          "sell", "0", "1", "2", "-1", "ETH", "BTC"}

Sell == <<"submit", "limit", "1", "2", "ETH", "sell", "2", "1">>
Buy == <<"submit", "market", "2", "1", "BTC", "buy", "1">>
Grow == <<"update", "limit", "1", "2", "1", "2">>
Drop == <<"cancel", "1", "2">>
Show == <<"snapshot", "ETH", "0">>
ShowOther == <<"snapshot", "buy", "1">>
Bad == <<"snapshot", "SOL">>

\* One token replaced, removed or added.
Edited(line) ==
    {ReplaceAt(line, i, word) : i \in DOMAIN line, word \in Words}
    \cup {RemoveAt(line, i) : i \in DOMAIN line}
    \cup {InsertAt(line, i, "1") : i \in 1 .. Len(line) + 1}

OneLine == {<<line>> : line \in UNION {Edited(line) :
                                    line \in {Sell, Buy, Grow, Drop, Show}}}

Some == {Sell, Buy, Grow, Drop, ShowOther, <<>>, Bad}
Few == {Show, Drop, <<>>, Bad}
UpTo3 == UNION {[1 .. n -> Some] : n \in 0 .. 3}
UpTo2 == UNION {[1 .. n -> Few] : n \in 0 .. 2}

ReadA == <<"--file", "a.txt", "--format", "jsonl">>
Both(a, b) == "a.txt" :> a @@ "b.txt" :> b @@ "c.md" :> <<Bad>>

MCInputs ==
    {[args |-> ReadA, contents |-> Both(a, <<>>)] : a \in OneLine \cup UpTo3}
    \cup
    {[args |-> <<"--format", "text", "--directory", "dir">>,
      contents |-> Both(a, b)] : a \in UpTo2, b \in UpTo2}
    \cup
    {[args |-> arguments, contents |-> Both(<<Show>>, <<Drop>>)] :
        arguments \in
            UNION {[1 .. n -> {"--file", "--directory", "--format", "text",
                               "a.txt", "dir", ""}] : n \in 0 .. 4}}
=============================================================================
