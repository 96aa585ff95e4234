--------------------------- MODULE MCQuicSession ---------------------------
(***************************************************************************)
(* TLC instance of QuicSession: "b" is short, "a" meets the receiver's     *)
(* limit exactly, "mid" meets the sender's and exceeds the receiver's,     *)
(* "long" exceeds both; the window is smaller than a batch.                *)
(***************************************************************************)
EXTENDS QuicSession

MCMessages == {"a", "b", "mid", "long"}
MCBodyOf == [m \in MCMessages |->
               CASE m = "a" -> <<Brace, 1>>
                 [] m = "b" -> <<Brace>>
                 [] m = "mid" -> <<Brace, 2, 3>>
                 [] m = "long" -> <<Brace, 2, 3, 4>>]

Single(m) == [kind |-> "single", messages |-> <<m>>]
Batch(ms) == [kind |-> "batch", messages |-> ms]

Work(jobs, kinds) == [send |-> jobs, recv |-> kinds]

(* Matching and crossed receivers, a batch cut by a message too long, an    *)
(* empty batch, a single refused by its sender, one refused by its receiver *)
MCWorkloads ==
    {Work(<<Single("a"), Batch(<<"b", "a">>)>>, <<"single", "batch">>),
     Work(<<Batch(<<"a", "long", "b">>), Batch(<< >>)>>, <<"batch", "batch">>),
     Work(<<Single("long"), Batch(<<"b", "b">>)>>, <<"batch", "single">>),
     Work(<<Batch(<< >>), Single("b")>>, <<"single", "batch">>),
     Work(<<Single("mid"), Batch(<<"b", "mid">>)>>, <<"single", "batch">>)}
=============================================================================
