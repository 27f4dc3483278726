--------------------------- MODULE MCFilterSystem ---------------------------
(* Small instances of FilterSystem. *)
EXTENDS FilterSystem

CONSTANTS f, g, h, a, b

AllLogs == [fromBlock |-> Latest, toBlock |-> Latest, addresses |-> {}, topics |-> <<>>]

\* f wants the logs of one contract from the first block on, g all logs.
MCCritOf == [id \in {f, g} |->
               IF id = f THEN [AllLogs EXCEPT !.fromBlock = 1, !.addresses = {a}] ELSE AllLogs]

MCTyp == [id \in Ids |-> IF id = h THEN "blocks" ELSE "logs"]

Log(addr) == [address |-> addr, topics |-> <<>>]

MCBlockLogs == {<<>>, <<Log(b)>>, <<Log(b), Log(a)>>}

=============================================================================
