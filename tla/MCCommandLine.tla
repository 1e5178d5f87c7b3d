--------------------------- MODULE MCCommandLine ---------------------------
(* Small instances of CommandLine: both programs and commands with every     *)
(* option.  The ids are scaled down: LastSff is 7 and LastEff 31.            *)
EXTENDS CommandLine

MCWord(number, leading, digits, prefixes, junk) ==
    [number |-> number, leading |-> leading, digits |-> digits, prefixes |-> prefixes,
     junk |-> junk]

Number(n, digits) == MCWord(n, n, digits, 0, FALSE)

\* Standard and extended ids, 0 and one beyond; "-2"; "1_4", which Python reads as 20;
\* no number, wholly ("zz") and after a beginning ("5zz").
Ids ==
    {Number(0, 1), Number(5, 3), Number(20, 4), Number(40, 8),
     MCWord(-2, 62, 1, 0, FALSE), MCWord(20, 1, 2, 0, TRUE),
     MCWord(Nothing, 0, 0, 0, TRUE), MCWord(Nothing, 5, 1, 0, TRUE)}

\* No digit, 1, 2 and 3 of them, and the first with "0x"; 8, 9, 64, 65 and 256 bytes.
Data ==
    {MCWord(Nothing, 0, 0, 0, FALSE), Number(3, 1), Number(5, 2), Number(20, 3),
     MCWord(5, 5, 2, 1, FALSE), MCWord(Nothing, 5, 2, 0, TRUE)}
    \cup {Number(63, 2 * bytes) : bytes \in {8, 9, 64, 65, 256}}

MCWords == {<<>>} \cup {<<id>> : id \in Ids} \cup {<<id, data>> : id \in Ids, data \in Data}

Sending ==
    [python : BOOLEAN, monitor : {FALSE}, classic : BOOLEAN, trigger : {FALSE},
     repeat : {FALSE}, show_echo : {FALSE}, filter : {FALSE}, count : {0}, words : MCWords]

\* What is typed only matters with --trigger, so that few pairs do for the loop.
Monitoring ==
    [python : BOOLEAN, monitor : {TRUE}, classic : {FALSE}, trigger : BOOLEAN,
     repeat : BOOLEAN, show_echo : BOOLEAN, filter : BOOLEAN, count : {0, 2},
     words : {<<Number(0, 1), Number(5, 2)>>, <<Number(20, 4), Number(63, 130)>>,
              <<MCWord(Nothing, 5, 1, 0, TRUE), Number(20, 3)>>}]

MCInvocations == Sending \cup Monitoring
=============================================================================
