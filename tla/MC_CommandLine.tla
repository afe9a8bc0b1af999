--------------------------- MODULE MC_CommandLine ---------------------------
(* Every command line of up to four words over the options, a file and two *)
(* numbers, one of them with a plus; and longer ones whose -r fill the two *)
(* entries of vm_processes that MC_CommandLine.cfg allows.                 *)
EXTENDS CommandLine

MCWords == Options \cup {"a.c", "9", "+1"}
\* my_atoi subtracts '0' from every character, a sign or a letter too.
MCValue == [w \in MCWords |->
  CASE w = "9" -> 9 [] w = "+1" -> -49 [] w = "a.c" -> 4931
    [] w = "--" -> -33 [] w = "-?" -> -15 [] w = "-h" -> 26 [] w = "-L" -> -2 [] w = "-M" -> -1
    [] w = "-X" -> 10 [] w = "-c" -> 21 [] w = "-d" -> 22 [] w = "-p" -> 34 [] w = "-r" -> 36
    [] w = "-s" -> 37 [] w = "-v" -> 40]
MCAdded == [w \in {"+1"} |-> 1]

ShortLines == BoundedSeq(MCWords, 3)
FullLines == {<<"-r", "a.c", "9", "-r", "a.c", "9">> \o l : l \in BoundedSeq(MCWords, 2)}
MCLines == BoundedSeq(MCWords, 4) \cup FullLines

=============================================================================
