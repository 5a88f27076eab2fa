------------------------------ MODULE MCPrograms ------------------------------
(* Command lines made of a few blocks each, for a machine with 7-bit ints. *)
EXTENDS Programs

Numeral(chars) == Number("", chars)

ServiceBlocks ==
  {<<Name("--n_sms"), Numeral(<<n>>)>> : n \in {0, 1, 2}} \union
  {<<Name("--sms_size"), Numeral(<<n>>)>> : n \in {1, 2, 3, 4}} \union
  {<<Name("--n_sms")>>, <<Name("--sms_size")>>,
   <<Name("--n_sms"), Numeral(<<Minus, 1>>)>>,             \* -1
   <<Name("--sms_size"), Numeral(<<Minus, 0, 1>>)>>,       \* -01
   <<Assigned("--sms_size", Number("0x", <<4>>))>>,
   <<Name("--sms_size"), Number("0b", <<1, 0>>)>>,
   <<Name("--sms_size"), Numeral(<<0, 4>>)>>,
   <<Name("--sms_size"), Numeral(<<0, 8>>)>>,
   <<Assigned("--sms_size", Numeral(<<6, 4>>))>>,          \* more than an int
   <<Name("--n_sms"), Numeral(<<1, Other>>)>>,
   <<Name("--n_sms"), Numeral(<<Minus>>)>>,                \* -
   <<Name("--n_sms"), Numeral(<<Minus, 1, 14, Plus, 0>>)>>, \* -1e+0
   <<Name("--n_sms"), Number("0x", <<Minus, 5>>)>>,         \* 0x-5
   <<Assigned("--n_sms", Numeral(<<Minus, Point, 1>>))>>,   \* -.1
   <<Name("--scheduler")>>, <<Name("--scheduler"), Text("CREDIT")>>,
   <<Name("--scheduler"), Text("FIFO")>>,
   <<Letters(<<"h", "x">>)>>, <<Letters(<<"x", "h">>)>>, <<Assigned("--x", Text("y"))>>,
   <<Assigned("--scheduler", Letters(<<"v">>))>>}

AppBlocks ==
  {<<Name("--state"), Text("SYNC")>>, <<Assigned("--state", Text("ASYNC"))>>,
   <<Name("--state"), Text("BOTH")>>,
   <<Name("--file"), Text("a")>>, <<Name("--file")>>, <<Assigned("--files", Text(""))>>,
   <<Name("--priority"), Numeral(<<6, 3>>)>>, <<Name("--priority"), Text("low")>>,
   <<Name("--log"), Numeral(<<7>>)>>, <<Name("--version")>>, <<Assigned("--help", Text(""))>>,
   <<Text("b")>>}

Lines(blocks, n) == UNION {{FlattenSeq(s) : s \in [1..k -> blocks]} : k \in 0..n}

MCServiceCommands == Lines(ServiceBlocks, 3)
MCAppCommands == Lines(AppBlocks, 4)
===============================================================================
