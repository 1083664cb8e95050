----------------------------- MODULE CommandLine -----------------------------
(***************************************************************************)
(* parse_cli of shared/CliOptions.hpp.  A command line is a sequence of    *)
(* arguments [flag, value], value being the sequence of what follows the   *)
(* flag: empty where nothing does.  Names are strings, numbers integers; a *)
(* number that cannot be read ends the process just as one out of range.   *)
(***************************************************************************)
EXTENDS Integers, Sequences, SequencesExt

MAX_ROBOTS    == 20
MAX_GAME_SIZE == 11

CliOptions ==
  [headless |-> FALSE, field |-> "", game |-> 0, on_field_positions |-> FALSE,
   keyframe |-> "", rtf |-> -1, robots |-> 1, robots_given |-> FALSE, exit |-> FALSE]

exit(opts) == [opts EXCEPT !.exit = TRUE]

\* Numbers outside first .. last end the process.
within(opts, v, first, last) == [opts EXCEPT !.exit = @ \/ v \notin first .. last]

\* The flags that take a value.
read_value(opts, flag, v) ==
  CASE flag = "--field"    -> [opts EXCEPT !.field = v]
    [] flag = "--keyframe" -> [opts EXCEPT !.keyframe = v]
    [] flag = "--rtf"      -> [opts EXCEPT !.rtf = v]
    [] flag = "--game"     -> within([opts EXCEPT !.game = v], v, 1, MAX_GAME_SIZE)
    [] flag = "--robots"   ->
         within([opts EXCEPT !.robots = v, !.robots_given = TRUE], v, 1, MAX_ROBOTS)

\* One turn of the loop: the argument, with its value if it takes one.  Once the
\* process has ended, what would have been read no longer matters.
read(opts, arg) ==
  CASE arg.flag = "--headless"           -> [opts EXCEPT !.headless = TRUE]
    [] arg.flag = "--on-field-positions" -> [opts EXCEPT !.on_field_positions = TRUE]
    [] arg.flag \in {"--field", "--game", "--keyframe", "--rtf", "--robots"} ->
         IF arg.value = <<>> THEN exit(opts)
         ELSE read_value(opts, arg.flag, Head(arg.value))
    [] OTHER -> exit(opts)                      \* --help, -h and what is unknown

\* --game sets the field and the robots itself; --on-field-positions needs it.
Conflict(opts) ==
  \/ opts.game > 0 /\ (opts.field # "" \/ opts.robots_given)
  \/ opts.on_field_positions /\ opts.game = 0

parse_cli(args) ==
  LET opts == FoldLeft(read, CliOptions, args)
  IN  [opts EXCEPT !.exit = @ \/ Conflict(opts)]
=============================================================================
