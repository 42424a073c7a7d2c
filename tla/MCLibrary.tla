----------------------------- MODULE MCLibrary ------------------------------
(***************************************************************************)
(* The parts of compat/compat.c that other code calls for an answer, and the *)
(* pointers of the runtime: one of them is at work in a behaviour, and the   *)
(* others rest.                                                             *)
(***************************************************************************)
EXTENDS SoftFloat, Strings, Console, Pointers

-----------------------------------------------------------------------------
(* Numbers: every sign and exponent; mantissas of all zeros, all ones, one bit at *)
(* either end, and mixed.                                                         *)
SomeDoubles == [s : {0, 1}, e : 0 .. MaxExp, m : {0, 1, 16, 21, 31}]

-----------------------------------------------------------------------------
(* Calls of the memory and string functions, in eight bytes *)

Cells == 1 .. 8
Numbered == [a \in Cells |-> a]

\* Two strings, at 1 and at 6, of characters on either side of a signed char.
Texts == {m \in [Cells -> {0, 1, 200}] : m[5] = 0 /\ m[8] = 0}

Moves == [fn : {"memset", "memcpy", "memmove"}, d : Cells, s : Cells, n : 0 .. 4,
          c : {200}, mem : {Numbered}]
Pairs ==
  [fn : {"memcmp", "strncmp"}, d : {1}, s : {1, 6}, n : 0 .. 3, c : {0}, mem : Texts]
    \union [fn : {"strcmp", "strcat", "strcpy", "strstr"}, d : {1}, s : {1, 6}, n : {0},
            c : {0}, mem : Texts]
Singles ==
  [fn : {"strlen", "strdup"}, d : {1}, s : {0}, n : {0}, c : {0}, mem : Texts]
    \union [fn : {"strchr"}, d : {1}, s : {0}, n : {0}, c : {0, 1, 200}, mem : Texts]
SomeCalls == {r \in Moves \union Pairs \union Singles : Proper(r)}

-----------------------------------------------------------------------------
(* Calls of the console *)

Part(c, a) == [conv |-> c, arg |-> a]
Job(fn, uart, parts, n, keys) ==
  [fn |-> fn, uart |-> uart, parts |-> parts, size |-> n, typed |-> keys]
Uarts == {"16550", "pl011", "none"}

\* One and two parts of every kind, in buffers too small and large enough.
SomeParts ==
  {Part("plain", 65), Part("plain", LF), Part("d", -12), Part("s", NoString),
   Part("s", <<66, LF>>), Part("c", 67), Part("percent", 0), Part("other", 0)}
Formats == {<<p>> : p \in SomeParts} \union {<<p, q>> : p, q \in SomeParts}
FormatJobs ==
  {Job(fn, u, f, n, <<>>) : fn \in {"printf", "exit", "snprintf"}, u \in Uarts,
                            f \in Formats, n \in {1, 3, 12}}

\* Every int, in decimal and hexadecimal.
NumberJobs ==
  {Job("snprintf", "none", <<Part(c, v)>>, n, <<>>) :
     c \in {"d", "x"}, v \in Numbers, n \in {1, 3, 8}}

PlainText == <<Part("plain", 65), Part("plain", LF), Part("plain", 66)>>
PrintJobs ==
  {Job(fn, u, PlainText, 0, <<>>) : fn \in {"fputs", "abort", "longjmp"}, u \in Uarts}
    \union {Job("fputc", u, <<Part("plain", LF)>>, 0, <<>>) : u \in Uarts}

\* A letter, both keys that erase, and the end of the line, in any order.
Keys == {97, BS, DEL, CR}
Typings ==
  {<<97, 98, BS, 99, LF>>, <<97, BS, BS, 98, LF, 99>>}
    \union UNION {[1 .. n -> Keys] : n \in 0 .. 3}
LineJobs == {Job("fgets", u, <<>>, n, t) : u \in Uarts, n \in {0, 1, 2, 4}, t \in Typings}

SomeJobs == NumberJobs \union FormatJobs \union PrintJobs \union LineJobs

-----------------------------------------------------------------------------
(* One part at work *)

VARIABLE part

libraryVars == <<part, vars, stringsVars, consoleVars, pointersVars>>

\* The parts that rest are in one of their initial states: a line of no length is
\* returned at once.
Resting ==
  /\ part # "strings" => call = CHOOSE r \in Requests : TRUE
  /\ part # "console" => job = Job("fgets", "none", <<>>, 0, <<>>)

LibraryInit ==
  /\ part \in {"numbers", "strings", "console", "pointers"}
  /\ Resting
  /\ Init /\ PointersInit /\ ConsoleInit /\ StringsInit

LibraryNext ==
  /\ UNCHANGED part
  /\ \/ /\ part = "numbers" /\ Next
        /\ UNCHANGED <<stringsVars, consoleVars, pointersVars>>
     \/ /\ part = "strings" /\ StringsNext
        /\ UNCHANGED <<vars, consoleVars, pointersVars>>
     \/ /\ part = "console" /\ ConsoleNext
        /\ UNCHANGED <<vars, stringsVars, pointersVars>>
     \/ /\ part = "pointers" /\ PointersNext
        /\ UNCHANGED <<vars, stringsVars, consoleVars>>

\* A console at rest has nothing to do, so its fairness is asked of it alone.
LibrarySpec == LibraryInit /\ [][LibraryNext]_libraryVars /\ ConsoleFairness

\* Type correctness of the part at work.
TypesOK ==
  /\ TypeOK
  /\ part = "strings" => StringsTypeOK
  /\ ConsoleTypeOK
  /\ part = "pointers" => PointersTypeOK
=============================================================================
