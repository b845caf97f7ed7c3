------------------------------- MODULE CodeGen --------------------------------
(***************************************************************************)
(* The generator (CodeGen/code_gen.cc): it reads a file with one function  *)
(* declaration a line and writes the protobuf messages, the server's and   *)
(* the client's source.  A declaration is found with two regular           *)
(* expressions, not parsed.                                                *)
(*                                                                         *)
(* A line is a sequence of tokens: words, which are maximal runs of        *)
(* letters, and the other characters but spaces.  Nothing is lost by that: *)
(* two words that follow each other are apart by a space, and spaces make  *)
(* no other difference to the expressions.                                 *)
(***************************************************************************)
EXTENDS Integers, Sequences, FiniteSets

CONSTANTS
  Word,       (* the words that occur, "int" and "long" among them          *)
  Input       (* the files it may be given: the lines after the first,      *)
              (* which names the header                                     *)

ASSUME GeneratorAssumption ==
  /\ Input \subseteq Seq(Seq(STRING))
  /\ Word \intersect {"(", ")", ","} = {}

VARIABLES
  input,      (* the lines of the file                                      *)
  read,       (* how many of them were read                                 *)
  at,         (* where main is                                              *)
  found,      (* the function being read                                    *)
  params,     (* the text between its parentheses that is still to be read  *)
  functions,  (* return_args, names and func_args_list                      *)
  files       (* what was written: the name and the contents                *)

vars == <<input, read, at, found, params, functions, files>>

Nothing == [type |-> "", name |-> "", args |-> <<>>]

Init ==
  /\ input \in Input
  /\ read = 0
  /\ at = "line"
  /\ found = Nothing
  /\ params = <<>>
  /\ functions = <<>>
  /\ files = {}

Line == input[read]

-----------------------------------------------------------------------------
(* parse_func_def                                                          *)

\* Mutant: any two tokens that follow each other.
AnyPairAt(s, i) == {i, i + 1} \subseteq DOMAIN s

PairAt(s, i) == {i, i + 1} \subseteq DOMAIN s /\ {s[i], s[i + 1]} \subseteq Word
Leftmost(S) == CHOOSE i \in S : \A j \in S : i <= j

(* The first expression: two words, a parenthesis, and whatever there is   *)
(* up to the last closing one.                                             *)
Closing(s, i) == {j \in DOMAIN s : j > i + 2 /\ s[j] = ")"}
Heads(s) ==
  {i \in DOMAIN s : PairAt(s, i) /\ i + 2 \in DOMAIN s /\ s[i + 2] = "("
                                 /\ Closing(s, i) # {}}

LastClosing(s, i) == CHOOSE j \in Closing(s, i) : \A k \in Closing(s, i) : k <= j

(* getline; an empty line is passed over.                                  *)
ReadLine ==
  /\ at = "line" /\ read < Len(input)
  /\ read' = read + 1
  /\ at' = IF input[read'] = <<>> THEN "line" ELSE "function"
  /\ UNCHANGED <<input, found, params, functions, files>>

\* Mutant: the list of arguments is not begun anew.
MatchFunctionGoingOn ==
  LET i == Leftmost(Heads(Line))
  IN  /\ at = "function" /\ Heads(Line) # {}
      /\ found' = [found EXCEPT !.type = Line[i], !.name = Line[i + 1]]
      /\ params' = SubSeq(Line, i + 3, LastClosing(Line, i) - 1)
      /\ at' = "args"
      /\ UNCHANGED <<input, read, functions, files>>

MatchFunction ==
  LET i == Leftmost(Heads(Line))
  IN  /\ at = "function" /\ Heads(Line) # {}
      /\ found' = [type |-> Line[i], name |-> Line[i + 1], args |-> <<>>]
      /\ params' = SubSeq(Line, i + 3, LastClosing(Line, i) - 1)
      /\ at' = "args"
      /\ UNCHANGED <<input, read, functions, files>>

\* Mutant: a line that is no declaration is passed over.
SkipError ==
  /\ at = "function" /\ Heads(Line) = {}
  /\ at' = "line"
  /\ UNCHANGED <<input, read, found, params, functions, files>>

(* "find error around": main returns.                                      *)
FindError ==
  /\ at = "function" /\ Heads(Line) = {}
  /\ at' = "error"
  /\ UNCHANGED <<input, read, found, params, functions, files>>

(* The second expression, again and again in what follows its last match.  *)
Pairs == {i \in DOMAIN params : PairAt(params, i)}

\* Mutant: the search goes on behind the first word of the match.
Overlapping(i) == SubSeq(params, i + 1, Len(params))

Suffix(i) == SubSeq(params, i + 2, Len(params))

MatchArgument ==
  LET i == Leftmost(Pairs)
  IN  /\ at = "args" /\ Pairs # {}
      /\ found' = [found EXCEPT !.args = Append(@, <<params[i], params[i + 1]>>)]
      /\ params' = Suffix(i)
      /\ UNCHANGED <<input, read, at, functions, files>>

EndOfArguments ==
  /\ at = "args" /\ Pairs = {}
  /\ functions' = Append(functions, found)
  /\ at' = "line"
  /\ UNCHANGED <<input, read, found, params, files>>

-----------------------------------------------------------------------------
(* The three files.                                                        *)

(* "long long" is two words: no type that was read is called so.           *)
get_proto_type(type) ==
  CASE type \in {"int", "long"} -> "int32"
    [] type = "long long" -> "int64"
    [] OTHER -> type

ArgNames(f) == [i \in DOMAIN f.args |-> f.args[i][2]]

Request(f) == [i \in DOMAIN f.args |-> <<get_proto_type(f.args[i][1]), f.args[i][2]>>]

(* The messages; RPC_SERVERn(result, name, args); and a function of the    *)
(* declared signature around RPC_CLIENTn(result, name, args).              *)
Content(file, f) ==
  CASE file = "proto" ->
         [name |-> f.name, request |-> Request(f), response |-> get_proto_type(f.type)]
    [] file = "server" ->
         [name |-> f.name, macro |-> Len(f.args), args |-> ArgNames(f)]
    [] file = "client" ->
         [type |-> f.type, name |-> f.name, params |-> f.args,
          macro |-> Len(f.args), args |-> ArgNames(f)]

Written(file) ==
  <<file, [i \in DOMAIN functions |-> Content(file, functions[i])]>>

(* A file that cannot be opened is passed over in silence.                 *)
Write(from, file, to) ==
  /\ at = from /\ at' = to
  /\ files' \in {files, files \union {Written(file)}}
  /\ UNCHANGED <<input, read, found, params, functions>>

EndOfFile ==
  /\ at = "line" /\ read = Len(input)
  /\ at' = "proto"
  /\ UNCHANGED <<input, read, found, params, functions, files>>

Next ==
  \/ ReadLine \/ MatchFunction \/ FindError \/ MatchArgument \/ EndOfArguments
  \/ EndOfFile
  \/ Write("proto", "proto", "server")
  \/ Write("server", "server", "client")
  \/ Write("client", "client", "done")

Spec == Init /\ [][Next]_vars

-----------------------------------------------------------------------------
Function == [type : Word, name : Word, args : Seq(Word \X Word)]

TypeOK ==
  /\ read \in 0..Len(input)
  /\ at \in {"line", "function", "args", "proto", "server", "client", "done", "error"}
  /\ (found = Nothing \/ found \in Function)
  /\ functions \in Seq(Function)
  /\ {w[1] : w \in files} \subseteq {"proto", "server", "client"}

(* The k-th member of a finite set of numbers.                             *)
Rank(S, i) == Cardinality({j \in S : j <= i})
Nth(S, k) == CHOOSE i \in S : Rank(S, i) = k

(* The lines that were read and are not empty.                             *)
Kept == {i \in 1..read : input[i] # <<>>}
Lines == [k \in 1..Cardinality(Kept) |-> input[Nth(Kept, k)]]
Read == at \notin {"function", "args", "error"}

(* The line is a declaration of a function of n parameters, all its types  *)
(* and names single words, that begins at its a-th token: storage classes  *)
(* may stand before it, and behind it anything that closes no parenthesis. *)
Declares(line, a, n) ==
  /\ \A k \in 1..(a - 1) : line[k] \in Word
  /\ PairAt(line, a) /\ a + 3 * n + 2 <= Len(line)
  /\ line[a + 2] = "("
  /\ \A k \in 1..n : /\ PairAt(line, a + 3 * k)
                     /\ line[a + 3 * k + 2] = IF k < n THEN "," ELSE ")"
  /\ LET last == IF n = 0 THEN a + 3 ELSE a + 3 * n + 2
     IN  last \in DOMAIN line /\ \A k \in DOMAIN line : (line[k] = ")" => k <= last)
                             /\ line[last] = ")"

DeclaredBy(line, a, n) ==
  [type |-> line[a], name |-> line[a + 1],
   args |-> [k \in 1..n |-> <<line[a + 3 * k], line[a + 3 * k + 1]>>]]

(* What the generator is for: of a line that is a declaration it reads the *)
(* return type, the name, and every parameter with its type, in order, and *)
(* what it read of one line does not depend on the lines before.           *)
ReadAsDeclared ==
  Read => \A k \in DOMAIN Lines : \A a, n \in 0..Len(Lines[k]) :
    a > 0 /\ Declares(Lines[k], a, n) => functions[k] = DeclaredBy(Lines[k], a, n)

(* Of any line that it accepts, it takes the words between the parentheses *)
(* in twos, from the left of each run of words: "unsigned int a" is an int *)
(* of the type unsigned, "int f(int)" has no parameter, and no two words   *)
(* with a mark between them make one.                                      *)
WordsBefore(s, i) == {j \in 1..(i - 1) : \A k \in j..(i - 1) : s[k] \in Word}

Starts(s) ==
  {i \in DOMAIN s : PairAt(s, i) /\ Cardinality(WordsBefore(s, i)) % 2 = 0}

PairsIn(s) ==
  [k \in 1..Cardinality(Starts(s)) |->
     <<s[Nth(Starts(s), k)], s[Nth(Starts(s), k) + 1]>>]

Between(line) ==
  SubSeq(line, Leftmost(Heads(line)) + 3, LastClosing(line, Leftmost(Heads(line))) - 1)

PairsOf(line) == PairsIn(Between(line))

ArgumentsArePairs ==
  Read => \A k \in DOMAIN Lines : functions[k].args = PairsOf(Lines[k])

(* A file is generated whole or not at all: there is one function for each *)
(* line that is not empty, a line that is none leaves nothing written, and *)
(* those of the three files that were written speak of the same functions  *)
(* with the same numbers of arguments.                                     *)
OneFunctionALine ==
  files # {} =>
    /\ read = Len(input)
    /\ \A w \in files :
         /\ Len(w[2]) = Len(Lines)
         /\ \A k \in DOMAIN Lines :
              /\ Heads(Lines[k]) # {} /\ w[2][k].name = functions[k].name
              /\ Len(IF w[1] = "proto" THEN w[2][k].request ELSE w[2][k].args)
                   = Len(PairsOf(Lines[k]))
=============================================================================
