---------------------------- MODULE MacroExpand ----------------------------
(***************************************************************************)
(* Macro expansion of preprocess.c: expand_macro, subst, read_macro_args,  *)
(* hide sets, and the operators # and ##.                                  *)
(*                                                                         *)
(* preprocess2 replaces tokens in place and subst calls it for every       *)
(* macro argument.  The activations of both are on a stack; a step is one  *)
(* turn of the innermost activation's loop.  Tokens have a location in the *)
(* source file, because # copies characters from there.                    *)
(***************************************************************************)
EXTENDS Naturals, SequencesExt

CONSTANT Programs  \* records [defs, text]: #define lines, and what follows them

VARIABLES
  program,  \* the source file
  stack,    \* activations of preprocess2 ("scan") and subst, innermost last
  status    \* "run", "done", "error", "undefined"

vars == <<program, stack, status>>
-----------------------------------------------------------------------------
(* The source file.  A definition has a name, is_objlike, params,          *)
(* is_variadic and a body; text and body are sequences of tokens, white    *)
(* space and comments.  A token is one character of the file, but a        *)
(* literal has white space within.                                         *)

Skipped == {" ", "/**/", "/* */"}
Spelling(w) ==
  CASE w = "'1 2'" -> <<"'1", " ", "2'">>
    [] w = "/* */" -> <<"/*", " ", "*/">>
    [] OTHER -> <<w>>
Spelled(ws) == FlattenSeq([j \in DOMAIN ws |-> Spelling(ws[j])])

Defs == program.defs
Lines(n) == FlattenSeq([i \in 1 .. n |-> <<"#define">> \o Spelled(Defs[i].body) \o <<"\n">>])
File == Lines(Len(Defs)) \o Spelled(program.text)
IsSpace(loc) == File[loc] \in {" ", "\n"}

BodyStart(i) == Len(Lines(i - 1)) + 2
TextStart == Len(Lines(Len(Defs))) + 1

\* Tokens that tokenize() makes of a buffer of their own have location 0.
Heap == 0
Token(text, loc) == [t |-> text, s |-> <<>>, actual |-> <<>>, loc |-> loc, hideset |-> {}]
TokensFrom(ws, start) ==
  SelectSeq([j \in DOMAIN ws |-> Token(ws[j], start + Len(Spelled(SubSeq(ws, 1, j - 1))))],
            LAMBDA tok : tok.t \notin Skipped)

Texts(ts) == [j \in DOMAIN ts |-> ts[j].t]
Unpasted == {"(", ")", ",", "#", "##", "str", "'1 2'"}
Digits == {"1", "2", "3"}

MacroIndex(name) == {i \in DOMAIN Defs : Defs[i].name = name}
IsMacro(name) == MacroIndex(name) # {}
find_macro(name) == CHOOSE i \in MacroIndex(name) : TRUE
Body(i) == TokensFrom(Defs[i].body, BodyStart(i))

add_hideset(ts, hs) == [j \in DOMAIN ts |-> [ts[j] EXCEPT !.hideset = @ \cup hs]]
-----------------------------------------------------------------------------
(* Arguments, read from the tokens behind the opening parenthesis.  An     *)
(* argument is its tokens and the location of the TK_EOF that ends it.     *)

Depth(ts, n) ==
  Len(SelectSeq(SubSeq(Texts(ts), 1, n), LAMBDA t : t = "("))
    - Len(SelectSeq(SubSeq(Texts(ts), 1, n), LAMBDA t : t = ")"))

Closings(ts) ==
  {n \in DOMAIN ts : ts[n].t = ")" /\ Depth(ts, n - 1) = 0 /\
                     \A k \in 1 .. n - 1 : ~(ts[k].t = ")" /\ Depth(ts, k - 1) = 0)}
Closing(ts) == CHOOSE n \in Closings(ts) : TRUE
Commas(ts) == {n \in 1 .. Closing(ts) - 1 : ts[n].t = "," /\ Depth(ts, n - 1) = 0}

Params(i) == Defs[i].params \o IF Defs[i].is_variadic THEN <<"__VA_ARGS__">> ELSE <<>>

\* A variadic macro takes the commas behind its last named parameter's as text.
ArgsFit(ts, i) ==
  /\ Closings(ts) # {}
  /\ LET n == Len(Defs[i].params)
         commas == Cardinality(Commas(ts))
     IN  CASE Defs[i].is_variadic -> commas >= n
           [] ~Defs[i].is_variadic /\ n > 0 -> commas = n - 1
           [] OTHER -> Closing(ts) = 1

read_macro_args(ts, i) ==
  LET n == Len(Params(i))
      cuts == <<0>> \o SubSeq(SetToSortSeq(Commas(ts), <), 1, n - 1) \o <<Closing(ts)>>
  IN  [k \in 1 .. n |-> [toks |-> SubSeq(ts, cuts[k] + 1, cuts[k + 1] - 1),
                         eof |-> ts[cuts[k + 1]].loc]]

IsParam(i, text) == \E k \in DOMAIN Params(i) : Params(i)[k] = text
find_arg(i, text) == CHOOSE k \in DOMAIN Params(i) : Params(i)[k] = text
-----------------------------------------------------------------------------
Init ==
  /\ program \in Programs
  /\ stack = << [kind |-> "scan", in |-> TokensFrom(program.text, TextStart), out |-> <<>>] >>
  /\ status = "run"

Frame == stack[Len(stack)]
Below == Front(stack)
SetFrame(f) == stack' = Append(Below, f) /\ UNCHANGED <<program, status>>
Stop(s) == status' = s /\ UNCHANGED <<program, stack>>

(* The loop of preprocess2.                                                *)

Scanning == status = "run" /\ Frame.kind = "scan" /\ Frame.in # <<>>
Tok == Head(Frame.in)
Expandable == IsMacro(Tok.t) /\ Tok.t \notin Tok.hideset
Called == Len(Frame.in) > 1 /\ Frame.in[2].t = "("

\* Mutant: a function-like macro's name that is not called is not passed over.
ScanTokenNotAName ==
  /\ Scanning /\ ~Expandable
  /\ SetFrame([Frame EXCEPT !.in = Tail(@), !.out = Append(@, Tok)])

ScanToken ==
  /\ Scanning
  /\ Expandable => ~Defs[find_macro(Tok.t)].is_objlike /\ ~Called
  /\ SetFrame([Frame EXCEPT !.in = Tail(@), !.out = Append(@, Tok)])

ExpandObject ==
  /\ Scanning /\ Expandable
  /\ LET m == find_macro(Tok.t)
     IN  /\ Defs[m].is_objlike
         /\ SetFrame([Frame EXCEPT
               !.in = add_hideset(Body(m), Tok.hideset \cup {Tok.t}) \o Tail(@)])

\* Mutant: the hide set is that of the macro name alone.
CallHidesetName(name, rparen) == name.hideset \cup {name.t}

CallHideset(name, rparen) == (name.hideset \cap rparen.hideset) \cup {name.t}

\* subst starts.  The tokens behind the call wait in rest.
ExpandFunction ==
  /\ Scanning /\ Expandable /\ Called
  /\ LET m == find_macro(Tok.t)
         ts == SubSeq(Frame.in, 3, Len(Frame.in))
     IN  /\ ~Defs[m].is_objlike
         /\ IF ~ArgsFit(ts, m)
            THEN Stop("error")
            ELSE /\ stack' = Append(stack,
                      [kind |-> "subst", macro |-> m, body |-> Body(m), out |-> <<>>,
                       args |-> read_macro_args(ts, m), actuals |-> read_macro_args(ts, m),
                       hideset |-> CallHideset(Tok, ts[Closing(ts)]),
                       rest |-> SubSeq(ts, Closing(ts) + 1, Len(ts))])
                 /\ UNCHANGED <<program, status>>

\* preprocess2 returns.  Of an argument it has replaced the tokens in place,
\* and its new TK_EOF is a copy of what the first token has become.
ScanDone ==
  /\ status = "run" /\ Frame.kind = "scan" /\ Frame.in = <<>>
  /\ IF Len(stack) = 1
     THEN Stop("done")
     ELSE LET caller == stack[Len(stack) - 1]
              k == find_arg(caller.macro, Head(caller.body).t)
              eof == IF Frame.out = <<>> THEN caller.args[k].eof ELSE Frame.out[1].loc
          IN  /\ stack' = Append(Front(Below),
                    [caller EXCEPT !.args[k] = [toks |-> Frame.out, eof |-> eof],
                                   !.body = Tail(@), !.out = @ \o Frame.out])
              /\ UNCHANGED <<program, status>>
-----------------------------------------------------------------------------
(* The loop of subst.                                                      *)

Substituting == status = "run" /\ Frame.kind = "subst" /\ Frame.body # <<>>
IsArg(t) == IsParam(Frame.macro, t)
Arg(t) == Frame.args[find_arg(Frame.macro, t)]
AtHash == Head(Frame.body).t = "#"
AtPaste == ~AtHash /\ Len(Frame.body) > 2 /\ Frame.body[2].t = "##"


SpellEnd(arg) ==
  LET last == Last(arg.toks).loc
      ends(e) == IsSpace(e) \/ e >= arg.eof
  IN  CHOOSE e \in last .. Len(File) : ends(e) /\ \A d \in last .. e - 1 : ~ends(d)
Spells(arg) ==
  /\ arg.toks # <<>>
  /\ arg.toks[1].loc # Heap /\ Last(arg.toks).loc # Heap /\ arg.eof # Heap
  /\ arg.toks[1].loc <= SpellEnd(arg)
\* An argument as it is written: its tokens, and what stands between them.
Between(loc) ==
  LET gap == {" ", "\n", "/**/", "/*", "*/"}
  IN  SubSeq(File, Min({k \in 1 .. loc : \A j \in k .. loc - 1 : File[j] \in gap}), loc - 1)
Written(ts) ==
  FlattenSeq([j \in DOMAIN ts |->
    (IF j = 1 \/ ts[j].loc = Heap THEN <<>> ELSE Between(ts[j].loc)) \o Spelling(ts[j].t)])

stringize(arg, actual) ==
  [Token("str", Heap) EXCEPT !.s = SubSeq(File, arg.toks[1].loc, SpellEnd(arg) - 1),
                             !.actual = Written(actual.toks)]

Stringize ==
  /\ Substituting /\ AtHash
  /\ LET p == Frame.body[2].t
     IN  IF Len(Frame.body) = 1 \/ ~IsArg(p)
         THEN Stop("error")
         ELSE IF ~Spells(Arg(p))
         THEN Stop("undefined")
         ELSE SetFrame([Frame EXCEPT
                 !.body = SubSeq(@, 3, Len(@)),
                 !.out = Append(@, stringize(Arg(p), Frame.actuals[find_arg(Frame.macro, p)]))])

\* A word and what follows it form a word, but no letter follows a digit.
CanPaste(l, r) ==
  /\ l.t \notin Unpasted /\ r.t \notin Unpasted
  /\ l.t \in Digits => r.t \in Digits
paste(l, r) == Token(l.t \o r.t, Heap)

\* x##y is y if x is empty: y is then looked at as if no ## stood before it.
PasteTokens ==
  /\ Substituting /\ AtPaste
  /\ LET x == Head(Frame.body)
         y == Frame.body[3]
         ax == IF IsArg(x.t) THEN Arg(x.t).toks ELSE <<x>>
         ay == IF IsArg(y.t) THEN Arg(y.t).toks ELSE <<y>>
     IN  IF ax = <<>>
         THEN SetFrame([Frame EXCEPT !.body = SubSeq(@, 3, Len(@))])
         ELSE IF ay = <<>>
         THEN SetFrame([Frame EXCEPT !.body = SubSeq(@, 4, Len(@)), !.out = @ \o ax])
         ELSE IF ~CanPaste(Last(ax), Head(ay))
         THEN Stop("error")
         ELSE SetFrame([Frame EXCEPT
                 !.body = SubSeq(@, 4, Len(@)),
                 !.out = @ \o Front(ax) \o <<paste(Last(ax), Head(ay))>> \o Tail(ay)])

\* preprocess2 is called for the argument.
SubstArg ==
  /\ Substituting /\ ~AtHash /\ ~AtPaste /\ IsArg(Head(Frame.body).t)
  /\ stack' = Append(stack, [kind |-> "scan", in |-> Arg(Head(Frame.body).t).toks, out |-> <<>>])
  /\ UNCHANGED <<program, status>>

SubstToken ==
  /\ Substituting /\ ~AtHash /\ ~AtPaste /\ ~IsArg(Head(Frame.body).t)
  /\ SetFrame([Frame EXCEPT !.body = Tail(@), !.out = Append(@, Head(Frame.body))])

\* subst returns, and the call is replaced by the body.
SubstDone ==
  /\ status = "run" /\ Frame.kind = "subst" /\ Frame.body = <<>>
  /\ LET caller == stack[Len(stack) - 1]
     IN  stack' = Append(Front(Below),
            [caller EXCEPT !.in = add_hideset(Frame.out, Frame.hideset) \o Frame.rest])
  /\ UNCHANGED <<program, status>>

Next ==
  \/ ScanToken \/ ExpandObject \/ ExpandFunction \/ ScanDone
  \/ Stringize \/ PasteTokens \/ SubstArg \/ SubstToken \/ SubstDone

\* The preprocessor is one thread of control; nothing stops its loops.
Spec == Init /\ [][Next]_vars /\ WF_vars(Next)
-----------------------------------------------------------------------------
(***************************************************************************)
(* A string made by # spells the argument as it was written, from its      *)
(* first token to the end of its last, without the white space around it:  *)
(* "#" followed by a parameter is replaced with stringized actual (subst   *)
(* and stringize, preprocess.c).                                           *)
(***************************************************************************)
SpelledIn(ts) == \A j \in DOMAIN ts : ts[j].t = "str" => ts[j].s = ts[j].actual

(***************************************************************************)
(* Expansion comes to an end, however macros name one another: a name in   *)
(* the hide set of a token is not expanded there again.                    *)
(***************************************************************************)
Terminates == <>(status # "run")
=============================================================================
