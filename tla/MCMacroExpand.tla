--------------------------- MODULE MCMacroExpand ---------------------------
(***************************************************************************)
(* Programs for MacroExpand, and the expansion they should have: the       *)
(* algorithm of D. Prosser that the C standard's text was written from, as *)
(* a recursive definition on sequences that changes nothing in place.      *)
(***************************************************************************)
EXTENDS MacroExpand

RECURSIVE RefExpand(_), RefRead(_, _, _, _), RefChain(_, _, _, _)

\* What stands for an expansion that is an error.
Error == Token("error", Heap)
Failed(ts) == \E j \in DOMAIN ts : ts[j].t = "error"

\* The arguments up to the parenthesis that closes the call, token by token; behind
\* `most` arguments commas are text.
Unlimited == 99
RefRead(ts, depth, args, most) ==
  IF ts = <<>> THEN [args |-> <<>>, closed |-> FALSE]
  ELSE LET t == Head(ts).t
           more == Append(Front(args), Append(Last(args), Head(ts)))
           next == CASE t = "(" -> depth + 1 [] t = ")" -> depth - 1 [] OTHER -> depth
       IN  CASE depth = 0 /\ t = ")" -> [args |-> args, closed |-> TRUE, rparen |-> Head(ts), rest |-> Tail(ts)]
             [] depth = 0 /\ t = "," /\ Len(args) < most -> RefRead(Tail(ts), 0, Append(args, <<>>), most)
             [] OTHER -> RefRead(Tail(ts), next, more, most)
RefCall(ts, i) ==
  RefRead(ts, 0, << <<>> >>, IF Defs[i].is_variadic THEN Len(Defs[i].params) + 1 ELSE Unlimited)

\* One argument for each parameter; f() is a call without arguments as well.
RefFits(call, i) ==
  /\ call.closed
  /\ \/ Len(call.args) = Len(Params(i))
     \/ Params(i) = <<>> /\ call.args = << <<>> >>

RefRaw(tok, args, i) == IF IsParam(i, tok.t) THEN args[find_arg(i, tok.t)] ELSE <<tok>>

\* The tokens glued have the hide set both sides have.
RefGlue(l, r) ==
  CASE l = <<>> -> r
    [] r = <<>> -> l
    [] OTHER -> IF ~CanPaste(Last(l), Head(r)) THEN <<Error>>
                ELSE Front(l) \o << [Token(Last(l).t \o Head(r).t, Heap) EXCEPT
                                       !.hideset = Last(l).hideset \cap Head(r).hideset] >> \o Tail(r)
RefChain(body, args, i, j) ==
  LET raw == RefRaw(body[j], args, i)
  IN  IF j + 2 \in DOMAIN body /\ body[j + 1].t = "##" THEN RefGlue(raw, RefChain(body, args, i, j + 2)) ELSE raw

\* What the j-th token of the body contributes.
RefPart(body, args, i, j) ==
  LET at(k) == IF k \in DOMAIN body THEN body[k].t ELSE ""
  IN  CASE at(j) = "#" -> IF IsParam(i, at(j + 1)) THEN <<>> ELSE <<Error>>
        [] at(j) = "##" \/ at(j - 1) = "##" -> <<>>
        [] at(j - 1) = "#" ->
             IF IsParam(i, at(j))
             THEN << [Token("str", Heap) EXCEPT !.s = Written(args[find_arg(i, at(j))])] >>
             ELSE <<>>
        [] at(j + 1) = "##" -> RefChain(body, args, i, j)
        [] OTHER -> IF IsParam(i, at(j)) THEN RefExpand(args[find_arg(i, at(j))]) ELSE <<body[j]>>

RefSubst(i, args) ==
  FlattenSeq([j \in DOMAIN Body(i) |-> RefPart(Body(i), args, i, j)])

RefReplace(tok, i, call) ==
  LET hs == (tok.hideset \cap call.rparen.hideset) \cup {tok.t}
      body == RefSubst(i, call.args)
  IN  IF Failed(body) THEN <<Error>> ELSE RefExpand(add_hideset(body, hs) \o call.rest)

RefExpand(ts) ==
  IF ts = <<>> THEN <<>>
  ELSE LET tok == Head(ts)
           m == find_macro(tok.t)
           call == RefCall(SubSeq(ts, 3, Len(ts)), m)
       IN  CASE ~IsMacro(tok.t) \/ tok.t \in tok.hideset -> <<tok>> \o RefExpand(Tail(ts))
             [] Defs[m].is_objlike ->
                  RefExpand(add_hideset(Body(m), tok.hideset \cup {tok.t}) \o Tail(ts))
             [] Len(ts) > 1 /\ ts[2].t = "(" ->
                  IF RefFits(call, m) THEN RefReplace(tok, m, call) ELSE <<Error>>
             [] OTHER -> <<tok>> \o RefExpand(Tail(ts))

Visible(ts) == [j \in DOMAIN ts |-> <<ts[j].t, ts[j].s>>]

(***************************************************************************)
(* The expansion is the one Prosser's algorithm defines, and ends with an  *)
(* error where that has none: arguments that do not fit, or ## of what is  *)
(* no token.                                                               *)
(***************************************************************************)
MatchesReference ==
  LET expansion == RefExpand(TokensFrom(program.text, TextStart))
  IN  /\ status = "done" => Visible(Frame.out) = Visible(expansion)
      /\ status \in {"done", "error"} => (status = "error") = Failed(expansion)
-----------------------------------------------------------------------------
\* White space between all tokens.
Apart(ws) == FlattenSeq([j \in DOMAIN ws |-> IF j = 1 THEN <<ws[1]>> ELSE <<" ", ws[j]>>])

Object(n, b) ==
  [name |-> n, is_objlike |-> TRUE, params |-> <<>>, is_variadic |-> FALSE, body |-> Apart(b)]
Function(n, ps, v, b) ==
  [name |-> n, is_objlike |-> FALSE, params |-> ps, is_variadic |-> v, body |-> Apart(b)]

Call(n, a) == <<n, "(">> \o a \o <<")">>

Objects == {<<>>, <<"1">>, <<"A">>, <<"f">>, <<"A", "f">>, <<"B", "A">>, Call("f", <<"A">>)}
Functions == {<<>>, <<"x">>, <<"x", "x">>, <<"A">>, <<"f", "x">>, Call("f", <<"x">>), Call("A", <<"x">>),
              Call("x", <<"2">>), <<"x", "##", "2">>, <<"B", "##", "x", "x">>,
              Call("f", Call("x", <<"A">>))}
Args == {<<>>, <<"1">>, <<"A">>, <<"f">>, <<"A", "B">>, Call("f", <<"1">>), Call("f", <<"A">>)}

\* One object-like and one function-like macro that may name each other.
MCMutual ==
  {[defs |-> <<Object("A", a), Function("f", <<"x">>, FALSE, f)>>, text |-> Apart(t)] :
     a \in Objects, f \in Functions,
     t \in {Call("f", b) \o <<"A">> : b \in Args}
           \cup {Call("f", b) \o <<"(">> \o c \o <<")">> : b \in Args, c \in {<<"A">>, <<"f">>}}
           \cup {Call("A", b) : b \in Args}}

\* Strings of arguments that have tokens and are not looked at before, with white
\* space and comments around and between the tokens.
Spaced == {<<"A">>, <<" ", "A", " ">>, <<"A", "/**/", "B">>, <<"/* */", "A", "/* */", "B", " ", "/**/">>,
           <<"'1 2'", " ", "A">>, <<"A", "'1 2'", "(", "B", ")">>, <<"f", "(", "A", ")", " ">>}
MCStrings ==
  {[defs |-> <<Object("A", a), Function("f", <<"x">>, FALSE, f)>>, text |-> Call("f", b) \o <<" ", "A">>] :
     a \in Objects, f \in {<<"#", "x">>, <<"#", "x", "x">>, <<"A", "#", "x">>},
     b \in Spaced \cup {Apart(c) : c \in Args \ {<<>>}}}
  \cup
  {[defs |-> <<Object("A", <<"1">>), Function("g", <<"x">>, TRUE, <<"#", "__VA_ARGS__", "x">>)>>,
    text |-> Call("g", t)] :
     t \in {<<"2", ",", "A">>, <<"A", ",", " ", "A", ",", "3">>, <<"(", "2", ",", "A", ")", ",", "(", "A", " ", ")">>}}

\* Arguments and their number.
MCVariadic ==
  {[defs |-> <<Object("A", <<"1">>), Function("g", ps, v, b)>>, text |-> Call("g", t)] :
     ps \in {<<>>, <<"x">>, <<"x", "y">>}, v \in BOOLEAN,
     b \in {<<"x", "y">>, <<"x", "__VA_ARGS__">>, <<"y", "##", "x">>, <<"x", "##", "y", "x">>},
     t \in {<<>>, <<"A">>, <<"A", ",">>, <<"2", ",", "A">>, <<"2", ",", "A", ",", "3">>,
            <<"(", "2", ",", "A", ")", ",", "A">>}}

\* A parameter pasted that has been looked at before; no macro is in the argument.
MCPlainThenPasted ==
  {[defs |-> <<Object("A", <<"1">>), Function("f", <<"x">>, FALSE, b)>>, text |-> Call("f", Apart(t))] :
     b \in {<<"x", "x", "##", "2">>, <<"x", "A", "##", "x", "x">>}, t \in {<<>>, <<"1">>, <<"B", "2">>, <<"(", "B">>}}

MCPrograms == MCMutual \cup MCStrings \cup MCVariadic \cup MCPlainThenPasted

(***************************************************************************)
(* Programs for which the code does something else; no run has them.       *)
(***************************************************************************)
\* A string, or ##, of an argument that has been expanded before.
MCPlainFirst ==
  {[defs |-> <<Object("A", <<"1">>), Function("f", <<"x">>, FALSE, <<"x">> \o f)>>, text |-> Call("f", Apart(b))] :
     f \in {<<"#", "x">>, <<"x", "##", "2">>}, b \in {<<"2">>, <<"A">>, <<"2", "A">>}}

\* A string of an argument that ends in white space within a literal, or in a comment.
MCStringEnds ==
  {[defs |-> <<Function("f", <<"x">>, FALSE, <<"#", "x">>)>>, text |-> Call("f", b)] :
     b \in {<<"'1 2'">>, <<"A", " ", "'1 2'", " ">>, <<"A", "/**/">>, <<"A", "/* */">>}}

\* Two ## in a row.
MCPasteChain ==
  {[defs |-> <<Function("f", <<"x">>, FALSE, <<"A", "##", "x", "##", "2">>)>>, text |-> Call("f", b)] :
     b \in {<<>>, <<"1">>}}
=============================================================================
