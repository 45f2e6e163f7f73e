------------------------------- MODULE Scope -------------------------------
(***************************************************************************)
(* The scopes of the parser.  One step reads one construct: a type         *)
(* specifier, a declarator, the start or end of a block, a use of a name.  *)
(* running holds the parser's calls that are open, the innermost last.  A  *)
(* construct that is reported (error_tok) ends the program: it has no step.*)
(*                                                                         *)
(* The lists of the program are sequences here, the newest entry last.     *)
(***************************************************************************)
EXTENDS Integers, Sequences

CONSTANTS
  Names, Tags,
  MaxDepth,    \* bound: nested scopes
  MaxMade,     \* bound: entries of var_scope and type objects made
  Vocabularies,  \* the optional constructs a program uses together
  Programs     \* constructs the program uses although they are misread

\* const struct t before t is complete; struct t { struct t *p; } where only an
\* outer block has a t
Misread == {"const_incomplete", "self_in_shadow"}

Optional == {"typedef", "static", "extern", "sizeof", "struct", "const", "self", "enum",
             "param", "for", "call", "unnamed"}

ASSUME ScopeAssumption ==
  /\ MaxDepth \in Nat /\ MaxMade \in Nat
  /\ Programs \subseteq Misread /\ Vocabularies \subseteq SUBSET Optional
  /\ Names \subseteq STRING /\ Tags \subseteq STRING
  /\ "" \notin Names /\ "__func__" \notin Names

VARIABLES
  var_scope, tag_scope, scope_depth,
  locals, globals,   \* the numbers of the variables in these lists
  types,             \* the type objects of tags, by address
  made,              \* entries of var_scope made so far
  running,
  seen,              \* history: the construct read and what it came to
  vocabulary         \* chosen at the start

vars == <<var_scope, tag_scope, scope_depth, locals, globals, types, made,
          running, seen, vocabulary>>

None == <<"none", 0>>
NoType == 0
NoVar == [name |-> "", depth |-> 0, is |-> "none", id |-> 0, ty |-> NoType, home |-> "none"]
NoTag == [name |-> "", depth |-> 0, ty |-> NoType]

NameKey(n) == <<"name", n>>
TagKey(t) == <<"tag", t>>
Entity(sc) == <<sc.is, sc.id>>
TagEntity(ty) == <<"tag", ty>>

Largest(S) == CHOOSE i \in S : \A j \in S : j <= i

Called(scope, n) == {i \in DOMAIN scope : scope[i].name = n}

find_var(n) ==
  IF Called(var_scope, n) = {} THEN NoVar ELSE var_scope[Largest(Called(var_scope, n))]

\* Mutant: searches from the other end.
find_tagOldest(t) ==
  IF Called(tag_scope, t) = {} THEN NoTag
  ELSE tag_scope[CHOOSE i \in Called(tag_scope, t) : \A j \in Called(tag_scope, t) : i <= j]

find_tag(t) ==
  IF Called(tag_scope, t) = {} THEN NoTag ELSE tag_scope[Largest(Called(tag_scope, t))]

\* What is left of a list when the entries deeper than d are taken off its end.
Shallow(scope, d) == {i \in DOMAIN scope : scope[i].depth <= d}
UpTo(scope, d) ==
  IF Shallow(scope, d) = {} THEN <<>> ELSE SubSeq(scope, 1, Largest(Shallow(scope, d)))

enter_scope ==
  /\ scope_depth < MaxDepth
  /\ scope_depth' = scope_depth + 1
  /\ seen' = <<"open", None, None>>
  /\ UNCHANGED <<var_scope, tag_scope>>

\* Mutant: tags stay.
leave_scopeVars ==
  /\ scope_depth' = scope_depth - 1
  /\ var_scope' = UpTo(var_scope, scope_depth - 1)
  /\ seen' = <<"close", None, None>>
  /\ UNCHANGED tag_scope

leave_scope ==
  /\ scope_depth' = scope_depth - 1
  /\ var_scope' = UpTo(var_scope, scope_depth - 1)
  /\ tag_scope' = UpTo(tag_scope, scope_depth - 1)
  /\ seen' = <<"close", None, None>>

\* A new entry of var_scope.
push_scope(n, is, ty, home) ==
  /\ made + Len(types) < MaxMade
  /\ made' = made + 1
  /\ var_scope' = Append(var_scope,
       [name |-> n, depth |-> scope_depth, is |-> is, id |-> made + 1, ty |-> ty, home |-> home])

new_lvar(n, ty) ==
  /\ push_scope(n, "var", ty, "local")
  /\ locals' = locals \cup {made + 1}
  /\ UNCHANGED globals

new_gvar(n, ty, emit) ==
  /\ push_scope(n, "var", ty, IF emit THEN "global" ELSE "extern")
  /\ globals' = IF emit THEN globals \cup {made + 1} ELSE globals
  /\ UNCHANGED locals

\* A static local: the variable has a name of its own, and n means it.
new_static(n, ty) == new_gvar(n, ty, TRUE)

Init ==
  /\ var_scope = <<>> /\ tag_scope = <<>> /\ scope_depth = 0
  /\ locals = {} /\ globals = {} /\ types = <<>> /\ made = 0
  /\ running = <<>>
  /\ seen = <<"start", None, None>>
  /\ vocabulary \in Vocabularies

(***************************************************************************)
(* What the parser is reading                                              *)
(***************************************************************************)
Call(at) == [at |-> at, attr |-> "none", ty |-> NoType, tag |-> ""]
Top == IF running = <<>> THEN Call("file") ELSE running[Len(running)]
Outer == SubSeq(running, 1, Len(running) - 1)
InFunction == running # <<>> /\ running[1].at = "function"

Parsing(places) == Top.at \in places

\* A loop whose body is a single statement has read it when that is read.
AfterStatement(calls) ==
  IF calls[Len(calls)].at = "for_body"
  THEN Append(SubSeq(calls, 1, Len(calls) - 1), Call("for_end")) ELSE calls

\* Where an expression may stand, and where a declaration may
Expressions == {"block", "decl", "enum", "for_init", "for_head", "for_body"}
Declarations == {"file", "block", "for_init"}

\* typespec() is called for a declaration, with storage class attr, or for the
\* type name of a sizeof.
Attributes == {"none", "typedef", "static", "extern"}
Reads(attr) ==
  /\ attr \in vocabulary \cup {"none"}
  /\ IF attr = "sizeof" THEN Parsing(Expressions)
     ELSE Parsing(Declarations) /\ (attr = "static" => InFunction)

Specified(calls, attr, ty) ==
  LET after == IF calls # <<>> /\ calls[Len(calls)].at = "for_init"
               THEN Append(SubSeq(calls, 1, Len(calls) - 1), Call("for_head")) ELSE calls
  IN running' = IF attr = "sizeof" THEN AfterStatement(calls)
                ELSE Append(after, [at |-> "decl", attr |-> attr, ty |-> ty, tag |-> ""])

(***************************************************************************)
(* Type specifiers                                                         *)
(***************************************************************************)
BuiltinType(attr) ==
  /\ attr # "sizeof" /\ Reads(attr)
  /\ Specified(running, attr, NoType)
  /\ seen' = <<"pass", None, None>>
  /\ UNCHANGED <<var_scope, tag_scope, scope_depth, locals, globals, types, made>>

\* A name is read as a type iff its innermost declaration is a typedef.
TypedefName(attr, n) ==
  /\ Reads(attr) /\ find_var(n).is = "type_def"
  /\ Specified(running, attr, find_var(n).ty)
  /\ seen' = <<"pass", None, None>>
  /\ UNCHANGED <<var_scope, tag_scope, scope_depth, locals, globals, types, made>>

\* tag, depth: history, the entry of tag_scope the type was made for
NewType(kind, t, members) ==
  [kind |-> kind, members |-> members, tag |-> t, depth |-> scope_depth]

push_tag_scope(t, ty) ==
  Append(tag_scope, [name |-> t, depth |-> scope_depth, ty |-> ty])

\* struct t, and const struct t, which is a copy of the type as it is now
StructRef(attr, t, is_const) ==
  LET sc == find_tag(t)
      ty == IF sc = NoTag THEN Len(types) + 1 ELSE sc.ty
      found == IF sc = NoTag THEN Append(types, NewType("struct", t, NoType)) ELSE types
  IN /\ Reads(attr) /\ "struct" \in vocabulary
     /\ is_const => "const" \in vocabulary
     /\ is_const /\ found[ty].members = NoType => "const_incomplete" \in Programs
     /\ tag_scope' = IF sc = NoTag THEN push_tag_scope(t, ty) ELSE tag_scope
     /\ types' = IF is_const THEN Append(found, found[ty]) ELSE found
     /\ made + Len(types') <= MaxMade
     /\ Specified(running, attr, IF is_const THEN Len(types') ELSE ty)
     /\ seen' = <<"mention", TagKey(t), TagEntity(ty)>>
     /\ UNCHANGED <<var_scope, scope_depth, locals, globals, made>>

\* Mutant: a type that was announced is not overwritten.
RedefinesNot(sc) == FALSE

\* The tag is of this scope.
Redefines(sc) == sc # NoTag /\ sc.depth = scope_depth

\* C: a tag of this scope is one kind of type throughout (the parser does not ask).
KindKept(t, kind) == Redefines(find_tag(t)) => types[find_tag(t).ty].kind = kind

\* struct t { ... }; with self, a member is a pointer to struct t.  The members
\* are read before the tag is entered; their number is the address of ty.
StructDef(attr, t, self) ==
  LET ty == Len(types) + 1
      read == Append(types, NewType("struct", t, ty))
      visible == find_tag(t)
      forward == self /\ visible = NoTag
      inner == IF forward THEN ty + 1 ELSE visible.ty
      sc == IF forward THEN [name |-> t, depth |-> scope_depth, ty |-> inner] ELSE visible
      tags == IF forward THEN Append(tag_scope, sc) ELSE tag_scope
      made_types == IF forward THEN Append(read, NewType("struct", t, NoType)) ELSE read
      result == IF Redefines(sc) THEN sc.ty ELSE ty
  IN /\ Reads(attr) /\ "struct" \in vocabulary /\ made + Len(made_types) <= MaxMade
     /\ KindKept(t, "struct")
     /\ self => "self" \in vocabulary
     /\ self /\ ~forward /\ ~Redefines(sc) => "self_in_shadow" \in Programs
     /\ types' = IF Redefines(sc)
                 THEN [made_types EXCEPT ![sc.ty] = read[ty]]
                 ELSE made_types
     /\ tag_scope' = IF Redefines(sc) THEN tags ELSE push_tag_scope(t, ty)
     /\ Specified(running, attr, result)
     /\ seen' = IF self THEN <<"define_self", TagKey(t), TagEntity(result), TagEntity(inner)>>
                ELSE <<"define", TagKey(t), TagEntity(result)>>
     /\ UNCHANGED <<var_scope, scope_depth, locals, globals, made>>

EnumRef(attr, t) ==
  LET sc == find_tag(t)
  IN /\ Reads(attr) /\ sc # NoTag /\ types[sc.ty].kind = "enum"
     /\ Specified(running, attr, sc.ty)
     /\ seen' = <<"pass", None, None>>
     /\ UNCHANGED <<var_scope, tag_scope, scope_depth, locals, globals, types, made>>

\* enum t { or enum {: the type is made before the list is read.
EnumBegin(attr, t) ==
  /\ Reads(attr) /\ "enum" \in vocabulary /\ made + Len(types) < MaxMade
  /\ types' = Append(types, NewType("enum", t, Len(types) + 1))
  /\ running' = Append(running, [at |-> "enum", attr |-> attr, ty |-> Len(types) + 1, tag |-> t])
  /\ seen' = <<"pass", None, None>>
  /\ UNCHANGED <<var_scope, tag_scope, scope_depth, locals, globals, made>>

Enumerator(n) ==
  /\ Parsing({"enum"})
  /\ push_scope(n, "enum", Top.ty, "none")
  /\ seen' = <<"declare", NameKey(n), <<"enum", made + 1>>>>
  /\ UNCHANGED <<tag_scope, scope_depth, locals, globals, types, running>>

\* The tag is entered when the list has been read.
EnumEnd ==
  /\ Parsing({"enum"})
  /\ Top.tag # "" => ~Redefines(find_tag(Top.tag))
  /\ tag_scope' = IF Top.tag = "" THEN tag_scope ELSE push_tag_scope(Top.tag, Top.ty)
  /\ Specified(Outer, Top.attr, Top.ty)
  /\ seen' = IF Top.tag = "" THEN <<"pass", None, None>>
             ELSE <<"declare", TagKey(Top.tag), TagEntity(Top.ty)>>
  /\ UNCHANGED <<var_scope, scope_depth, locals, globals, types, made>>

(***************************************************************************)
(* Declarators                                                             *)
(***************************************************************************)
\* extern inside a function makes a local variable.
Declarator(n) ==
  /\ Parsing({"decl"})
  /\ CASE Top.attr = "typedef" ->
            push_scope(n, "type_def", Top.ty, "none") /\ UNCHANGED <<locals, globals>>
       [] Top.attr # "typedef" /\ ~InFunction -> new_gvar(n, Top.ty, Top.attr # "extern")
       [] Top.attr = "static" /\ InFunction -> new_static(n, Top.ty)
       [] OTHER -> new_lvar(n, Top.ty)
  /\ seen' = <<"declare", NameKey(n), Entity(var_scope'[Len(var_scope')])>>
  /\ UNCHANGED <<tag_scope, scope_depth, types, running>>

\* At file level; a body may follow.
FunctionDeclarator(n) ==
  /\ Parsing({"decl", "function_decl"}) /\ ~InFunction /\ Top.attr # "typedef"
  /\ new_gvar(n, NoType, FALSE)
  /\ running' = Append(Outer, [Top EXCEPT !.at = "function_decl"])
  /\ seen' = <<"declare", NameKey(n), Entity(var_scope'[Len(var_scope')])>>
  /\ UNCHANGED <<tag_scope, scope_depth, types>>

EndDeclaration ==
  /\ Parsing({"decl", "function_decl"})
  /\ running' = Outer
  /\ seen' = <<"pass", None, None>>
  /\ UNCHANGED <<var_scope, tag_scope, scope_depth, locals, globals, types, made>>

FunctionStart ==
  /\ Parsing({"function_decl"})
  /\ enter_scope
  /\ locals' = {}
  /\ running' = <<Call("params")>>
  /\ UNCHANGED <<globals, types, made>>

Param(n) ==
  /\ Parsing({"params"}) /\ "param" \in vocabulary
  /\ new_lvar(n, NoType)
  /\ seen' = <<"declare", NameKey(n), Entity(var_scope'[Len(var_scope')])>>
  /\ UNCHANGED <<tag_scope, scope_depth, types, running>>

\* The string with the function's name is a global without a name of its own.
AddFuncIdent ==
  /\ Parsing({"params"})
  /\ new_static("__func__", NoType)
  /\ running' = <<Call("ident")>>
  /\ seen' = <<"declare", NameKey("__func__"), Entity(var_scope'[Len(var_scope')])>>
  /\ UNCHANGED <<tag_scope, scope_depth, types>>

FunctionBody ==
  /\ Parsing({"ident"})
  /\ enter_scope
  /\ running' = <<Call("function"), Call("block")>>
  /\ UNCHANGED <<locals, globals, types, made>>

\* Mutant: the scope of the parameters stays open.
FunctionEndOpen ==
  /\ Parsing({"function"})
  /\ running' = <<>>
  /\ seen' = <<"close", None, None>>
  /\ UNCHANGED <<var_scope, tag_scope, scope_depth, locals, globals, types, made>>

FunctionEnd ==
  /\ Parsing({"function"})
  /\ leave_scope
  /\ running' = <<>>
  /\ UNCHANGED <<locals, globals, types, made>>

(***************************************************************************)
(* Statements and expressions                                              *)
(***************************************************************************)
\* A compound statement, or a statement expression
BlockStart ==
  /\ Parsing(Expressions) /\ InFunction
  /\ enter_scope
  /\ running' = Append(AfterStatement(running), Call("block"))
  /\ UNCHANGED <<locals, globals, types, made>>

BlockEnd ==
  /\ Parsing({"block"})
  /\ leave_scope
  /\ running' = Outer
  /\ UNCHANGED <<locals, globals, types, made>>

ForStart ==
  /\ Parsing({"block", "for_body"}) /\ "for" \in vocabulary
  /\ enter_scope
  /\ running' = Append(AfterStatement(running), Call("for_init"))
  /\ UNCHANGED <<locals, globals, types, made>>

ForBody ==
  /\ Parsing({"for_init", "for_head"})
  /\ running' = Append(Outer, Call("for_body"))
  /\ seen' = <<"pass", None, None>>
  /\ UNCHANGED <<var_scope, tag_scope, scope_depth, locals, globals, types, made>>

ForEnd ==
  /\ Parsing({"for_body", "for_end"})
  /\ leave_scope
  /\ running' = Outer
  /\ UNCHANGED <<locals, globals, types, made>>

HasValue(sc) == sc.is \in {"var", "enum"}

Use(n) ==
  /\ Parsing(Expressions) /\ HasValue(find_var(n))
  /\ running' = AfterStatement(running)
  /\ seen' = <<"pass", None, None>>
  /\ UNCHANGED <<var_scope, tag_scope, scope_depth, locals, globals, types, made>>

\* n(...): n is declared here if it means nothing that has a value.
UseCalled(n) ==
  /\ Parsing(Expressions) /\ InFunction /\ "call" \in vocabulary
  /\ running' = AfterStatement(running)
  /\ IF HasValue(find_var(n))
     THEN UNCHANGED <<var_scope, made, locals, globals>> ELSE new_gvar(n, NoType, FALSE)
  /\ seen' = <<"call", NameKey(n),
               IF HasValue(find_var(n)) THEN Entity(find_var(n))
               ELSE Entity(var_scope'[Len(var_scope')])>>
  /\ UNCHANGED <<tag_scope, scope_depth, types>>

\* A variable nothing can name: a compound literal, or the temporary of an
\* argument
Unnamed ==
  /\ Parsing(Expressions) /\ "unnamed" \in vocabulary
  /\ IF scope_depth > 0 THEN new_lvar("", NoType) ELSE new_gvar("", NoType, TRUE)
  /\ seen' = <<"pass", None, None>>
  /\ UNCHANGED <<tag_scope, scope_depth, types, running>>

Read ==
  \/ \E attr \in Attributes : BuiltinType(attr)
  \/ \E attr \in Attributes \cup {"sizeof"} :
       \/ \E n \in Names : TypedefName(attr, n)
       \/ \E t \in Tags :
            \/ \E b \in BOOLEAN : StructRef(attr, t, b) \/ StructDef(attr, t, b)
            \/ EnumRef(attr, t)
       \/ \E t \in Tags \cup {""} : EnumBegin(attr, t)
  \/ EnumEnd
  \/ \E n \in Names :
       \/ Enumerator(n) \/ Declarator(n) \/ FunctionDeclarator(n) \/ Param(n) \/ UseCalled(n)
  \/ \E n \in Names \cup {"__func__"} : Use(n)
  \/ EndDeclaration \/ FunctionStart \/ AddFuncIdent \/ FunctionBody \/ FunctionEnd
  \/ BlockStart \/ BlockEnd \/ ForStart \/ ForBody \/ ForEnd \/ Unnamed

Next == Read /\ UNCHANGED vocabulary

Spec == Init /\ [][Next]_vars

(***************************************************************************)
(* Properties                                                              *)
(***************************************************************************)
\* Every variable in scope has a place to live in: a local one is in the list
\* of the function being read, from which the frame is laid out (main.c:276),
\* a global one that is not declared only is in the list that emit_data()
\* writes.  (funcdef() starts a new list; leave_scope() must have dropped
\* everything that was in the old one.)
VisibleHaveStorage ==
  \A i \in DOMAIN var_scope :
    var_scope[i].is = "var" =>
      CASE var_scope[i].home = "local" -> var_scope[i].id \in locals
        [] var_scope[i].home = "global" -> var_scope[i].id \in globals
        [] OTHER -> TRUE

\* What was declared with a tag has members as soon as the tag has: the
\* declaration holds the type object that the definition overwrites.
TypesCompleted ==
  \A i \in DOMAIN var_scope, j \in DOMAIN tag_scope :
    LET ty == var_scope[i].ty
        sc == tag_scope[j]
    IN ty # NoType /\ sc.name = types[ty].tag /\ sc.depth = types[ty].depth
         => (types[ty].members = NoType => types[sc.ty].members = NoType)

(***************************************************************************)
(* Refinement                                                              *)
(***************************************************************************)
Keys == {NameKey(n) : n \in Names \cup {"__func__"}} \cup {TagKey(t) : t \in Tags}

\* What the entries of depth d say of a key: the newest one counts.
NamesAt(d, n) == {i \in Called(var_scope, n) : var_scope[i].depth = d}
TagsAt(d, t) == {i \in Called(tag_scope, t) : tag_scope[i].depth = d}
BlockAt(d) ==
  [k \in Keys |->
     IF k[1] = "name"
     THEN IF NamesAt(d, k[2]) = {} THEN None ELSE Entity(var_scope[Largest(NamesAt(d, k[2]))])
     ELSE IF TagsAt(d, k[2]) = {} THEN None ELSE TagEntity(tag_scope[Largest(TagsAt(d, k[2]))].ty)]

blocksBar == [d \in 1 .. scope_depth + 1 |-> BlockAt(d - 1)]

\* The type of an enum whose list is being read is not known yet.
Pending == {running[i].ty : i \in {j \in DOMAIN running : running[j].at = "enum"}}

entitiesBar ==
  {<<is, i>> : is \in {"var", "type_def", "enum"}, i \in 1 .. made} \cup
  {TagEntity(ty) : ty \in DOMAIN types \ Pending}

B == INSTANCE Blocks WITH blocks <- blocksBar, entities <- entitiesBar

\* A search of the lists finds what the innermost block that has the name says.
FindsInnermost ==
  /\ \A n \in Names \cup {"__func__"} : Entity(find_var(n)) = B!Meaning(NameKey(n))
  /\ \A t \in Tags : (find_tag(t) = NoTag) = (B!Meaning(TagKey(t)) = None)
                     /\ find_tag(t) # NoTag => TagEntity(find_tag(t).ty) = B!Meaning(TagKey(t))

\* A name, or a tag, means its innermost declaration, whatever was declared,
\* hidden and left before: the two lists with depths implement nested blocks.
Refines == B!Spec
=============================================================================
