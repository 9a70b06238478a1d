--------------------------------- MODULE Scopes --------------------------------
(***************************************************************************)
(* The symbol table as the code generators use it: blocks and functions    *)
(* open and close in a properly nested order, variables are declared and   *)
(* used in between, in every order a program can be written in.            *)
(*                                                                         *)
(* A function opens with symtab_enter_function and the scope of its        *)
(* parameters, closes with the two calls in the opposite order (codegen.c, *)
(* gen_function and gen_inline_closure); a block and a for loop open and   *)
(* close one scope.                                                        *)
(***************************************************************************)
EXTENDS SymbolTable, TLC

CONSTANTS
  Name,         \* what a program may call its variables
  MaxScopes,    \* bound on open scopes (CL_MAX_SCOPES)
  MaxSymbols,   \* bound on live variables and on the slots of a frame (CL_MAX_SYMBOLS)
  MaxUpvals     \* CG_MAX_UPVALS

ASSUME ScopesAssumption ==
  /\ MaxScopes \in Nat \ {0} /\ MaxSymbols \in Nat /\ MaxUpvals \in Nat
  /\ "" \notin Name

VARIABLES
  st,     \* the symbol table
  ups,    \* the captures of the function at each depth
  within  \* for each open scope, outermost first, the depth of its function

svars == <<st, ups, within>>

Init == st = NewTable /\ ups = NoCaptures /\ within = <<0>>

Outer == within[Len(within) - 1]

OpenBlock ==
  /\ Len(st.starts) < MaxScopes
  /\ st' = PushScope(st)
  /\ within' = Append(within, st.depth)
  /\ UNCHANGED ups

CloseBlock ==
  /\ Len(within) > 1 /\ Outer = st.depth
  /\ st' = PopScope(st)
  /\ within' = Front1(within)
  /\ UNCHANGED ups

OpenFunction ==
  /\ st.depth < MaxDepth /\ Len(st.starts) < MaxScopes
  /\ st' = PushScope(EnterFunction(st))
  /\ ups' = [ups EXCEPT ![st.depth + 1] = <<>>]
  /\ within' = Append(within, st.depth + 1)

CloseFunction ==
  /\ Len(within) > 1 /\ Outer < st.depth
  /\ st' = ExitFunction(PopScope(st))
  /\ within' = Front1(within)
  /\ UNCHANGED ups

DeclareName(x) ==
  /\ InScope(st, x) \/ /\ Len(st.items) < MaxSymbols
                       /\ IF st.depth = 0 THEN st.nextg < MaxSymbols
                                          ELSE st.next[st.depth] < MaxSymbols
  /\ st' = Declare(st, x)
  /\ UNCHANGED <<ups, within>>

(* A local of an enclosing function is used: codegen.c, resolve_upvalue.   *)
UseName(x) ==
  LET s == Lookup(st, x)
      r == ResolveUpvalue(ups, x, s.depth, s.slot, st.depth)
  IN  /\ s.slot >= 0 /\ s.depth \notin {0, st.depth}
      /\ \A d \in Depths : Len(r.ups[d]) <= MaxUpvals
      /\ ups' = r.ups
      /\ UNCHANGED <<st, within>>

Next ==
  \/ OpenBlock \/ CloseBlock \/ OpenFunction \/ CloseFunction
  \/ \E x \in Name : DeclareName(x) \/ UseName(x)

Spec == Init /\ [][Next]_svars
-------------------------------------------------------------------------------
Item == [name : Name, slot : Nat, depth : 0 .. MaxDepth, boxed : BOOLEAN]
Capture == [name : Name, from : {"local", "upval"}, index : Nat]

TypeOK ==
  /\ st \in [items : Seq(Item), starts : Seq(Nat), locals : Seq(Nat), nextg : Nat,
             depth : 0 .. MaxDepth, next : [Depths -> Nat], peak : [Depths -> Nat]]
  /\ ups \in [Depths -> Seq(Capture)]
  /\ within \in Seq(0 .. MaxDepth)
  /\ Len(within) = Len(st.starts) /\ Len(within) = Len(st.locals)
  /\ Len(within) > 0 /\ within[Len(within)] = st.depth

(* No two variables that are live in one frame have the same place in it,  *)
(* and no two globals have the same slot, whatever scopes came and went.   *)
SlotsDistinct ==
  \A i, j \in DOMAIN st.items :
    i < j /\ st.items[i].depth = st.items[j].depth => st.items[i].slot < st.items[j].slot

(* The frame that ENTER makes for a function has a place for every local   *)
(* of it, and the program one for every global.                            *)
FrameCovers ==
  \A i \in DOMAIN st.items :
    LET s == st.items[i] IN
    IF s.depth = 0 THEN s.slot < st.nextg ELSE s.slot < st.peak[s.depth]

(* The innermost variable called x outside the function at depth d.        *)
Outside(x, d) == {i \in DOMAIN st.items : st.items[i].name = x /\ st.items[i].depth < d}

(* A capture leads, through the functions in between, to the variable its  *)
(* name means outside the function: a capture from a local to the place of *)
(* that variable in the enclosing frame; a capture from an upvalue to a    *)
(* capture of the same name, of a variable from further out.               *)
CapturesTrue ==
  \A d \in 1 .. st.depth : \A k \in DOMAIN ups[d] :
    LET c == ups[d][k]
        s == st.items[Max(Outside(c.name, d))]
    IN  /\ Outside(c.name, d) # {}
        /\ c.from = "local" => s.depth = d - 1 /\ s.slot = c.index
        /\ c.from = "upval" => /\ s.depth \in 1 .. d - 2
                               /\ c.index < Len(ups[d - 1])
                               /\ ups[d - 1][c.index + 1].name = c.name

===============================================================================
