--------------------------- MODULE MetricCompiler ---------------------------
(***************************************************************************)
(* cisei_lib/planners/metric_compiler.py: a specification names            *)
(* expressions over link features, parameters and each other.  Compiling   *)
(* it checks the references of every expression, orders the expressions by *)
(* a depth-first visit that finds cycles, and keeps those the result       *)
(* needs; the compiled metric evaluates them in that order, each once per  *)
(* link.                                                                   *)
(*                                                                         *)
(* Expression names are numbers: the compiler sorts dependencies by name.  *)
(* What an expression names, whether it passes the checks and what its     *)
(* value is are constants here (MetricExpressions); Undefined stands for   *)
(* whatever makes an evaluation raise.                                     *)
(***************************************************************************)
EXTENDS Integers, FiniteSets, SequencesExt

CONSTANTS
  Specs,              \* specifications: [expressions, declared, parameters, result];
                      \* declared is the order in which the expressions are written
  Links,              \* what a metric is called with, the features of a link
  Undefined,
  Dependencies(_, _), \* the names in an expression of a specification
  Fits(_, _),         \* its other references are known and it is small enough
  Eval(_, _, _, _)    \* its value for a link, given those of its dependencies

VARIABLES
  spec,       \* the specification being compiled
  phase,      \* "parse", "visit", "refused", "compiled", "evaluate"
  visited,    \* state == 2
  stack,      \* stack: the names being visited, each with what it still visits
  order,      \* order; evaluation_order once compiled
  link,       \* the features of the call in progress
  derived,    \* derived_values
  outcome     \* what the last call returned, Undefined when it raised

compiling == <<visited, stack, order>>
calling == <<link, derived, outcome>>
vars == <<spec, phase, compiling, calling>>

Names(s) == DOMAIN s.expressions

\* A dictionary of expressions is read in the order in which it is written.
SpecsAreWritten ==
  \A s \in Specs :
    /\ Names(s) \subseteq Nat
    /\ Len(s.declared) \in Nat /\ DOMAIN s.declared = 1..Len(s.declared)
    /\ ToSet(s.declared) = Names(s)
    /\ \A n \in Names(s) : Dependencies(s, n) \subseteq Nat

-----------------------------------------------------------------------------
\* Every reference is known and the expression passes the other checks.
Accepted(s, n) == Dependencies(s, n) \subseteq Names(s) /\ Fits(s, n)

Init ==
  /\ spec \in Specs
  /\ phase = "parse"
  /\ visited = {} /\ stack = <<>> /\ order = <<>>
  /\ link = Undefined /\ derived = <<>> /\ outcome = Undefined

\* _parse_metric_spec and the loop of compile_metric_spec over the expressions.
Parse ==
  /\ phase = "parse"
  /\ phase' = IF spec.result \in Names(spec) /\ \A n \in Names(spec) : Accepted(spec, n)
              THEN "visit" ELSE "refused"
  /\ UNCHANGED <<spec, compiling, calling>>

Frame(n) == [name |-> n, todo |-> Dependencies(spec, n)]

OnStack(n) == \E i \in DOMAIN stack : stack[i].name = n

\* The loop of _topological_order: the next declared expression not yet visited.
VisitDeclared ==
  /\ phase = "visit" /\ stack = <<>>
  /\ \E i \in DOMAIN spec.declared :
       /\ spec.declared[i] \notin visited
       /\ \A j \in DOMAIN spec.declared : j < i => spec.declared[j] \in visited
       /\ stack' = <<Frame(spec.declared[i])>>
  /\ UNCHANGED <<spec, phase, visited, order, calling>>

\* visit of the next dependency: done before, in progress (a cycle), or new.
VisitDependency ==
  /\ phase = "visit" /\ stack # <<>> /\ Last(stack).todo # {}
  /\ LET top  == Last(stack)
         n    == CHOOSE d \in top.todo : \A e \in top.todo : d <= e
         rest == [stack EXCEPT ![Len(stack)] = [name |-> top.name, todo |-> top.todo \ {n}]]
     IN /\ phase' = IF OnStack(n) THEN "refused" ELSE phase
        /\ stack' = IF n \in visited \/ OnStack(n) THEN rest ELSE Append(rest, Frame(n))
  /\ UNCHANGED <<spec, visited, order, calling>>

\* The end of visit.
Finish ==
  /\ phase = "visit" /\ stack # <<>> /\ Last(stack).todo = {}
  /\ visited' = visited \cup {Last(stack).name}
  /\ order' = Append(order, Last(stack).name)
  /\ stack' = Front(stack)
  /\ UNCHANGED <<spec, phase, calling>>

\* Variant: the result's own expression is all that is kept.
RequiredDirectly(s) == {s.result} \cup Dependencies(s, s.result)

\* The least set of names that holds these and what each of its own names.
Closed(s, names) == \A n \in names : Dependencies(s, n) \subseteq names

Reach(s, names) ==
  {n \in Names(s) : \A all \in SUBSET Names(s) : names \subseteq all /\ Closed(s, all) => n \in all}

\* collect_required: what the result needs, directly or not.
Required(s) == Reach(s, {s.result})

Sorted(set) ==
  [i \in 1..Cardinality(set) |-> CHOOSE s \in set : Cardinality({t \in set : t < s}) = i - 1]

\* The names of a sequence that are in a set, in their order.
Only(names, set) ==
  LET kept == Sorted({i \in DOMAIN names : names[i] \in set})
  IN [i \in DOMAIN kept |-> names[kept[i]]]

Compile ==
  /\ phase = "visit" /\ stack = <<>> /\ visited = Names(spec)
  /\ order' = Only(order, Required(spec))
  /\ phase' = "compiled"
  /\ UNCHANGED <<spec, visited, stack, calling>>

\* CompiledMetric.__call__ for a link.
Call(features) ==
  /\ phase = "compiled"
  /\ phase' = "evaluate"
  /\ link' = features
  /\ derived' = <<>>
  /\ UNCHANGED <<spec, compiling, outcome>>

\* The names of an expression: one that is not derived yet is a NameError.
Known(n) ==
  [m \in Dependencies(spec, n) |->
     IF \E i \in DOMAIN derived : order[i] = m
     THEN derived[CHOOSE i \in DOMAIN derived : order[i] = m]
     ELSE Undefined]

\* The next expression of the order; a value that cannot be computed ends the call.
EvaluateNext ==
  /\ phase = "evaluate" /\ Len(derived) < Len(order)
  /\ LET n     == order[Len(derived) + 1]
         value == Eval(spec, n, link, Known(n))
     IN IF value = Undefined
        THEN /\ outcome' = Undefined /\ phase' = "compiled" /\ derived' = <<>>
        ELSE /\ derived' = Append(derived, value)
             /\ UNCHANGED <<outcome, phase>>
  /\ UNCHANGED <<spec, compiling, link>>

\* The end of the call: a metric is not negative.
Return ==
  /\ phase = "evaluate" /\ Len(derived) = Len(order)
  /\ LET metric == derived[CHOOSE i \in DOMAIN order : order[i] = spec.result]
     IN outcome' = IF metric < 0 THEN Undefined ELSE metric
  /\ phase' = "compiled"
  /\ derived' = <<>>
  /\ UNCHANGED <<spec, compiling, link>>

Next ==
  \/ Parse \/ VisitDeclared \/ VisitDependency \/ Finish \/ Compile
  \/ \E features \in Links : Call(features)
  \/ EvaluateNext \/ Return

Spec == Init /\ [][Next]_vars

-----------------------------------------------------------------------------
\* What the expressions a result needs stand for, by substitution and without an
\* order.  A name that has no value leaves none to the result, wherever it occurs.
Meaning(s, features) ==
  LET value[n \in Reach(s, {s.result})] ==
        LET values == [m \in Dependencies(s, n) |-> value[m]]
        IN IF \A m \in Dependencies(s, n) : values[m] # Undefined
           THEN Eval(s, n, features, values) ELSE Undefined
  IN value

Cyclic(s) == \E n \in Names(s) : n \in Reach(s, Dependencies(s, n))

\* The order of a compiled metric lists what its result needs, each expression
\* once and behind all those it names; and a specification is refused exactly
\* when it names something unknown, is too large or goes round in a circle, the
\* expressions the result does not need included (_topological_order, "Validate
\* the complete dependency graph and return only the expressions required").
OrderIsUsable ==
  /\ phase \in {"compiled", "evaluate"} =>
       /\ ~Cyclic(spec)
       /\ ToSet(order) = Reach(spec, {spec.result})
       /\ \A i, j \in DOMAIN order : order[i] = order[j] => i = j
       /\ \A i \in DOMAIN order : \A n \in Dependencies(spec, order[i]) :
            \E j \in DOMAIN order : j < i /\ order[j] = n
  /\ phase = "refused" =>
       \/ spec.result \notin Names(spec)
       \/ \E n \in Names(spec) : ~Accepted(spec, n)
       \/ Cyclic(spec)

\* A call returns what the specification means for the link, and raises only when
\* something the result needs has no value or the metric is negative; a call
\* before leaves nothing behind (CompiledMetric.__call__).
MetricIsMeaning ==
  phase = "compiled" /\ link # Undefined =>
    LET meaning == Meaning(spec, link)[spec.result]
    IN outcome = IF meaning = Undefined THEN Undefined ELSE IF meaning < 0 THEN Undefined ELSE meaning

=============================================================================
