-------------------------- MODULE MetricExpressions --------------------------
(***************************************************************************)
(* The expressions of a metric (cisei_lib/planners/metric_compiler.py):    *)
(* trees of [op, args] whose leaves are constants, link features,          *)
(* parameters and the names of other expressions.  Undefined stands for    *)
(* whatever makes an evaluation raise (a division by zero, a missing       *)
(* feature, a Boolean or infinite result).                                 *)
(***************************************************************************)
EXTENDS Integers, SequencesExt

CONSTANTS
  FeaturePaths, \* FEATURE_PATHS
  PeakPaths,    \* those of a terrain peak, which a link need not have
  MaxNodes,     \* _ExpressionValidator.MAX_NODES
  Undefined

Leaf(t) == t.op \in {"const", "feature", "param", "name"}

RECURSIVE Leaves(_)
Leaves(t) == IF Leaf(t) THEN {t} ELSE UNION {Leaves(t.args[i]) : i \in DOMAIN t.args}

RECURSIVE Nodes(_)
Nodes(t) == IF Leaf(t) THEN 1
            ELSE 1 + FoldLeft(LAMBDA n, u : n + Nodes(u), 0, t.args)

\* _ReferenceRewriter.dependencies
TreeDependencies(s, n) == {t.id : t \in {u \in Leaves(s.expressions[n]) : u.op = "name"}}

\* _ReferenceRewriter and _ExpressionValidator: the features and parameters are
\* known and the tree is small enough.
TreeFits(s, n) ==
  /\ \A t \in Leaves(s.expressions[n]) :
       /\ t.op = "feature" => t.id \in FeaturePaths
       /\ t.op = "param" => t.id \in DOMAIN s.parameters
  /\ Nodes(s.expressions[n]) <= MaxNodes

\* _resolve_feature: an absent peak counts as zero, any other absence raises.
Feature(features, path) ==
  CASE path \in DOMAIN features -> features[path]
    [] path \notin DOMAIN features /\ path \in PeakPaths -> 0
    [] OTHER -> Undefined

\* The value of an expression, given those of the expressions it names.  An IfExp
\* evaluates one branch only, and arguments from the left.
RECURSIVE Value(_, _, _, _)
Value(t, s, features, values) ==
  LET arg(i) == Value(t.args[i], s, features, values)
      both   == arg(1) # Undefined /\ arg(2) # Undefined
  IN CASE t.op = "const"   -> t.id
       [] t.op = "feature" -> Feature(features, t.id)
       [] t.op = "param"   -> s.parameters[t.id]
       [] t.op = "name"    -> values[t.id]
       [] t.op = "add"     -> IF both THEN arg(1) + arg(2) ELSE Undefined
       [] t.op = "sub"     -> IF both THEN arg(1) - arg(2) ELSE Undefined
       [] t.op = "div"     -> IF both /\ arg(2) > 0 THEN arg(1) \div arg(2) ELSE Undefined
       [] t.op = "if"      -> CASE arg(1) = Undefined -> Undefined
                                [] arg(1) # Undefined /\ arg(1) > 0 -> arg(2)
                                [] OTHER -> arg(3)

\* The aliases of an expression's features are looked up before it is evaluated,
\* those of branches not taken included.
Resolves(s, n, features) ==
  \A t \in Leaves(s.expressions[n]) :
    t.op = "feature" => Feature(features, t.id) # Undefined

TreeEvaluate(s, n, features, values) ==
  IF Resolves(s, n, features) THEN Value(s.expressions[n], s, features, values) ELSE Undefined

=============================================================================
