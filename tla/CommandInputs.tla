---------------------------- MODULE CommandInputs ----------------------------
(***************************************************************************)
(* core/inputs: the arguments after `dovo run <blueprint>` are read token by *)
(* token into the blueprint's inputs; overrides and defaults complete them;   *)
(* and before each attempt of a step its placeholders are replaced by inputs  *)
(* and by what earlier steps left.                                           *)
(***************************************************************************)
EXTENDS Integers, Sequences, FiniteSets

CONSTANTS
    Declarations,   \* [name -> its type, default, required, aliases and place in the document], sets of which
    Commands,       \* token sequences
    Overrides,      \* values that the caller of Engine.run passes
    Histories,      \* what the finished steps left, in order
    Selectors,      \* the expressions of a step's fields
    MaxRecords      \* bound: steps that finish

(* A command line is read as tokens, and of any inputs one is declared last. *)
ASSUME InputAssumption ==
    /\ Commands \subseteq Seq([word : STRING, value : STRING])
    /\ \A d \in Declarations : \A names \in (SUBSET DOMAIN d) \ {{}} :
         \E n \in names : \A m \in names : d[m].place <= d[n].place
    /\ MaxRecords \in Nat

VARIABLES
    declared, args, given,      \* the declarations, the tokens, the overrides
    next_arg,                   \* next token
    values, setBy,              \* [name -> value], and the token it is from
    errors, warnings,
    stage,                      \* "parse", "missing", "refused", "ready"
    history, text               \* finished steps; the fields as interpolated

ivars == <<declared, args, given, next_arg, values, setBy, errors, warnings, stage, history, text>>

(* A token is a word, or an option with the value after "=" if it has one.   *)
Bare(word) == [word |-> word, value |-> "none"]
IsOption(token) == token.word \in {"-n", "-f", "-i", "-z"}
Empty == [x \in {} |-> "none"]
Assign(f, k, v) == [x \in DOMAIN f \cup {k} |-> IF x = k THEN v ELSE f[x]]

Typed(declarations, command, overrides) ==
    /\ declared = declarations /\ args = command /\ given = overrides
    /\ next_arg = 1 /\ values = Empty /\ setBy = Empty /\ errors = 0 /\ warnings = 0
    /\ stage = "parse" /\ history = <<>> /\ text = Empty
InputInit == \E d \in Declarations, c \in Commands, o \in Overrides : Typed(d, c, o)

----------------------------------------------------------------------------
(* parse_cli_input_args.                                                    *)

Token == args[next_arg]
Parsing == stage = "parse" /\ next_arg <= Len(args)

(* _alias_map: of two inputs that share an alias the later one has it.       *)
Owners(word) == {n \in DOMAIN declared : word \in declared[n].aliases}
LaterName(a, b) == declared[b].place <= declared[a].place
Owner(word) == CHOOSE n \in Owners(word) : \A m \in Owners(word) : LaterName(n, m)

(* coerce_input_value.                                                      *)
IntValue == [w \in {"7", "-1"} |-> IF w = "7" THEN 7 ELSE 0 - 1]
Coerces(type, raw) ==
    CASE type = "string" -> TRUE
      [] type = "integer" -> raw \in DOMAIN IntValue
      [] type = "boolean" -> raw \in {"yes", "no"}
Coerced(type, raw) == [type |-> type, raw |-> raw]

Store(name, raw) ==
    IF Coerces(declared[name].type, raw)
    THEN /\ values' = Assign(values, name, Coerced(declared[name].type, raw))
         /\ setBy' = Assign(setBy, name, next_arg)
         /\ UNCHANGED errors
    ELSE errors' = errors + 1 /\ UNCHANGED <<values, setBy>>

(* A boolean flag before another option, or at the end, is true.            *)
IsBareFlag(name) ==
    /\ declared[name].type = "boolean" /\ Token.value = "none"
    /\ next_arg < Len(args) => IsOption(args[next_arg + 1])
BareFlag ==
    /\ Parsing /\ Owners(Token.word) # {} /\ IsBareFlag(Owner(Token.word))
    /\ values' = Assign(values, Owner(Token.word), Coerced("boolean", "yes"))
    /\ setBy' = Assign(setBy, Owner(Token.word), next_arg)
    /\ next_arg' = next_arg + 1
    /\ UNCHANGED <<declared, args, given, errors, warnings, stage, history, text>>

(* _take_value: after "=", or the next token whatever it is.                 *)
HasValue == Token.value = "none" => next_arg < Len(args)
Text(token) == IF token.value = "none" THEN token.word ELSE "option=value"
RawValue == IF Token.value # "none" THEN Token.value ELSE Text(args[next_arg + 1])
After == IF Token.value # "none" THEN next_arg + 1 ELSE next_arg + 2

AliasValue ==
    /\ Parsing /\ Owners(Token.word) # {} /\ ~IsBareFlag(Owner(Token.word)) /\ HasValue
    /\ Store(Owner(Token.word), RawValue)
    /\ next_arg' = After
    /\ stage' = IF errors' = errors THEN "parse" ELSE "refused"
    /\ UNCHANGED <<declared, args, given, warnings, history, text>>

(* -i key=value: a malformed pair is an error, an unknown key a warning, and
   the rest is read.  An option with its value is no pair: a key begins with a
   letter or an underscore.                                                 *)
KeyOf(raw) ==
    CASE raw = "count=7" -> "count" [] raw = "flag=7" -> "flag"
      [] raw = "other=7" -> "other" [] OTHER -> "none"
Generic ==
    /\ Parsing /\ Owners(Token.word) = {} /\ Token.word = "-i" /\ HasValue
    /\ LET key == KeyOf(RawValue) IN
         \/ /\ key \in DOMAIN declared
            /\ Store(key, "7") /\ UNCHANGED warnings
         \/ /\ key \notin DOMAIN declared
            /\ IF key = "none" THEN errors' = errors + 1 /\ UNCHANGED warnings
               ELSE warnings' = warnings + 1 /\ UNCHANGED errors
            /\ UNCHANGED <<values, setBy>>
    /\ next_arg' = After
    /\ UNCHANGED <<declared, args, given, stage, history, text>>

MissingValue ==
    /\ Parsing /\ ~HasValue
    /\ IF Owners(Token.word) # {} THEN ~IsBareFlag(Owner(Token.word)) ELSE Token.word = "-i"
    /\ errors' = errors + 1 /\ stage' = "refused"
    /\ UNCHANGED <<declared, args, given, next_arg, values, setBy, warnings, history, text>>

Unknown ==
    /\ Parsing /\ Owners(Token.word) = {} /\ Token.word # "-i"
    /\ warnings' = warnings + 1 /\ next_arg' = next_arg + 1
    /\ UNCHANGED <<declared, args, given, values, setBy, errors, stage, history, text>>

(* resolve_inputs: overrides replace what was parsed, defaults fill what is
   left, as they are; then every required input must have a value.          *)
DefaultsWin(name) == name \in DOMAIN declared /\ declared[name].default # "none"    \* mutant
UseDefault(name) ==
    /\ name \in DOMAIN declared /\ declared[name].default # "none"
    /\ name \notin DOMAIN values \cup DOMAIN given
ValueOf(name) ==
    IF UseDefault(name) THEN Coerced("any", declared[name].default)
    ELSE IF name \in DOMAIN given THEN given[name] ELSE values[name]
Resolved ==
    [n \in DOMAIN values \cup DOMAIN given \cup {d \in DOMAIN declared : UseDefault(d)} |-> ValueOf(n)]
Missing(v) == {n \in DOMAIN declared : declared[n].required /\ n \notin DOMAIN v}

ResolveInputs ==
    /\ stage = "parse" /\ next_arg > Len(args)
    /\ IF errors > 0 THEN stage' = "refused" /\ UNCHANGED values
       ELSE values' = Resolved /\ stage' = IF Missing(Resolved) = {} THEN "ready" ELSE "missing"
    /\ UNCHANGED <<declared, args, given, next_arg, setBy, errors, warnings, history, text>>

----------------------------------------------------------------------------
(* interpolate_string, for one expression.                                  *)

(* steps.<id>.outputs.<key>: the latest step of that id.                     *)
Finished(id) == {i \in DOMAIN history : history[i].id = id}
Earliest(id) == CHOOSE i \in Finished(id) : \A j \in Finished(id) : i <= j  \* mutant: the first iteration
Latest(id) == CHOOSE i \in Finished(id) : \A j \in Finished(id) : i >= j
StepOutput(id, key) ==
    IF Finished(id) # {} /\ key \in DOMAIN history[Latest(id)].outputs
    THEN history[Latest(id)].outputs[key] ELSE ""

(* steps[0].status and steps[-1].status count, steps.<id>.status names; a
   number is an index also where a step is called by it.                    *)
ByIndex(n) ==
    IF n >= 0 /\ n < Len(history) THEN history[n + 1].status
    ELSE IF n < 0 /\ 0 - n <= Len(history) THEN history[Len(history) + n + 1].status
    ELSE ""
ById(id) == IF Finished(id) = {} THEN "" ELSE history[Latest(id)].status

PreviousStep == IF history = <<>> THEN "" ELSE history[Len(history)].status

(* Metadata first, then the inputs; an expression that is neither stays.    *)
Lookup(p) ==
    CASE p.kind = "output" -> StepOutput(p.id, p.key)
      [] p.kind = "index" -> ByIndex(p.n)
      [] p.kind = "status" -> ById(p.id)
      [] p.kind = "previous" -> PreviousStep
      [] p.kind = "input" -> IF p.id \in DOMAIN values THEN values[p.id].raw ELSE "unreplaced"

(* A step begins an attempt: its fields are made from the authored text, and
   then it ends and is recorded.                                            *)
BeginStep ==
    /\ stage = "ready"
    /\ \E entry \in Histories :
         /\ Len(history) < MaxRecords
         /\ text' = [p \in Selectors |-> Lookup(p)]
         /\ history' = Append(history, entry)
    /\ UNCHANGED <<declared, args, given, next_arg, values, setBy, errors, warnings, stage>>

InputNext ==
    \/ BareFlag \/ AliasValue \/ Generic \/ MissingValue \/ Unknown \/ ResolveInputs \/ BeginStep

InputSpec == InputInit /\ [][InputNext]_ivars

----------------------------------------------------------------------------
(* Properties.                                                              *)

(* The variables have the values the code gives them.                       *)
InputTypeOK ==
    /\ next_arg \in 1..(Len(args) + 1)
    /\ errors \in 0..Len(args) /\ warnings \in 0..Len(args)
    /\ stage \in {"parse", "missing", "refused", "ready"}
    /\ DOMAIN setBy \subseteq DOMAIN declared

(* A run that is accepted has every required input; a value typed on the
   command line is kept over a default and has the declared type.                                                   *)
AcceptedInputsAreGiven ==
    stage = "ready" =>
        /\ \A n \in DOMAIN declared : declared[n].required => n \in DOMAIN values
        /\ \A n \in DOMAIN setBy \ DOMAIN given :
             /\ values[n].type = declared[n].type
             /\ LET token == args[setBy[n]] IN
                  token.value # "none" /\ token.word # "-i" => values[n].raw = token.value

(* What a step reads of an earlier step is what its last execution left: in
   a loop the iteration before, never an older one.                         *)
ReadsAreFresh ==
    [][\A p \in Selectors : p.kind = "output" /\ text' # text =>
         \A i \in DOMAIN history :
            history[i].id = p.id /\ (\A j \in DOMAIN history : j > i => history[j].id # p.id)
                /\ p.key \in DOMAIN history[i].outputs
                => text'[p] = history[i].outputs[p.key]]_ivars

(* Inputs: what an accepted run starts with, and what its steps then read.   *)
InputsAreFaithful == []InputTypeOK /\ []AcceptedInputsAreGiven /\ ReadsAreFresh

----------------------------------------------------------------------------
(* What makes them inductive.                                               *)

(* An input that the command line has set is as it was typed there, until an
   override replaces it.                                                     *)
AsTyped(name) ==
    /\ name \in DOMAIN values /\ setBy[name] \in DOMAIN args
    /\ values[name].type = declared[name].type
    /\ LET token == args[setBy[name]] IN
         token.value # "none" /\ token.word # "-i" => values[name].raw = token.value
KeptAsTyped ==
    \A n \in DOMAIN setBy : AsTyped(n) \/ (stage \in {"missing", "ready"} /\ n \in DOMAIN given)

(* A token gives one error or one warning at most.                           *)
ComplaintsCounted == stage = "parse" => errors < next_arg /\ warnings < next_arg

InputIInv ==
    /\ declared \in Declarations /\ args \in Commands /\ history \in Seq(Histories)
    /\ InputTypeOK /\ ComplaintsCounted /\ KeptAsTyped /\ AcceptedInputsAreGiven
=============================================================================
