------------------------- MODULE LoopExecutionProofs -------------------------
(***************************************************************************)
(* What holds of LoopExecution for every number of drivers, body steps and  *)
(* iterations, every policy and every combination of faults.                *)
(***************************************************************************)
EXTENDS LoopExecution, SequenceTheorems, TLAPS

----------------------------------------------------------------------------
(* Loops.                                                                   *)

LEMMA LoopShape ==
    ASSUME NEW loop \in Loop
    PROVE  /\ loop.iterations \in Seq(Iteration)
           /\ Count(loop) \in Nat \ {0} /\ Ceiling(loop) \in Nat /\ loop.granted \in Nat
           /\ \A i \in 1..Count(loop) : loop.iterations[i] \in Iteration
           /\ Current(loop) \in Iteration
           /\ \A i \in 1..Count(loop), k \in Body : loop.iterations[i].steps[k] \in Leaf
<1>1. loop.iterations \in Seq(Iteration) /\ loop.iterations # <<>> /\ loop.granted \in Nat
  BY DEF Loop
<1>2. Count(loop) \in Nat \ {0}
  BY <1>1, EmptySeq DEF Count
<1>3. \A i \in 1..Count(loop) : loop.iterations[i] \in Iteration
  BY <1>1, ElementOfSeq DEF Count
<1>4. Count(loop) \in 1..Count(loop)
  BY <1>2
<1>5. Ceiling(loop) \in Nat
  BY <1>1, LoopAssumption DEF Ceiling
<1> QED BY <1>1, <1>2, <1>3, <1>4, <1>5 DEF Current, Iteration

(* An iteration is replaced in place.                                       *)
LEMMA InPlace ==
    ASSUME NEW loop \in Loop, NEW i \in 1..Count(loop), NEW it \in Iteration
    PROVE  LET its == [loop.iterations EXCEPT ![i] = it]
           IN  /\ its \in Seq(Iteration) \ {<<>>} /\ Len(its) = Count(loop)
               /\ \A j \in 1..Count(loop) : its[j] = IF j = i THEN it ELSE loop.iterations[j]
<1> DEFINE its == [loop.iterations EXCEPT ![i] = it]
<1>1. /\ its \in Seq(Iteration) /\ Len(its) = Count(loop)
      /\ \A j \in 1..Count(loop) : its[j] = IF j = i THEN it ELSE loop.iterations[j]
  BY LoopShape, ExceptSeq DEF Count
<1>2. its # <<>>
  BY <1>1, LoopShape, EmptySeq
<1> QED BY <1>1, <1>2

LEMMA BegunShape ==
    ASSUME NEW loop \in Loop
    PROVE  /\ Begun(loop) \in Loop /\ Count(Begun(loop)) = Count(loop)
           /\ Begun(loop).granted = loop.granted /\ Begun(loop).state = "RUNNING"
           /\ \A j \in 1..Count(loop) : /\ Begun(loop).iterations[j].until = loop.iterations[j].until
                                        /\ Begun(loop).iterations[j].steps = loop.iterations[j].steps
<1> DEFINE it == [Current(loop) EXCEPT !.state = "RUNNING"]
           its == [loop.iterations EXCEPT ![Count(loop)] = it]
<1>1. Current(loop) \in Iteration /\ Count(loop) \in 1..Count(loop) /\ loop.granted \in Nat
  BY LoopShape
<1>2. it \in Iteration /\ it.until = Current(loop).until /\ it.steps = Current(loop).steps
  BY <1>1 DEF Iteration, Terminal
<1>3. /\ its \in Seq(Iteration) \ {<<>>} /\ Len(its) = Count(loop)
      /\ \A j \in 1..Count(loop) : its[j] = IF j = Count(loop) THEN it ELSE loop.iterations[j]
  BY <1>1, <1>2, InPlace
<1>4. /\ Begun(loop).iterations = its /\ Begun(loop).granted = loop.granted
      /\ Begun(loop).state = "RUNNING"
  BY DEF Begun, Current, Loop
<1>5. its \in Seq(Iteration) \ {<<>>} => Begun(loop) \in Loop
  BY DEF Begun, Current, Loop, LoopStates
<1> HIDE DEF it, its
<1> QED BY <1>2, <1>3, <1>4, <1>5 DEF Current, Count

LEMMA JudgedShape ==
    ASSUME NEW loop \in Loop, NEW verdict \in {"passed", "failed"}
    PROVE  /\ Judged(loop, verdict) \in Loop /\ Count(Judged(loop, verdict)) = Count(loop)
           /\ Judged(loop, verdict).granted = loop.granted /\ Judged(loop, verdict).state = loop.state
           /\ \A j \in 1..Count(loop) :
                 /\ Judged(loop, verdict).iterations[j].steps = loop.iterations[j].steps
                 /\ Judged(loop, verdict).iterations[j].until =
                       IF j = Count(loop) THEN verdict ELSE loop.iterations[j].until
<1> DEFINE it == [Current(loop) EXCEPT !.until = verdict, !.state = "COMPLETED"]
           its == [loop.iterations EXCEPT ![Count(loop)] = it]
<1>1. Current(loop) \in Iteration /\ Count(loop) \in 1..Count(loop) /\ loop.granted \in Nat
  BY LoopShape
<1>2. it \in Iteration /\ it.until = verdict /\ it.steps = Current(loop).steps
  BY <1>1 DEF Iteration, Terminal
<1>3. /\ its \in Seq(Iteration) \ {<<>>} /\ Len(its) = Count(loop)
      /\ \A j \in 1..Count(loop) : its[j] = IF j = Count(loop) THEN it ELSE loop.iterations[j]
  BY <1>1, <1>2, InPlace
<1>4. /\ Judged(loop, verdict).iterations = its /\ Judged(loop, verdict).granted = loop.granted
      /\ Judged(loop, verdict).state = loop.state
  BY DEF Judged, Current, Loop
<1>5. its \in Seq(Iteration) \ {<<>>} => Judged(loop, verdict) \in Loop
  BY DEF Judged, Current, Loop
<1> HIDE DEF it, its
<1> QED BY <1>2, <1>3, <1>4, <1>5 DEF Current, Count

LEMMA FailedShape ==
    ASSUME NEW loop \in Loop
    PROVE  /\ Failed(loop) \in Loop /\ Count(Failed(loop)) = Count(loop)
           /\ Failed(loop).granted = loop.granted /\ Failed(loop).state = "FAILED"
           /\ \A j \in 1..Count(loop) : /\ Failed(loop).iterations[j].until = loop.iterations[j].until
                                        /\ Failed(loop).iterations[j].steps = loop.iterations[j].steps
<1> DEFINE it == [Current(loop) EXCEPT !.state = IF @ \in Terminal THEN @ ELSE "FAILED"]
           its == [loop.iterations EXCEPT ![Count(loop)] = it]
<1>1. Current(loop) \in Iteration /\ Count(loop) \in 1..Count(loop) /\ loop.granted \in Nat
  BY LoopShape
<1>2. it \in Iteration /\ it.until = Current(loop).until /\ it.steps = Current(loop).steps
  BY <1>1 DEF Iteration, Terminal
<1>3. /\ its \in Seq(Iteration) \ {<<>>} /\ Len(its) = Count(loop)
      /\ \A j \in 1..Count(loop) : its[j] = IF j = Count(loop) THEN it ELSE loop.iterations[j]
  BY <1>1, <1>2, InPlace
<1>4. /\ Failed(loop).iterations = its /\ Failed(loop).granted = loop.granted
      /\ Failed(loop).state = "FAILED"
  BY DEF Failed, Current, Loop
<1>5. its \in Seq(Iteration) \ {<<>>} => Failed(loop) \in Loop
  BY DEF Failed, Current, Loop, LoopStates
<1> HIDE DEF it, its
<1> QED BY <1>2, <1>3, <1>4, <1>5 DEF Current, Count

(* One leaf of iteration i is replaced.                                     *)
LEMMA LeafShape ==
    ASSUME NEW loop \in Loop, NEW i \in 1..Count(loop), NEW k \in Body, NEW leaf \in Leaf
    PROVE  LET new == [loop EXCEPT !.iterations[i].steps[k] = leaf]
           IN  /\ new \in Loop /\ Count(new) = Count(loop)
               /\ new.granted = loop.granted /\ new.state = loop.state
               /\ \A j \in 1..Count(loop) :
                     /\ new.iterations[j].until = loop.iterations[j].until
                     /\ \A l \in Body : new.iterations[j].steps[l] =
                           IF j = i /\ l = k THEN leaf ELSE loop.iterations[j].steps[l]
<1> DEFINE old == loop.iterations[i]
           it == [old EXCEPT !.steps[k] = leaf]
           its == [loop.iterations EXCEPT ![i] = it]
           new == [loop EXCEPT !.iterations[i].steps[k] = leaf]
<1>1. old \in Iteration
  BY LoopShape
<1>2. /\ it \in Iteration /\ it.until = old.until
      /\ \A l \in Body : it.steps[l] = IF l = k THEN leaf ELSE old.steps[l]
  BY <1>1 DEF Iteration
<1>3. /\ its \in Seq(Iteration) \ {<<>>} /\ Len(its) = Count(loop)
      /\ \A j \in 1..Count(loop) : its[j] = IF j = i THEN it ELSE loop.iterations[j]
  BY <1>2, InPlace
<1>4. new.iterations = its /\ new.granted = loop.granted /\ new.state = loop.state
  BY DEF Loop
<1>5. its \in Seq(Iteration) \ {<<>>} => new \in Loop
  BY DEF Loop
<1> HIDE DEF it, its, new
<1>6. /\ new \in Loop /\ Count(new) = Count(loop)
      /\ \A j \in 1..Count(loop) :
            /\ new.iterations[j].until = loop.iterations[j].until
            /\ \A l \in Body : new.iterations[j].steps[l] =
                  IF j = i /\ l = k THEN leaf ELSE loop.iterations[j].steps[l]
  BY <1>2, <1>3, <1>4, <1>5 DEF Count
<1> QED BY <1>4, <1>6 DEF new

LEMMA RecoveredLeafShape ==
    ASSUME NEW leaf \in Leaf, SaneLeaf(leaf)
    PROVE  /\ RecoveredLeaf(leaf) \in Leaf /\ SaneLeaf(RecoveredLeaf(leaf))
           /\ Ended(leaf) => RecoveredLeaf(leaf) = leaf
           /\ Ended(RecoveredLeaf(leaf)) <=> Ended(leaf)
           /\ RecoveredLeaf(leaf).state = "PENDING" <=> leaf.state = "PENDING"
           /\ RecoveredLeaf(leaf).state # "RUNNING"
           /\ RecoveredLeaf(leaf).attempt = leaf.attempt
BY DEF RecoveredLeaf, Settled, Interrupted, Ended, Terminal, Leaf, NodeStates, SaneLeaf

LEMMA RecoveredShape ==
    ASSUME NEW loop \in Loop,
           \A i \in 1..Count(loop), k \in Body : SaneLeaf(loop.iterations[i].steps[k])
    PROVE  /\ Recovered(loop) \in Loop /\ Count(Recovered(loop)) = Count(loop)
           /\ Recovered(loop).granted = loop.granted /\ Recovered(loop).state = loop.state
           /\ \A j \in 1..Count(loop) :
                 /\ Recovered(loop).iterations[j].until = loop.iterations[j].until
                 /\ \A k \in Body : Recovered(loop).iterations[j].steps[k] =
                                       RecoveredLeaf(loop.iterations[j].steps[k])
<1> DEFINE it(i) == RecoveredIteration(loop.iterations[i])
           its == [i \in 1..Count(loop) |-> it(i)]
<1>1. Count(loop) \in Nat \ {0} /\ \A i \in 1..Count(loop) : loop.iterations[i] \in Iteration
  BY LoopShape
<1>2. \A i \in 1..Count(loop), k \in Body : RecoveredLeaf(loop.iterations[i].steps[k]) \in Leaf
  BY LoopShape, RecoveredLeafShape
<1>3. \A i \in 1..Count(loop) :
         /\ it(i) \in Iteration /\ it(i).until = loop.iterations[i].until
         /\ \A k \in Body : it(i).steps[k] = RecoveredLeaf(loop.iterations[i].steps[k])
  BY <1>1, <1>2 DEF Iteration, RecoveredIteration
<1> HIDE DEF it
<1>4. its \in [1..Count(loop) -> Iteration]
  BY <1>3
<1>5. its \in Seq(Iteration)
  BY <1>1, <1>4, SeqDef
<1>6. Len(its) \in Nat /\ 1..Len(its) = 1..Count(loop)
  BY <1>5, LenProperties
<1>7. Len(its) = Count(loop)
  BY <1>1, <1>6
<1>8. its # <<>>
  BY <1>1, <1>5, <1>7, EmptySeq
<1>9. Recovered(loop) = [loop EXCEPT !.iterations = its]
  BY DEF Recovered, it
<1> HIDE DEF its
<1>10. /\ Recovered(loop).iterations = its
       /\ Recovered(loop).granted = loop.granted /\ Recovered(loop).state = loop.state
  BY <1>9 DEF Loop
<1>11. Recovered(loop) \in Loop
  BY <1>5, <1>8, <1>9 DEF Loop
<1> QED BY <1>3, <1>7, <1>10, <1>11 DEF Count, its

(* A planned iteration is appended and begun.                               *)
LEMMA NewIterationType ==
    /\ NewIteration \in Iteration /\ NewIteration.until = "none"
    /\ \A k \in Body : NewIteration.steps[k] = Planned
BY DEF NewIteration, Iteration, Planned, Leaf, NodeStates

LEMMA AnotherShape ==
    ASSUME NEW loop \in Loop
    PROVE  LET new == AnotherBegun(loop)
           IN  /\ new \in Loop /\ Count(new) = Count(loop) + 1
               /\ new.granted = loop.granted /\ new.state = "RUNNING"
               /\ \A j \in 1..Count(loop) : /\ new.iterations[j].until = loop.iterations[j].until
                                            /\ new.iterations[j].steps = loop.iterations[j].steps
               /\ Current(new).until = "none"
               /\ \A k \in Body : Current(new).steps[k] = Planned
<1> DEFINE more == [loop EXCEPT !.iterations = Append(@, NewIteration)]
           its == Append(loop.iterations, NewIteration)
<1>1. /\ its \in Seq(Iteration) /\ Len(its) = Count(loop) + 1
      /\ \A j \in 1..Count(loop) : its[j] = loop.iterations[j]
      /\ its[Count(loop) + 1] = NewIteration
  BY LoopShape, NewIterationType, AppendProperties DEF Count
<1>2. its # <<>> /\ Count(loop) \in Nat
  BY <1>1, LoopShape, EmptySeq
<1>3. more.iterations = its /\ more.granted = loop.granted
  BY DEF Loop
<1>4. more \in Loop /\ Count(more) = Count(loop) + 1
  BY <1>1, <1>2, <1>3 DEF Loop, Count
<1>5. AnotherBegun(loop) = Begun(more)
  BY DEF AnotherBegun
<1> HIDE DEF more, its
<1>6. \A j \in 1..Count(loop) : j \in 1..Count(more)
  BY <1>2, <1>4
<1>7. Count(loop) + 1 \in 1..Count(more)
  BY <1>2, <1>4
<1>8. /\ Begun(more) \in Loop /\ Count(Begun(more)) = Count(more)
      /\ Begun(more).granted = more.granted /\ Begun(more).state = "RUNNING"
      /\ \A j \in 1..Count(more) : /\ Begun(more).iterations[j].until = more.iterations[j].until
                                   /\ Begun(more).iterations[j].steps = more.iterations[j].steps
  BY <1>4, BegunShape
<1> QED BY <1>1, <1>3, <1>4, <1>5, <1>6, <1>7, <1>8, NewIterationType DEF Current

----------------------------------------------------------------------------
(* What a change of the loop may do: to the iterations it had, and to what  *)
(* RepeatUntil sees of it.                                                  *)

Kept(before, after) ==
    /\ before.until # "none" =>
          /\ after.until = before.until
          /\ \A k \in Body : \/ after.steps[k] = before.steps[k]
                             \/ after.steps[k].state = "CANCELLED"
    /\ \A k \in Body : /\ before.steps[k].attempt <= after.steps[k].attempt
                       /\ before.steps[k].state # "PENDING" => after.steps[k].state # "PENDING"

Evolves(old, new) ==
    /\ new \in Loop /\ WellFormed(new)
    /\ Count(old) <= Count(new)
    /\ \A i \in 1..Count(old) : Kept(old.iterations[i], new.iterations[i])

Phase(loop) ==
    CASE loop.state \in {"PENDING", "RUNNING"} -> "open"
      [] loop.state = "COMPLETED" -> "done"
      [] loop.state \in {"FAILED", "CANCELLED"} -> "stopped"

SameButPhase(old, new) ==
    /\ Count(new) = Count(old) /\ new.granted = old.granted
    /\ Current(new).until = Current(old).until

Stays(old, new) == SameButPhase(old, new) /\ Phase(new) = Phase(old)
Judges(old, new) ==
    /\ Phase(old) = "open" /\ Phase(new) = "open"
    /\ Current(old).until = "none" /\ Current(new).until \in {"passed", "failed"}
    /\ Count(new) = Count(old) /\ new.granted = old.granted
Repeats(old, new) ==
    /\ Phase(old) = "open" /\ Phase(new) = "open"
    /\ Current(old).until = "failed" /\ Current(new).until = "none"
    /\ Count(old) < Ceiling(old) /\ Count(new) = Count(old) + 1 /\ new.granted = old.granted
Extends(old, new) ==
    /\ Phase(old) = "open" /\ Phase(new) = "open"
    /\ Current(old).until = "failed" /\ Current(new).until = "failed"
    /\ Count(old) = Ceiling(old)
    /\ Count(new) = Count(old) /\ new.granted = old.granted + GrantCount
Ends(old, new) ==
    /\ Phase(old) = "open" /\ Phase(new) = "done"
    /\ \/ Current(old).until = "passed"
       \/ Current(old).until = "failed" /\ Count(old) = Ceiling(old)
    /\ SameButPhase(old, new)
Stops(old, new) ==
    /\ Phase(old) # "stopped" /\ Phase(new) = "stopped"
    /\ SameButPhase(old, new)

Moves(old, new) ==
    \/ Stays(old, new) \/ Judges(old, new) \/ Repeats(old, new)
    \/ Extends(old, new) \/ Ends(old, new) \/ Stops(old, new)

LEMMA EndedStates ==
    ASSUME NEW leaf
    PROVE  Ended(leaf) => leaf.state \notin {"PENDING", "RUNNING", "PAUSED"}
BY DEF Ended, Terminal

(* The steps and verdicts of all iterations stay as they are.               *)
LEMMA SameStepsEvolve ==
    ASSUME NEW old \in Loop, WellFormed(old), NEW new \in Loop, Count(new) = Count(old),
           Ceiling(old) <= Ceiling(new),
           \A j \in 1..Count(old) : /\ new.iterations[j].until = old.iterations[j].until
                                    /\ new.iterations[j].steps = old.iterations[j].steps
    PROVE  Evolves(old, new) /\ Current(new).until = Current(old).until
<1>1. /\ Count(old) \in Nat \ {0} /\ Ceiling(old) \in Nat /\ Ceiling(new) \in Nat
      /\ \A i \in 1..Count(old), k \in Body : old.iterations[i].steps[k].attempt \in Nat
  BY LoopShape DEF Leaf
<1>2. /\ Count(old) \in 1..Count(old) /\ \A i \in 1..(Count(old) - 1) : i \in 1..Count(old)
  BY <1>1
<1>3. Current(new).steps = Current(old).steps /\ Current(new).until = Current(old).until
  BY <1>2 DEF Current
<1>4. InOrder(new)
  BY <1>2, <1>3 DEF WellFormed, InOrder, BodyDone
<1>5. Count(new) <= Ceiling(new)
  BY <1>1 DEF WellFormed
<1>6. \A i \in 1..Count(new), k \in Body : SaneLeaf(new.iterations[i].steps[k])
  BY DEF WellFormed
<1>7. \A i \in 1..Count(old) : Kept(old.iterations[i], new.iterations[i])
  BY <1>1 DEF Kept
<1> QED BY <1>1, <1>3, <1>4, <1>5, <1>6, <1>7 DEF Evolves, WellFormed

LEMMA RecoveredEvolves ==
    ASSUME NEW old \in Loop, WellFormed(old)
    PROVE  /\ Evolves(old, Recovered(old)) /\ Stays(old, Recovered(old))
           /\ \A k \in Body : Current(Recovered(old)).steps[k].state # "RUNNING"
<1> DEFINE new == Recovered(old)
<1>0. \A i \in 1..Count(old), k \in Body : SaneLeaf(old.iterations[i].steps[k])
  BY DEF WellFormed
<1>1. /\ new \in Loop /\ Count(new) = Count(old)
      /\ new.granted = old.granted /\ new.state = old.state
      /\ \A j \in 1..Count(old) :
            /\ new.iterations[j].until = old.iterations[j].until
            /\ \A k \in Body : new.iterations[j].steps[k] = RecoveredLeaf(old.iterations[j].steps[k])
  BY <1>0, RecoveredShape
<1>2. /\ Count(old) \in Nat \ {0} /\ Count(old) \in 1..Count(old)
      /\ \A i \in 1..(Count(old) - 1) : i \in 1..Count(old)
  BY LoopShape
<1>3. \A i \in 1..Count(old), k \in Body :
         LET leaf == old.iterations[i].steps[k]
         IN  /\ leaf \in Leaf /\ leaf.attempt \in Nat
             /\ SaneLeaf(RecoveredLeaf(leaf))
             /\ Ended(leaf) => RecoveredLeaf(leaf) = leaf
             /\ Ended(RecoveredLeaf(leaf)) <=> Ended(leaf)
             /\ RecoveredLeaf(leaf).state = "PENDING" <=> leaf.state = "PENDING"
             /\ RecoveredLeaf(leaf).state # "RUNNING"
             /\ RecoveredLeaf(leaf).attempt = leaf.attempt
  BY <1>0, LoopShape, RecoveredLeafShape DEF Leaf
<1> HIDE DEF new
<1>4. \A i \in 1..Count(old) : old.iterations[i].until # "none" =>
         \A k \in Body : Ended(old.iterations[i].steps[k])
  BY <1>2 DEF WellFormed, InOrder, BodyDone, Current
<1>5. InOrder(new)
  BY <1>1, <1>2, <1>3 DEF WellFormed, InOrder, BodyDone, Current
<1>6. Count(new) <= Ceiling(new)
  BY <1>1 DEF WellFormed, Ceiling
<1>7. \A i \in 1..Count(new), k \in Body : SaneLeaf(new.iterations[i].steps[k])
  BY <1>1, <1>3
<1>8. \A i \in 1..Count(old) : Kept(old.iterations[i], new.iterations[i])
  BY <1>1, <1>3, <1>4 DEF Kept
<1>9. Stays(old, new) /\ \A k \in Body : Current(new).steps[k].state # "RUNNING"
  BY <1>1, <1>2, <1>3 DEF Stays, SameButPhase, Phase, Current
<1>10. Evolves(old, new)
  BY <1>1, <1>2, <1>5, <1>6, <1>7, <1>8 DEF Evolves, WellFormed
<1> QED BY <1>9, <1>10 DEF new

LEMMA BegunEvolves ==
    ASSUME NEW old \in Loop, WellFormed(old), old.state = "PENDING"
    PROVE  Evolves(old, Begun(old)) /\ Stays(old, Begun(old)) /\ Begun(old).state = "RUNNING"
<1>1. Ceiling(old) = Ceiling(Begun(old)) /\ Ceiling(old) \in Nat
  BY BegunShape, LoopShape DEF Ceiling
<1>2. Evolves(old, Begun(old)) /\ Current(Begun(old)).until = Current(old).until
  BY <1>1, BegunShape, SameStepsEvolve
<1> QED BY <1>2, BegunShape DEF Stays, SameButPhase, Phase

LEMMA FailedEvolves ==
    ASSUME NEW old \in Loop, WellFormed(old), ~Stopped(old)
    PROVE  Evolves(old, Failed(old)) /\ Stops(old, Failed(old))
<1>1. Ceiling(old) = Ceiling(Failed(old)) /\ Ceiling(old) \in Nat
  BY FailedShape, LoopShape DEF Ceiling
<1>2. Evolves(old, Failed(old)) /\ Current(Failed(old)).until = Current(old).until
  BY <1>1, FailedShape, SameStepsEvolve
<1>3. old.state \in {"PENDING", "RUNNING", "COMPLETED"}
  BY DEF Stopped, Loop, LoopStates
<1> QED BY <1>2, <1>3, FailedShape DEF Stops, SameButPhase, Phase

LEMMA GrantedEvolves ==
    ASSUME NEW old \in Loop, WellFormed(old), old.state = "RUNNING", AtCeiling(old)
    PROVE  /\ Evolves(old, Granted(old)) /\ Extends(old, Granted(old))
           /\ Granted(old).state = old.state
           /\ \A k \in Body : Ended(Current(Granted(old)).steps[k])
<1> DEFINE new == Granted(old)
<1>1. /\ new.granted = old.granted + GrantCount /\ new.iterations = old.iterations
      /\ new.state = old.state
  BY DEF Granted, Loop
<1>2. new \in Loop
  BY LoopAssumption DEF Granted, Loop
<1>3. Ceiling(old) \in Nat /\ Ceiling(new) \in Nat /\ Ceiling(old) <= Ceiling(new)
  BY <1>1, LoopShape, LoopAssumption DEF Ceiling
<1>4. Count(old) = Ceiling(old)
  BY <1>3, LoopShape DEF AtCeiling, WellFormed
<1> HIDE DEF new
<1>5. Evolves(old, new) /\ Current(new).until = Current(old).until
  BY <1>1, <1>2, <1>3, SameStepsEvolve DEF Count
<1>6. Extends(old, new)
  BY <1>1, <1>4, <1>5 DEF Extends, Phase, AtCeiling, Count
<1>7. \A k \in Body : Ended(Current(new).steps[k])
  BY <1>1 DEF AtCeiling, BodyDone, Current, Count
<1> QED BY <1>1, <1>5, <1>6, <1>7 DEF new

LEMMA FinishedEvolves ==
    ASSUME NEW old \in Loop, WellFormed(old), old.state = "RUNNING",
           HasPassed(old) \/ AtCeiling(old)
    PROVE  /\ Evolves(old, Finished(old)) /\ Ends(old, Finished(old))
           /\ Finished(old).state = "COMPLETED"
           /\ \A k \in Body : Ended(Current(Finished(old)).steps[k])
<1> DEFINE new == Finished(old)
<1>1. /\ new.granted = old.granted /\ new.iterations = old.iterations
      /\ new.state = "COMPLETED"
  BY DEF Finished, Loop
<1>2. new \in Loop
  BY DEF Finished, Loop, LoopStates
<1>3. Ceiling(old) \in Nat /\ Ceiling(new) = Ceiling(old) /\ Count(old) \in Nat
  BY <1>1, LoopShape DEF Ceiling
<1>4. AtCeiling(old) => Count(old) = Ceiling(old)
  BY <1>3 DEF AtCeiling, WellFormed
<1> HIDE DEF new
<1>5. Evolves(old, new) /\ Current(new).until = Current(old).until
  BY <1>1, <1>2, <1>3, SameStepsEvolve DEF Count
<1>6. Ends(old, new)
  BY <1>1, <1>4, <1>5 DEF Ends, SameButPhase, Phase, AtCeiling, HasPassed, Count
<1>7. \A k \in Body : Ended(Current(new).steps[k])
  BY <1>1 DEF AtCeiling, HasPassed, BodyDone, Current, Count
<1> QED BY <1>1, <1>5, <1>6, <1>7 DEF new

LEMMA JudgedEvolves ==
    ASSUME NEW old \in Loop, WellFormed(old), old.state = "RUNNING", MustJudge(old),
           NEW verdict \in {"passed", "failed"}
    PROVE  /\ Evolves(old, Judged(old, verdict)) /\ Judges(old, Judged(old, verdict))
           /\ Judged(old, verdict).state = old.state
           /\ \A k \in Body : Ended(Current(Judged(old, verdict)).steps[k])
<1> DEFINE new == Judged(old, verdict)
<1>1. /\ new \in Loop /\ Count(new) = Count(old)
      /\ new.granted = old.granted /\ new.state = old.state
      /\ \A j \in 1..Count(old) :
            /\ new.iterations[j].steps = old.iterations[j].steps
            /\ new.iterations[j].until =
                  IF j = Count(old) THEN verdict ELSE old.iterations[j].until
  BY JudgedShape
<1>2. /\ Count(old) \in Nat \ {0} /\ Count(old) \in 1..Count(old)
      /\ \A i \in 1..(Count(old) - 1) : i \in 1..Count(old) /\ i # Count(old)
      /\ \A i \in 1..Count(old), k \in Body : old.iterations[i].steps[k].attempt \in Nat
  BY LoopShape DEF Leaf
<1>3. Current(old).until = "none" /\ \A k \in Body : Ended(Current(old).steps[k])
  BY DEF MustJudge, BodyDone
<1> HIDE DEF new
<1>4. Current(new).until = verdict /\ \A k \in Body : Ended(Current(new).steps[k])
  BY <1>1, <1>2, <1>3 DEF Current
<1>5. InOrder(new)
  BY <1>1, <1>2, <1>4 DEF WellFormed, InOrder, BodyDone
<1>6. Count(new) <= Ceiling(new)
  BY <1>1 DEF WellFormed, Ceiling
<1>7. \A i \in 1..Count(new), k \in Body : SaneLeaf(new.iterations[i].steps[k])
  BY <1>1 DEF WellFormed
<1>8. \A i \in 1..Count(old) : Kept(old.iterations[i], new.iterations[i])
  BY <1>1, <1>2, <1>3 DEF Kept, Current
<1>9. Judges(old, new)
  BY <1>1, <1>3, <1>4 DEF Judges, Phase
<1>10. Evolves(old, new)
  BY <1>1, <1>2, <1>5, <1>6, <1>7, <1>8 DEF Evolves, WellFormed
<1> QED BY <1>1, <1>4, <1>9, <1>10 DEF new

LEMMA AnotherEvolves ==
    ASSUME NEW old \in Loop, WellFormed(old), old.state = "RUNNING", MayRepeat(old)
    PROVE  /\ Evolves(old, AnotherBegun(old)) /\ Repeats(old, AnotherBegun(old))
           /\ AnotherBegun(old).state = "RUNNING"
           /\ \A k \in Body : Current(AnotherBegun(old)).steps[k].state = "PENDING"
<1> DEFINE new == AnotherBegun(old)
<1>1. /\ new \in Loop /\ Count(new) = Count(old) + 1
      /\ new.granted = old.granted /\ new.state = "RUNNING"
      /\ \A j \in 1..Count(old) : /\ new.iterations[j].until = old.iterations[j].until
                                  /\ new.iterations[j].steps = old.iterations[j].steps
      /\ Current(new).until = "none"
      /\ \A k \in Body : Current(new).steps[k] = Planned
  BY AnotherShape
<1>2. /\ Count(old) \in Nat \ {0} /\ Count(old) \in 1..Count(old) /\ Ceiling(old) \in Nat
      /\ \A i \in 1..(Count(new) - 1) : i \in 1..Count(old)
      /\ \A i \in 1..Count(old) : i \in 1..(Count(old) - 1) \/ i = Count(old)
      /\ \A i \in 1..Count(new) : i \in 1..Count(old) \/ i = Count(new)
      /\ \A i \in 1..Count(old), k \in Body : old.iterations[i].steps[k].attempt \in Nat
  BY <1>1, LoopShape DEF Leaf
<1>3. /\ Current(old).until = "failed" /\ \A k \in Body : Ended(Current(old).steps[k])
      /\ Count(old) < Ceiling(old)
  BY DEF MayRepeat, BodyDone
<1> HIDE DEF new
<1>4. /\ Planned.state = "PENDING" /\ Planned.attempt = 0 /\ SaneLeaf(Planned)
  BY DEF Planned, SaneLeaf
<1>5. \A i \in 1..Count(old) : /\ old.iterations[i].until = "failed"
                               /\ \A k \in Body : Ended(old.iterations[i].steps[k])
  BY <1>2, <1>3 DEF WellFormed, InOrder, Current
<1>6. InOrder(new)
  BY <1>1, <1>2, <1>4, <1>5 DEF InOrder
<1>7. Count(new) <= Ceiling(new)
  BY <1>1, <1>2, <1>3 DEF Ceiling
<1>8. \A i \in 1..Count(new), k \in Body : SaneLeaf(new.iterations[i].steps[k])
  BY <1>1, <1>2, <1>4 DEF WellFormed, Current
<1>9. \A i \in 1..Count(old) : Kept(old.iterations[i], new.iterations[i])
  BY <1>1, <1>2 DEF Kept
<1>10. Repeats(old, new)
  BY <1>1, <1>3 DEF Repeats, Phase
<1>11. Evolves(old, new)
  BY <1>1, <1>2, <1>6, <1>7, <1>8, <1>9 DEF Evolves, WellFormed
<1> QED BY <1>1, <1>4, <1>10, <1>11 DEF new

LEMMA LeafEvolves ==
    ASSUME NEW old \in Loop, WellFormed(old), NEW k \in Body, NextBodyStep(old, k),
           NEW leaf \in Leaf, SaneLeaf(leaf), leaf.state # "PENDING",
           Current(old).steps[k].attempt <= leaf.attempt
    PROVE  LET new == WithLeaf(old, k, leaf)
           IN  /\ Evolves(old, new) /\ Stays(old, new)
               /\ new.state = old.state /\ Count(new) = Count(old)
               /\ \A l \in Body : Current(new).steps[l] =
                     IF l = k THEN leaf ELSE Current(old).steps[l]
               /\ ~Ended(leaf) => NextBodyStep(new, k)
<1> DEFINE new == WithLeaf(old, k, leaf)
<1>1. /\ Count(old) \in Nat \ {0} /\ Count(old) \in 1..Count(old)
      /\ \A i \in 1..(Count(old) - 1) : i \in 1..Count(old) /\ i # Count(old)
      /\ \A i \in 1..Count(old), l \in Body : old.iterations[i].steps[l].attempt \in Nat
  BY LoopShape DEF Leaf
<1>2. /\ new \in Loop /\ Count(new) = Count(old)
      /\ new.granted = old.granted /\ new.state = old.state
      /\ \A j \in 1..Count(old) :
            /\ new.iterations[j].until = old.iterations[j].until
            /\ \A l \in Body : new.iterations[j].steps[l] =
                  IF j = Count(old) /\ l = k THEN leaf ELSE old.iterations[j].steps[l]
  <2>1. Count(old) \in 1..Count(old)
    BY <1>1
  <2>2. new = [old EXCEPT !.iterations[Count(old)].steps[k] = leaf]
    BY DEF WithLeaf
  <2> HIDE DEF new
  <2> QED BY <2>1, <2>2, LeafShape
<1> HIDE DEF new
<1>3. /\ Current(new).until = Current(old).until
      /\ \A l \in Body : Current(new).steps[l] = IF l = k THEN leaf ELSE Current(old).steps[l]
  <2>1. Current(new) = new.iterations[Count(old)] /\ Current(old) = old.iterations[Count(old)]
    BY <1>2 DEF Current
  <2>2. Count(old) \in 1..Count(old)
    BY <1>1
  <2> QED BY <1>2, <2>1, <2>2
<1>4. ~Ended(Current(old).steps[k]) /\ Current(old).until = "none"
  BY DEF NextBodyStep, WellFormed, InOrder, BodyDone
<1>5. \A j \in Body : j < k => j \in 1..(k - 1)
  BY LoopAssumption DEF Body
<1>6. \A j \in Body : j < k => Ended(Current(old).steps[j])
  BY <1>5 DEF NextBodyStep
<1>7. \A j \in 1..(k - 1) : j \in Body /\ j < k /\ j # k
  BY LoopAssumption DEF Body
<1>8. ASSUME NEW i \in Body, NEW j \in Body, i < j, Current(new).steps[j].state # "PENDING"
      PROVE  Ended(Current(new).steps[i])
  <2>1. CASE j = k
    BY <1>3, <1>6, <1>8, <2>1, LoopAssumption DEF Body
  <2>2. CASE j # k
    <3>1. Ended(Current(old).steps[i])
      BY <1>3, <1>8, <2>2 DEF WellFormed, InOrder
    <3> QED BY <1>3, <1>4, <3>1
  <2> QED BY <2>1, <2>2
<1>9. InOrder(new)
  BY <1>1, <1>2, <1>3, <1>4, <1>8 DEF WellFormed, InOrder
<1>10. Count(new) <= Ceiling(new)
  BY <1>2 DEF WellFormed, Ceiling
<1>11. \A i \in 1..Count(new), l \in Body : SaneLeaf(new.iterations[i].steps[l])
  BY <1>2 DEF WellFormed
<1>12. \A i \in 1..Count(old) : Kept(old.iterations[i], new.iterations[i])
  BY <1>1, <1>2, <1>4 DEF Kept, Current
<1>13. Stays(old, new)
  BY <1>2, <1>3 DEF Stays, SameButPhase, Phase
<1>14. Evolves(old, new)
  BY <1>1, <1>2, <1>9, <1>10, <1>11, <1>12 DEF Evolves, WellFormed
<1>15. ~Ended(leaf) => NextBodyStep(new, k)
  BY <1>3, <1>7 DEF NextBodyStep
<1> QED BY <1>2, <1>3, <1>13, <1>14, <1>15 DEF new

LEMMA CancelledLoopEvolves ==
    ASSUME NEW old \in Loop, WellFormed(old), ~Stopped(old)
    PROVE  Evolves(old, Cancelled(old, TheLoop)) /\ Stops(old, Cancelled(old, TheLoop))
<1> DEFINE new == Cancelled(old, TheLoop)
<1>1. /\ new.granted = old.granted /\ new.iterations = old.iterations
      /\ new.state = "CANCELLED" /\ new \in Loop
  BY DEF Cancelled, Loop, LoopStates
<1>2. Ceiling(old) \in Nat /\ Ceiling(new) = Ceiling(old)
  BY <1>1, LoopShape DEF Ceiling
<1> HIDE DEF new
<1>3. Evolves(old, new) /\ Current(new).until = Current(old).until
  BY <1>1, <1>2, SameStepsEvolve DEF Count
<1>4. old.state \in {"PENDING", "RUNNING", "COMPLETED"}
  BY DEF Stopped, Loop, LoopStates
<1>5. Stops(old, new)
  BY <1>1, <1>3, <1>4 DEF Stops, SameButPhase, Phase, Count
<1> QED BY <1>3, <1>5 DEF new

LEMMA CancelledLeafEvolves ==
    ASSUME NEW old \in Loop, WellFormed(old), NEW i \in 1..Count(old), NEW k \in Body,
           old.iterations[i].steps[k].state # "PENDING"
    PROVE  Evolves(old, Cancelled(old, <<i, k>>)) /\ Stays(old, Cancelled(old, <<i, k>>))
<1> DEFINE leaf == [old.iterations[i].steps[k] EXCEPT !.state = "CANCELLED"]
           new == [old EXCEPT !.iterations[i].steps[k] = leaf]
<1>1. /\ Count(old) \in Nat \ {0} /\ Count(old) \in 1..Count(old)
      /\ \A j \in 1..(Count(old) - 1) : j \in 1..Count(old) /\ j # Count(old)
      /\ \A j \in 1..Count(old), l \in Body : old.iterations[j].steps[l].attempt \in Nat
  BY LoopShape DEF Leaf
<1>2. Cancelled(old, <<i, k>>) = new
  <2>1. <<i, k>> # TheLoop /\ <<i, k>>[1] = i /\ <<i, k>>[2] = k
    BY <1>1 DEF TheLoop
  <2>2. Cancelled(old, <<i, k>>) = [old EXCEPT !.iterations[i].steps[k].state = "CANCELLED"]
    BY <2>1 DEF Cancelled
  <2>3. [old EXCEPT !.iterations[i].steps[k].state = "CANCELLED"] = new
    BY Zenon
  <2> QED BY <2>2, <2>3
<1>3. /\ leaf \in Leaf /\ leaf.state = "CANCELLED" /\ Ended(leaf) /\ SaneLeaf(leaf)
      /\ leaf.attempt = old.iterations[i].steps[k].attempt
  <2>1. old.iterations[i].steps[k] \in Leaf
    BY LoopShape
  <2> QED BY <2>1 DEF Leaf, NodeStates, Ended, Terminal, SaneLeaf
<1> HIDE DEF leaf
<1>4. /\ new \in Loop /\ Count(new) = Count(old)
      /\ new.granted = old.granted /\ new.state = old.state
      /\ \A j \in 1..Count(old) :
            /\ new.iterations[j].until = old.iterations[j].until
            /\ \A l \in Body : new.iterations[j].steps[l] =
                  IF j = i /\ l = k THEN leaf ELSE old.iterations[j].steps[l]
  BY <1>3, LeafShape
<1> HIDE DEF new
<1>5. \A j \in 1..Count(old), l \in Body :
         Ended(old.iterations[j].steps[l]) => Ended(new.iterations[j].steps[l])
  BY <1>3, <1>4
<1>6. \A j \in 1..Count(old), l \in Body :
         new.iterations[j].steps[l].state # "PENDING" => old.iterations[j].steps[l].state # "PENDING"
  BY <1>4
<1>7. InOrder(new)
  BY <1>1, <1>4, <1>5, <1>6 DEF WellFormed, InOrder, BodyDone, Current
<1>8. Count(new) <= Ceiling(new)
  BY <1>4 DEF WellFormed, Ceiling
<1>9. \A j \in 1..Count(new), l \in Body : SaneLeaf(new.iterations[j].steps[l])
  BY <1>3, <1>4 DEF WellFormed
<1>10. \A j \in 1..Count(old) : Kept(old.iterations[j], new.iterations[j])
  BY <1>1, <1>3, <1>4 DEF Kept
<1>11. Stays(old, new)
  BY <1>1, <1>4 DEF Stays, SameButPhase, Phase, Current
<1>12. Evolves(old, new)
  BY <1>1, <1>4, <1>7, <1>8, <1>9, <1>10 DEF Evolves, WellFormed
<1> QED BY <1>2, <1>11, <1>12

----------------------------------------------------------------------------
(* Every step is of one of five kinds, seen from the row's loop: it leaves  *)
(* the loop and the coordinators alone, a driver loads the row, it starts   *)
(* the body step at hand, it stops at the ceiling to ask, or it commits a   *)
(* loop that came from its own.                                             *)

SavedStatus == {Unchanged, "RUNNING", "PAUSED"}
Row == [status : RunStatus, rev : Nat, loop : Loop]
Nodes == {Nothing, TheLoop} \cup (Nat \X Body)

Quiet ==
    /\ row' \in Row /\ row'.loop = row.loop /\ row'.rev >= row.rev
    /\ UNCHANGED <<mem, inflight, ran, judged>>
    /\ pc' \in [Procs -> PCs] /\ outcome' \in [Procs -> Outcomes]
    /\ \A q \in Procs : /\ MayCommit(q)' => pc'[q] = pc[q]
                        /\ pc'[q] \in {"idle", "load"} => pc[q] \in {"idle", "load"}

AfterCommit(p, new, label) ==
    /\ label \in {"drive", "prompt"} => Saved(p)
    /\ label = "prompt" =>
          /\ new.state = "RUNNING"
          /\ \E k \in Body : /\ inflight'[p] = <<Count(new), k>> /\ NextBodyStep(new, k)
                             /\ Current(new).steps[k].state = "PAUSED"
    /\ label = "failing" => new.state = "RUNNING"
    /\ label # "finish" /\ Stopped(new) => inflight'[p] = Nothing
    /\ label = "drive" =>
          \A k \in Body : Current(new).steps[k].state = "RUNNING" =>
              /\ Count(new) = Count(mem[p].loop)
              /\ \/ pc[p] = "drive" /\ Current(new).steps[k] = LeafOf(p, k)
                 \/ LeafOf(p, k).attempt < Current(new).steps[k].attempt

Committing(p, new) ==
    /\ MayCommit(p)
    /\ Evolves(mem[p].loop, new) /\ Moves(mem[p].loop, new)
    /\ \E status \in SavedStatus : Commit(p, new, status)
    /\ \E label \in {"drive", "prompt", "failing", "finish"} :
          Goto(p, label) /\ AfterCommit(p, new, label)
    /\ outcome' \in [Procs -> Outcomes]
    /\ inflight' \in [Procs -> Nodes] /\ Touched(new, inflight'[p])
    /\ \A q \in Procs \ {p} : inflight'[q] = inflight[q]
    /\ ran' = ran
    /\ \/ judged' = judged /\ ~Judges(mem[p].loop, new)
       \/ /\ Judges(mem[p].loop, new)
          /\ judged' = IF Saved(p) THEN Append(judged, Count(mem[p].loop)) ELSE judged

LEMMA Labels ==
    /\ PCs = {"idle", "load", "recover", "drive", "exec", "prompt", "failing", "ceiling",
              "finish", "done", "dead"}
    /\ Outcomes = {"PAUSED", "COMPLETED", "FAILED", "CANCELLED"}
BY DEF PCs, Driving, Gone, Waiting, Outcomes, RunStatus

LEMMA Types ==
    ASSUME TypeOK, NEW p \in Procs
    PROVE  /\ row \in Row /\ mem[p].loop \in Loop /\ mem[p].rev \in Nat
           /\ inflight \in [Procs -> Nodes] /\ inflight[p] \in Nodes
           /\ pc \in [Procs -> PCs] /\ outcome \in [Procs -> Outcomes]
BY DEF TypeOK, Row, Nodes

(* The step leaves its process where it commits nothing.                    *)
LEMMA QuietGoto ==
    ASSUME TypeOK, NEW p \in Procs, NEW label \in {"finish", "done", "dead"},
           Goto(p, label), outcome' \in [Procs -> Outcomes],
           row' \in Row, row'.loop = row.loop, row'.rev >= row.rev,
           UNCHANGED <<mem, inflight, ran, judged>>
    PROVE  Quiet
BY Labels DEF Quiet, MayCommit, Goto, TypeOK

LEMMA ConcludeType ==
    ASSUME TypeOK, NEW p \in Procs, NEW status \in Outcomes, Conclude(p, status)
    PROVE  outcome' \in [Procs -> Outcomes] /\ Goto(p, "finish")
BY DEF Conclude, TypeOK

LEMMA QuietConclude ==
    ASSUME TypeOK, NEW p \in Procs, NEW status \in Outcomes, Conclude(p, status),
           UNCHANGED <<row, mem, inflight, ran, judged>>
    PROVE  Quiet
<1>1. outcome' \in [Procs -> Outcomes] /\ Goto(p, "finish")
  BY ConcludeType
<1>2. row' \in Row /\ row'.loop = row.loop /\ row'.rev >= row.rev
  BY Types DEF Row
<1> QED BY <1>1, <1>2, QuietGoto

(* A node worked on before stays so.                                        *)
LEMMA StillTouched ==
    ASSUME NEW old \in Loop, NEW new, Evolves(old, new), NEW node \in Nodes, Touched(old, node)
    PROVE  Touched(new, node)
<1> SUFFICES ASSUME node \notin {Nothing, TheLoop}
             PROVE  /\ node[1] \in 1..Count(new)
                    /\ new.iterations[node[1]].steps[node[2]].state # "PENDING"
  BY DEF Touched
<1>1. /\ node[1] \in 1..Count(old) /\ node[2] \in Body
      /\ old.iterations[node[1]].steps[node[2]].state # "PENDING"
  BY DEF Touched, Nodes
<1>2. Count(old) \in Nat /\ Count(new) \in Nat /\ Count(old) <= Count(new)
  BY LoopShape DEF Evolves
<1>3. Kept(old.iterations[node[1]], new.iterations[node[1]])
  BY <1>1 DEF Evolves
<1> QED BY <1>1, <1>2, <1>3 DEF Kept

(* A commit of the loop's own, which goes on or finishes.                   *)
LEMMA CommitLoopKind ==
    ASSUME IInv, NEW p \in Procs, MayCommit(p), NEW new,
           Evolves(mem[p].loop, new), Moves(mem[p].loop, new),
           \/ CommitLoop(p, new)
           \/ Commit(p, new, Unchanged) /\ \E status \in {"FAILED", "CANCELLED"} : Conclude(p, status),
           pc'[p] = "drive" => \A k \in Body : Current(new).steps[k].state = "RUNNING" =>
              /\ Count(new) = Count(mem[p].loop) /\ pc[p] = "drive"
              /\ Current(new).steps[k] = LeafOf(p, k),
           inflight' \in [Procs -> Nodes],
           \A q \in Procs \ {p} : inflight'[q] = inflight[q],
           inflight'[p] \in {inflight[p], TheLoop},
           Stopped(new) => \/ pc'[p] # "drive"
                           \/ Stopped(mem[p].loop) /\ inflight'[p] = inflight[p],
           ran' = ran,
           \/ judged' = judged /\ ~Judges(mem[p].loop, new)
           \/ /\ Judges(mem[p].loop, new)
              /\ judged' = IF Saved(p) THEN Append(judged, Count(mem[p].loop)) ELSE judged
    PROVE  Committing(p, new)
<1>0. TypeOK /\ NodeInHand /\ mem[p].loop \in Loop /\ inflight[p] \in Nodes
  BY Types DEF IInv
<1>1. \E status \in SavedStatus : Commit(p, new, status)
  BY DEF SavedStatus, CommitLoop
<1>2. Touched(new, inflight'[p])
  <2>1. Touched(mem[p].loop, inflight[p])
    BY <1>0 DEF NodeInHand
  <2>2. Touched(new, inflight[p])
    BY <1>0, <2>1, StillTouched
  <2>3. Touched(new, TheLoop)
    BY DEF Touched
  <2> QED BY <2>2, <2>3
<1>3. Stopped(mem[p].loop) => inflight[p] = Nothing
  BY <1>0 DEF NodeInHand
<1>4. \/ Goto(p, "drive") /\ Saved(p) /\ UNCHANGED outcome
      \/ \E status \in {"FAILED", "CANCELLED"} : Conclude(p, status)
  BY DEF CommitLoop
<1>5. outcome' \in [Procs -> Outcomes]
  BY <1>0, <1>4, ConcludeType, Labels DEF TypeOK
<1>6. \/ Goto(p, "drive") /\ AfterCommit(p, new, "drive")
      \/ Goto(p, "finish") /\ AfterCommit(p, new, "finish")
  <2>1. CASE Goto(p, "drive") /\ Saved(p)
    <3>1. pc'[p] = "drive"
      BY <1>0, <2>1 DEF Goto, TypeOK
    <3> QED BY <1>3, <2>1, <3>1 DEF AfterCommit
  <2>2. CASE \E status \in {"FAILED", "CANCELLED"} : Conclude(p, status)
    BY <1>0, <2>2, ConcludeType, Labels DEF AfterCommit
  <2> QED BY <1>4, <2>1, <2>2
<1> QED BY <1>1, <1>2, <1>5, <1>6 DEF Committing

(* A commit of the next body leaf.                                          *)
LEMMA CommitLeafKind ==
    ASSUME IInv, NEW p \in Procs, MayCommit(p), NEW k \in Body, NextBodyStep(mem[p].loop, k),
           NEW leaf \in Leaf, SaneLeaf(leaf), leaf.state # "PENDING",
           LeafOf(p, k).attempt <= leaf.attempt,
           leaf.state = "RUNNING" => LeafOf(p, k).attempt < leaf.attempt,
           mem[p].loop.state = "RUNNING",
           NEW status \in SavedStatus, NEW label \in {"drive", "prompt", "failing"},
           label = "prompt" => leaf.state = "PAUSED",
           CommitLeaf(p, k, leaf, status, label),
           inflight' \in [Procs -> Nodes],
           \A q \in Procs \ {p} : inflight'[q] = inflight[q],
           inflight'[p] = <<Count(mem[p].loop), k>>,
           ran' = ran, judged' = judged
    PROVE  Committing(p, WithLeaf(mem[p].loop, k, leaf))
<1> DEFINE old == mem[p].loop
           new == WithLeaf(old, k, leaf)
<1>0. TypeOK /\ old \in Loop /\ WellFormed(old)
  BY Types DEF IInv, LoopsWellFormed
<1>1. /\ Evolves(old, new) /\ Stays(old, new)
      /\ new.state = old.state /\ Count(new) = Count(old)
      /\ \A l \in Body : Current(new).steps[l] = IF l = k THEN leaf ELSE Current(old).steps[l]
      /\ ~Ended(leaf) => NextBodyStep(new, k)
  BY <1>0, LeafEvolves DEF LeafOf
<1>2. Commit(p, new, status) /\ outcome' \in [Procs -> Outcomes]
  BY <1>0 DEF CommitLeaf, TypeOK
<1>3. Goto(p, IF Saved(p) THEN label ELSE "failing")
  BY DEF CommitLeaf
<1>4. Count(old) \in 1..Count(old) /\ Current(old) = old.iterations[Count(old)]
  BY <1>0, LoopShape DEF Current
<1> HIDE DEF new
<1>5. Touched(new, inflight'[p])
  <2>1. Current(new).steps[k].state # "PENDING" /\ Current(new) = new.iterations[Count(old)]
    BY <1>1 DEF Current
  <2> QED BY <1>1, <1>4, <2>1 DEF Touched
<1>6. ~Stopped(new) /\ new.state = "RUNNING"
  BY <1>1 DEF Stopped
<1>7. label = "prompt" => NextBodyStep(new, k) /\ Current(new).steps[k].state = "PAUSED"
  BY <1>1 DEF Ended, Terminal
<1>8. ASSUME NEW l \in Body, Current(new).steps[l].state = "RUNNING"
      PROVE  LeafOf(p, l).attempt < Current(new).steps[l].attempt
  <2>1. CASE l = k
    BY <1>1, <1>8, <2>1
  <2>2. CASE l # k
    <3>1. Current(old).steps[l].state = "RUNNING"
      BY <1>1, <1>8, <2>2
    <3>2. ~Ended(Current(old).steps[k]) /\ ~Ended(Current(old).steps[l])
      BY <3>1 DEF NextBodyStep, Ended, Terminal
    <3>3. CASE l < k
      <4>1. l \in 1..(k - 1)
        BY <3>3, LoopAssumption DEF Body
      <4> QED BY <3>2, <4>1 DEF NextBodyStep
    <3>4. CASE k < l
      BY <1>0, <3>1, <3>2, <3>4 DEF WellFormed, InOrder
    <3> QED BY <2>2, <3>3, <3>4, LoopAssumption DEF Body
  <2> QED BY <2>1, <2>2
<1>9. \E lab \in {"drive", "prompt", "failing", "finish"} :
         Goto(p, lab) /\ AfterCommit(p, new, lab)
  <2>1. CASE Saved(p)
    <3>1. AfterCommit(p, new, label)
      BY <1>1, <1>6, <1>7, <1>8, <2>1 DEF AfterCommit
    <3> QED BY <1>3, <2>1, <3>1
  <2>2. CASE ~Saved(p)
    <3>1. AfterCommit(p, new, "failing")
      BY <1>6 DEF AfterCommit
    <3> QED BY <1>3, <2>2, <3>1
  <2> QED BY <2>1, <2>2
<1>10. ~Judges(old, new) /\ Moves(old, new)
  BY <1>1 DEF Stays, SameButPhase, Judges, Moves
<1>11. Committing(p, new)
  BY <1>1, <1>2, <1>5, <1>9, <1>10 DEF Committing
<1> QED BY <1>11 DEF new

LEMMA LeafFacts ==
    ASSUME IInv, NEW p \in Procs, NEW k \in Body
    PROVE  /\ LeafOf(p, k) \in Leaf /\ LeafOf(p, k).attempt \in Nat /\ SaneLeaf(LeafOf(p, k))
           /\ <<Count(mem[p].loop), k>> \in Nodes
           /\ \A node \in Nodes : TakeInHand(p, node) =>
                 /\ inflight' \in [Procs -> Nodes] /\ inflight'[p] = node
                 /\ \A q \in Procs \ {p} : inflight'[q] = inflight[q]
<1>1. TypeOK /\ mem[p].loop \in Loop /\ WellFormed(mem[p].loop) /\ inflight \in [Procs -> Nodes]
  BY Types DEF IInv, LoopsWellFormed
<1>2. /\ Count(mem[p].loop) \in Nat /\ Count(mem[p].loop) \in 1..Count(mem[p].loop)
      /\ Current(mem[p].loop).steps[k] \in Leaf
  BY <1>1, LoopShape DEF Current
<1>3. LeafOf(p, k) \in Leaf /\ LeafOf(p, k).attempt \in Nat
  BY <1>2 DEF LeafOf, Leaf
<1>4. SaneLeaf(LeafOf(p, k))
  BY <1>1, <1>2 DEF WellFormed, LeafOf, Current
<1>5. \A node \in Nodes : TakeInHand(p, node) =>
         /\ inflight' \in [Procs -> Nodes] /\ inflight'[p] = node
         /\ \A q \in Procs \ {p} : inflight'[q] = inflight[q]
  BY <1>1 DEF TakeInHand
<1> QED BY <1>2, <1>3, <1>4, <1>5 DEF Nodes

LEMMA OpenedLeaf ==
    ASSUME NEW leaf \in Leaf, NEW n \in Nat
    PROVE  /\ Opened(leaf, n) \in Leaf /\ SaneLeaf(Opened(leaf, n))
           /\ Opened(leaf, n).state = "RUNNING" /\ Opened(leaf, n).attempt = n
BY DEF Opened, Leaf, NodeStates, SaneLeaf

(* A leaf that is settled with a result.                                    *)
LEMMA SettleKind ==
    ASSUME IInv, NEW p \in Procs, MayCommit(p), NEW k \in Body, NextBodyStep(mem[p].loop, k),
           mem[p].loop.state = "RUNNING",
           NEW state \in {"COMPLETED", "IGNORED", "PAUSED", "FAILED"},
           NEW result \in {"completed", "ignored", "failed"},
           NEW status \in SavedStatus, NEW label \in {"drive", "prompt", "failing"},
           label = "prompt" => state = "PAUSED",
           CommitLeaf(p, k, Settled(LeafOf(p, k), state, LeafOf(p, k).attempt, result), status, label),
           inflight' \in [Procs -> Nodes],
           \A q \in Procs \ {p} : inflight'[q] = inflight[q],
           inflight'[p] = <<Count(mem[p].loop), k>>,
           ran' = ran, judged' = judged
    PROVE  \E new \in Loop : Committing(p, new)
<1> DEFINE leaf == Settled(LeafOf(p, k), state, LeafOf(p, k).attempt, result)
<1>1. LeafOf(p, k) \in Leaf
  BY LeafFacts
<1>2. /\ leaf \in Leaf /\ SaneLeaf(leaf) /\ leaf.state = state
      /\ leaf.attempt = LeafOf(p, k).attempt
  BY <1>1 DEF Settled, Leaf, NodeStates, SaneLeaf
<1>6. LeafOf(p, k).attempt \in Nat
  BY LeafFacts
<1> HIDE DEF leaf
<1>3. CommitLeaf(p, k, leaf, status, label)
  BY DEF leaf
<1>4. leaf.state # "PENDING" /\ leaf.state # "RUNNING" /\ LeafOf(p, k).attempt <= leaf.attempt
  BY <1>2, <1>6
<1>5. Committing(p, WithLeaf(mem[p].loop, k, leaf))
  BY <1>2, <1>3, <1>4, CommitLeafKind
<1> QED BY <1>5 DEF Committing, Evolves

LEMMA OpenKind ==
    ASSUME IInv, NEW p \in Procs, MayCommit(p), NEW k \in Body, NextBodyStep(mem[p].loop, k),
           mem[p].loop.state = "RUNNING",
           NEW n \in Nat, LeafOf(p, k).attempt < n, NEW status \in SavedStatus,
           CommitLeaf(p, k, Opened(LeafOf(p, k), n), status, "drive"),
           inflight' \in [Procs -> Nodes],
           \A q \in Procs \ {p} : inflight'[q] = inflight[q],
           inflight'[p] = <<Count(mem[p].loop), k>>,
           ran' = ran, judged' = judged
    PROVE  \E new \in Loop : Committing(p, new)
<1> DEFINE leaf == Opened(LeafOf(p, k), n)
<1>1. LeafOf(p, k) \in Leaf /\ LeafOf(p, k).attempt \in Nat
  BY LeafFacts
<1>2. leaf \in Leaf /\ SaneLeaf(leaf) /\ leaf.state = "RUNNING" /\ leaf.attempt = n
  BY <1>1, OpenedLeaf
<1> HIDE DEF leaf
<1>3. CommitLeaf(p, k, leaf, status, "drive")
  BY DEF leaf
<1>4. LeafOf(p, k).attempt <= leaf.attempt
  BY <1>1, <1>2
<1>5. Committing(p, WithLeaf(mem[p].loop, k, leaf))
  BY <1>2, <1>3, <1>4, CommitLeafKind
<1> QED BY <1>5 DEF Committing, Evolves

LEMMA GateKind ==
    ASSUME IInv, NEW p \in Procs, MayCommit(p), NEW k \in Body, NextBodyStep(mem[p].loop, k),
           mem[p].loop.state = "RUNNING", FailureGate(p, k),
           inflight' \in [Procs -> Nodes],
           \A q \in Procs \ {p} : inflight'[q] = inflight[q],
           inflight'[p] = <<Count(mem[p].loop), k>>,
           ran' = ran, judged' = judged
    PROVE  \E new \in Loop : Committing(p, new)
<1>0. {Unchanged, "PAUSED"} \subseteq SavedStatus
  BY DEF SavedStatus
<1> DEFINE As(state, result) == Settled(LeafOf(p, k), state, LeafOf(p, k).attempt, result)
<1>1. CASE CommitLeaf(p, k, As("IGNORED", "ignored"), Unchanged, "drive")
  BY <1>0, <1>1, SettleKind
<1>2. CASE CommitLeaf(p, k, As("PAUSED", "failed"), "PAUSED", "prompt")
  BY <1>0, <1>2, SettleKind
<1>3. CASE CommitLeaf(p, k, As("FAILED", "failed"), Unchanged, "failing")
  BY <1>0, <1>3, SettleKind
<1> QED BY <1>1, <1>2, <1>3 DEF FailureGate

(* The step at hand, when the pc says that there is one.                    *)
LEMMA AtHand ==
    ASSUME IInv, NEW p \in Procs, NEW label \in {"exec", "prompt"}, NEW k \in Body,
           HasInHand(p, label, k), UNCHANGED inflight
    PROVE  /\ MayCommit(p) /\ NextBodyStep(mem[p].loop, k) /\ mem[p].loop.state = "RUNNING"
           /\ inflight' \in [Procs -> Nodes] /\ inflight'[p] = <<Count(mem[p].loop), k>>
           /\ \A q \in Procs \ {p} : inflight'[q] = inflight[q]
<1>1. /\ TypeOK /\ inflight \in [Procs -> Nodes]
      /\ BodyInHand(p, "exec", "RUNNING") /\ BodyInHand(p, "prompt", "PAUSED")
  BY Types DEF IInv, NodeInHand
<1>2. PICK l \in Body : /\ inflight[p] = <<Count(mem[p].loop), l>>
                        /\ NextBodyStep(mem[p].loop, l) /\ mem[p].loop.state = "RUNNING"
  BY <1>1 DEF HasInHand, BodyInHand
<1>3. l = k
  BY <1>2 DEF HasInHand
<1> QED BY <1>1, <1>2, <1>3 DEF HasInHand, MayCommit

LEMMA BodyStepKind ==
    ASSUME IInv, NEW p \in Procs, NEW k \in Body,
           \/ BeginAttempt(p, k) \/ AttemptPasses(p, k) \/ AttemptFails(p, k) \/ ReenterGate(p, k)
           \/ PromptRetry(p, k) \/ PromptContinue(p, k) \/ PromptAbort(p, k)
    PROVE  \E new \in Loop : Committing(p, new)
<1>0. {Unchanged, "RUNNING"} \subseteq SavedStatus
  BY DEF SavedStatus
<1>1. CASE BeginAttempt(p, k)
  <2>1. MayCommit(p) /\ mem[p].loop.state = "RUNNING"
    BY <1>1 DEF BeginAttempt, InLoop, MayCommit
  <2>2. LeafOf(p, k).attempt < 1
    BY <1>1, LeafFacts DEF BeginAttempt, SaneLeaf
  <2> QED BY <1>0, <1>1, <2>1, <2>2, LeafFacts, OpenKind DEF BeginAttempt
<1>2. CASE AttemptPasses(p, k)
  BY <1>0, <1>2, AtHand, SettleKind DEF AttemptPasses
<1>3. CASE AttemptFails(p, k)
  BY <1>3, AtHand, GateKind DEF AttemptFails
<1>4. CASE ReenterGate(p, k)
  <2>1. MayCommit(p) /\ mem[p].loop.state = "RUNNING"
    BY <1>4 DEF ReenterGate, InLoop, MayCommit
  <2> QED BY <1>4, <2>1, LeafFacts, GateKind DEF ReenterGate
<1>5. CASE PromptRetry(p, k)
  <2>0. LeafOf(p, k).attempt \in Nat
    BY LeafFacts
  <2>1. LeafOf(p, k).attempt + 1 \in Nat /\ LeafOf(p, k).attempt < LeafOf(p, k).attempt + 1
    BY <2>0
  <2>2. /\ HasInHand(p, "prompt", k) /\ UNCHANGED <<inflight, ran, judged>>
        /\ CommitLeaf(p, k, Opened(LeafOf(p, k), LeafOf(p, k).attempt + 1), "RUNNING", "drive")
    BY <1>5 DEF PromptRetry
  <2>3. /\ MayCommit(p) /\ NextBodyStep(mem[p].loop, k) /\ mem[p].loop.state = "RUNNING"
        /\ inflight' \in [Procs -> Nodes] /\ inflight'[p] = <<Count(mem[p].loop), k>>
        /\ \A q \in Procs \ {p} : inflight'[q] = inflight[q]
    BY <2>2, AtHand
  <2> QED BY <1>0, <2>1, <2>2, <2>3, OpenKind
<1>6. CASE PromptContinue(p, k)
  BY <1>0, <1>6, AtHand, SettleKind DEF PromptContinue
<1>7. CASE PromptAbort(p, k)
  BY <1>0, <1>7, AtHand, SettleKind DEF PromptAbort
<1> QED BY <1>1, <1>2, <1>3, <1>4, <1>5, <1>6, <1>7

LEMMA Dispatching ==
    ASSUME TypeOK, NEW p \in Procs,
           Dispatched(p) \/ TakeInHand(p, TheLoop) \/ UNCHANGED inflight
    PROVE  /\ inflight' \in [Procs -> Nodes] /\ inflight'[p] \in {inflight[p], TheLoop}
           /\ \A q \in Procs \ {p} : inflight'[q] = inflight[q]
<1>1. inflight \in [Procs -> Nodes] /\ TheLoop \in Nodes
  BY Types DEF Nodes
<1> QED BY <1>1 DEF Dispatched, TakeInHand

LEMMA LoopInHand ==
    ASSUME IInv, NEW p \in Procs
    PROVE  /\ TypeOK /\ mem[p].loop \in Loop /\ WellFormed(mem[p].loop)
           /\ Count(mem[p].loop) \in 1..Count(mem[p].loop)
           /\ InLoop(p) => MayCommit(p) /\ ~Stopped(mem[p].loop)
           /\ pc[p] = "ceiling" => /\ MayCommit(p) /\ mem[p].loop.state = "RUNNING"
                                   /\ AtCeiling(mem[p].loop)
           /\ pc[p] = "failing" => MayCommit(p) /\ mem[p].loop.state = "RUNNING"
           /\ {Unchanged, "RUNNING"} \subseteq SavedStatus
<1>1. mem[p].loop \in Loop
  BY Types DEF IInv
<1> QED BY <1>1, LoopShape DEF IInv, LoopsWellFormed, NodeInHand, InLoop, MayCommit, Stopped, SavedStatus

LEMMA RecoverKind ==
    ASSUME IInv, NEW p \in Procs, RecoverInterrupted(p)
    PROVE  \E new \in Loop : Committing(p, new)
<1> DEFINE old == mem[p].loop
           new == Recovered(old)
<1>1. TypeOK /\ old \in Loop /\ WellFormed(old)
  BY LoopInHand
<1>2. /\ Evolves(old, new) /\ Stays(old, new)
      /\ \A k \in Body : Current(new).steps[k].state # "RUNNING"
  BY <1>1, RecoveredEvolves
<1>3. new.state = old.state
  BY <1>1 DEF Recovered, Loop
<1> HIDE DEF new
<1>4. Stopped(new) => Stopped(old) /\ inflight' = inflight
  BY <1>3 DEF RecoverInterrupted, Stopped
<1>5. Moves(old, new) /\ ~Judges(old, new)
  BY <1>2 DEF Stays, SameButPhase, Judges, Moves
<1>6. /\ MayCommit(p) /\ CommitLoop(p, new)
      /\ ran' = ran /\ judged' = judged
  BY DEF RecoverInterrupted, MayCommit, new
<1>7. /\ inflight' \in [Procs -> Nodes] /\ inflight'[p] \in {inflight[p], TheLoop}
      /\ \A q \in Procs \ {p} : inflight'[q] = inflight[q]
  BY <1>1, Dispatching DEF RecoverInterrupted
<1>8. Committing(p, new)
  BY <1>2, <1>4, <1>5, <1>6, <1>7, CommitLoopKind
<1> QED BY <1>8 DEF Committing, Evolves

LEMMA StartKind ==
    ASSUME IInv, NEW p \in Procs, StartLoop(p)
    PROVE  \E new \in Loop : Committing(p, new)
<1> DEFINE old == mem[p].loop
           new == Begun(old)
<1>1. /\ TypeOK /\ old \in Loop /\ WellFormed(old)
      /\ Count(old) \in 1..Count(old) /\ old.state = "PENDING"
  BY LoopInHand DEF StartLoop
<1>2. Evolves(old, new) /\ Stays(old, new) /\ new.state = "RUNNING"
  BY <1>1, BegunEvolves
<1>3. Count(new) = Count(old) /\ Current(new).steps = Current(old).steps
  BY <1>1, BegunShape DEF Current
<1> HIDE DEF new
<1>4. ~Stopped(new)
  BY <1>2 DEF Stopped
<1>5. Moves(old, new) /\ ~Judges(old, new)
  BY <1>2 DEF Stays, SameButPhase, Judges, Moves
<1>6. /\ MayCommit(p) /\ pc[p] = "drive" /\ CommitLoop(p, new)
      /\ ran' = ran /\ judged' = judged
  BY DEF StartLoop, MayCommit, new
<1>7. /\ inflight' \in [Procs -> Nodes] /\ inflight'[p] \in {inflight[p], TheLoop}
      /\ \A q \in Procs \ {p} : inflight'[q] = inflight[q]
  BY <1>1, Dispatching DEF StartLoop
<1>8. Committing(p, new)
  BY <1>2, <1>3, <1>4, <1>5, <1>6, <1>7, CommitLoopKind DEF LeafOf
<1> QED BY <1>8 DEF Committing, Evolves

LEMMA VerdictKind ==
    ASSUME IInv, NEW p \in Procs, NEW verdict \in {"passed", "failed"},
           CompleteIteration(p, verdict)
    PROVE  \E new \in Loop : Committing(p, new)
<1> DEFINE old == mem[p].loop
           new == Judged(old, verdict)
<1>1. /\ TypeOK /\ old \in Loop /\ WellFormed(old) /\ MayCommit(p)
      /\ old.state = "RUNNING" /\ MustJudge(old)
  BY LoopInHand DEF CompleteIteration, InLoop
<1>2. /\ Evolves(old, new) /\ Judges(old, new) /\ new.state = "RUNNING"
      /\ \A k \in Body : Current(new).steps[k].state # "RUNNING"
  BY <1>1, JudgedEvolves, EndedStates
<1>3. CommitLoop(p, new) /\ ran' = ran
  BY DEF CompleteIteration
<1> HIDE DEF new
<1>4. Moves(old, new) /\ ~Stopped(new)
  BY <1>2 DEF Moves, Stopped
<1>5. /\ inflight' \in [Procs -> Nodes] /\ inflight'[p] \in {inflight[p], TheLoop}
      /\ \A q \in Procs \ {p} : inflight'[q] = inflight[q]
  BY <1>1, Dispatching DEF CompleteIteration
<1>6. judged' = IF Saved(p) THEN Append(judged, Count(mem[p].loop)) ELSE judged
  BY DEF CompleteIteration
<1>7. Committing(p, new)
  BY <1>1, <1>2, <1>3, <1>4, <1>5, <1>6, CommitLoopKind
<1> QED BY <1>7 DEF Committing, Evolves

LEMMA RepeatKind ==
    ASSUME IInv, NEW p \in Procs, RepeatIteration(p)
    PROVE  \E new \in Loop : Committing(p, new)
<1> DEFINE old == mem[p].loop
           new == AnotherBegun(old)
<1>1. /\ TypeOK /\ old \in Loop /\ WellFormed(old) /\ MayCommit(p)
      /\ old.state = "RUNNING" /\ MayRepeat(old)
  BY LoopInHand DEF RepeatIteration, InLoop
<1>2. /\ Evolves(old, new) /\ Repeats(old, new) /\ new.state = "RUNNING"
      /\ \A k \in Body : Current(new).steps[k].state # "RUNNING"
  BY <1>1, AnotherEvolves
<1>3. CommitLoop(p, new) /\ ran' = ran /\ judged' = judged
  BY DEF RepeatIteration
<1> HIDE DEF new
<1>4. Moves(old, new) /\ ~Judges(old, new) /\ ~Stopped(new)
  BY <1>2 DEF Moves, Repeats, Judges, Stopped
<1>5. /\ inflight' \in [Procs -> Nodes] /\ inflight'[p] \in {inflight[p], TheLoop}
      /\ \A q \in Procs \ {p} : inflight'[q] = inflight[q]
  BY <1>1, Dispatching DEF RepeatIteration
<1>6. Committing(p, new)
  BY <1>1, <1>2, <1>3, <1>4, <1>5, CommitLoopKind
<1> QED BY <1>6 DEF Committing, Evolves

LEMMA GrantKind ==
    ASSUME IInv, NEW p \in Procs, GrantIterations(p)
    PROVE  \E new \in Loop : Committing(p, new)
<1> DEFINE old == mem[p].loop
           new == Granted(old)
<1>1. /\ TypeOK /\ old \in Loop /\ WellFormed(old) /\ MayCommit(p)
      /\ old.state = "RUNNING" /\ AtCeiling(old)
  BY LoopInHand DEF GrantIterations
<1>2. /\ Evolves(old, new) /\ Extends(old, new) /\ new.state = "RUNNING"
      /\ \A k \in Body : Current(new).steps[k].state # "RUNNING"
  BY <1>1, GrantedEvolves, EndedStates
<1>3. CommitLoop(p, new) /\ ran' = ran /\ judged' = judged
  BY DEF GrantIterations
<1> HIDE DEF new
<1>4. Moves(old, new) /\ ~Judges(old, new) /\ ~Stopped(new)
  BY <1>2 DEF Moves, Extends, Judges, Stopped
<1>5. /\ inflight' \in [Procs -> Nodes] /\ inflight'[p] \in {inflight[p], TheLoop}
      /\ \A q \in Procs \ {p} : inflight'[q] = inflight[q]
  BY <1>1, Dispatching DEF GrantIterations
<1>6. Committing(p, new)
  BY <1>1, <1>2, <1>3, <1>4, <1>5, CommitLoopKind
<1> QED BY <1>6 DEF Committing, Evolves

(* The loop is over: passed, or at its ceiling.                             *)
LEMMA FinishLoopKind ==
    ASSUME IInv, NEW p \in Procs, mem[p].loop.state = "RUNNING", MayCommit(p),
           HasPassed(mem[p].loop) \/ AtCeiling(mem[p].loop), FinishLoop(p),
           Dispatched(p) \/ UNCHANGED inflight, UNCHANGED <<ran, judged>>
    PROVE  \E new \in Loop : Committing(p, new)
<1> DEFINE old == mem[p].loop
           new == Finished(old)
<1>1. TypeOK /\ old \in Loop /\ WellFormed(old)
  BY LoopInHand
<1>2. /\ Evolves(old, new) /\ Ends(old, new) /\ new.state = "COMPLETED"
      /\ \A k \in Body : Current(new).steps[k].state # "RUNNING"
  BY <1>1, FinishedEvolves, EndedStates
<1>3. CommitLoop(p, new)
  BY DEF FinishLoop
<1> HIDE DEF new
<1>4. Moves(old, new) /\ ~Judges(old, new) /\ ~Stopped(new)
  BY <1>2 DEF Moves, Ends, Judges, Stopped
<1>5. /\ inflight' \in [Procs -> Nodes] /\ inflight'[p] \in {inflight[p], TheLoop}
      /\ \A q \in Procs \ {p} : inflight'[q] = inflight[q]
  BY <1>1, Dispatching
<1>6. Committing(p, new)
  BY <1>1, <1>2, <1>3, <1>4, <1>5, CommitLoopKind
<1> QED BY <1>6 DEF Committing, Evolves

LEMMA FailLoopKind ==
    ASSUME IInv, NEW p \in Procs, mem[p].loop.state = "RUNNING", MayCommit(p),
           FinishFailedLoop(p),
           Dispatched(p) \/ TakeInHand(p, TheLoop) \/ UNCHANGED inflight, UNCHANGED <<ran, judged>>
    PROVE  \E new \in Loop : Committing(p, new)
<1> DEFINE old == mem[p].loop
           new == Failed(old)
<1>1. TypeOK /\ old \in Loop /\ WellFormed(old) /\ ~Stopped(old)
  BY LoopInHand DEF Stopped
<1>2. Evolves(old, new) /\ Stops(old, new)
  BY <1>1, FailedEvolves
<1>3. Commit(p, new, Unchanged) /\ Conclude(p, "FAILED")
  BY DEF FinishFailedLoop
<1> HIDE DEF new
<1>4. Moves(old, new) /\ ~Judges(old, new)
  BY <1>2 DEF Moves, Stops, SameButPhase, Judges
<1>5. /\ inflight' \in [Procs -> Nodes] /\ inflight'[p] \in {inflight[p], TheLoop}
      /\ \A q \in Procs \ {p} : inflight'[q] = inflight[q]
  BY <1>1, Dispatching
<1>6. pc'[p] = "finish"
  BY <1>1, <1>3 DEF Conclude, Goto, TypeOK
<1>7. Committing(p, new)
  BY <1>1, <1>2, <1>3, <1>4, <1>5, <1>6, CommitLoopKind
<1> QED BY <1>7 DEF Committing, Evolves

(* KeyboardInterrupt commits the node in hand as cancelled.                 *)
LEMMA CancelKind ==
    ASSUME IInv, NEW p \in Procs, CancelRun(p)
    PROVE  Quiet \/ \E new \in Loop : Committing(p, new)
<1> DEFINE old == mem[p].loop
           new == Cancelled(old, inflight[p])
<1>1. TypeOK /\ old \in Loop /\ WellFormed(old) /\ inflight[p] \in Nodes
  BY LoopInHand, Types
<1>2. MayCommit(p) /\ Conclude(p, "CANCELLED") /\ UNCHANGED <<inflight, ran, judged>>
  BY DEF CancelRun, MayCommit
<1>3. CASE inflight[p] = Nothing
  <2>1. UNCHANGED <<row, mem, inflight, ran, judged>>
    BY <1>3 DEF CancelRun
  <2> QED BY <1>1, <1>2, <2>1, QuietConclude, Labels
<1>4. CASE inflight[p] # Nothing
  <2>1. Commit(p, new, Unchanged)
    BY <1>4 DEF CancelRun
  <2>2. ~Stopped(old) /\ Touched(old, inflight[p])
    BY <1>2, <1>4 DEF IInv, NodeInHand
  <2>3. Evolves(old, new) /\ Moves(old, new) /\ ~Judges(old, new)
    <3>1. CASE inflight[p] = TheLoop
      <4>1. Evolves(old, new) /\ Stops(old, new)
        BY <1>1, <2>2, <3>1, CancelledLoopEvolves
      <4> HIDE DEF new
      <4> QED BY <4>1 DEF Moves, Stops, SameButPhase, Judges
    <3>2. CASE inflight[p] # TheLoop
      <4>1. PICK i \in Nat, k \in Body : inflight[p] = <<i, k>>
        BY <1>1, <1>4, <3>2 DEF Nodes
      <4>2. i \in 1..Count(old) /\ old.iterations[i].steps[k].state # "PENDING"
        BY <1>4, <2>2, <3>2, <4>1 DEF Touched
      <4>3. Evolves(old, new) /\ Stays(old, new)
        BY <1>1, <4>1, <4>2, CancelledLeafEvolves
      <4> HIDE DEF new
      <4> QED BY <4>3 DEF Moves, Stays, SameButPhase, Judges
    <3> QED BY <3>1, <3>2
  <2>4. pc'[p] = "finish"
    BY <1>1, <1>2 DEF Conclude, Goto, TypeOK
  <2>5. /\ inflight' \in [Procs -> Nodes] /\ inflight'[p] \in {inflight[p], TheLoop}
        /\ \A q \in Procs \ {p} : inflight'[q] = inflight[q]
    BY <1>1, <1>2, Dispatching
  <2> HIDE DEF new
  <2>6. Committing(p, new)
    BY <1>2, <2>1, <2>3, <2>4, <2>5, CommitLoopKind
  <2> QED BY <2>6 DEF Committing, Evolves
<1> QED BY <1>3, <1>4

LEMMA StepKind ==
    ASSUME IInv, [Next]_vars
    PROVE  \/ Quiet
           \/ \E p \in Procs : \/ LoadState(p) \/ CeilingPrompts(p)
                               \/ \E k \in Body : StartAttempt(p, k)
                               \/ \E new \in Loop : Committing(p, new)
<1>0. TypeOK /\ row \in Row /\ pc \in [Procs -> PCs] /\ outcome \in [Procs -> Outcomes]
  BY Types, DriversAssumption DEF IInv, TypeOK, Row
<1>1. ASSUME NEW p \in Procs, Progress(p)
      PROVE  \/ Quiet \/ LoadState(p) \/ CeilingPrompts(p)
             \/ \E k \in Body : StartAttempt(p, k)
             \/ \E new \in Loop : Committing(p, new)
  <2>1. CASE RecoverInterrupted(p) \/ StartLoop(p)
    BY <2>1, RecoverKind, StartKind
  <2>2. ASSUME NEW k \in Body, \/ BeginAttempt(p, k) \/ AttemptPasses(p, k)
                               \/ AttemptFails(p, k) \/ ReenterGate(p, k)
        PROVE  \E new \in Loop : Committing(p, new)
    BY <2>2, BodyStepKind
  <2>3. CASE FailLoop(p)
    BY <2>3, LoopInHand, FailLoopKind DEF FailLoop
  <2>4. ASSUME NEW verdict \in {"passed", "failed"}, CompleteIteration(p, verdict)
        PROVE  \E new \in Loop : Committing(p, new)
    BY <2>4, VerdictKind
  <2>5. CASE RepeatIteration(p)
    BY <2>5, RepeatKind
  <2>6. CASE LoopPassed(p) \/ CeilingContinues(p)
    BY <2>6, LoopInHand, FinishLoopKind DEF LoopPassed, CeilingContinues, InLoop
  <2>7. CASE CeilingAborts(p)
    BY <2>7, LoopInHand, FailLoopKind DEF CeilingAborts, InLoop
  <2>8. CASE NothingLeft(p)
    BY <1>0, <2>8, QuietConclude, Labels DEF NothingLeft
  <2>9. CASE Finish(p)
    <3>0. outcome[p] \in RunStatus
      BY <1>0 DEF Outcomes
    <3>1. row' \in Row /\ row'.loop = row.loop /\ row'.rev >= row.rev
      <4>1. CASE row' = [row EXCEPT !.status = outcome[p], !.rev = @ + 1]
        <5>1. row.rev \in Nat
          BY <1>0 DEF Row
        <5>2. row'.loop = row.loop /\ row'.rev = row.rev + 1
          BY <1>0, <4>1 DEF Row
        <5>3. row.rev + 1 \in Nat
          BY <5>1
        <5>4. row' \in Row
          BY <1>0, <3>0, <4>1, <5>3 DEF Row
        <5> QED BY <5>1, <5>2, <5>4
      <4>2. CASE UNCHANGED row
        BY <1>0, <4>2 DEF Row
      <4> QED BY <2>9, <4>1, <4>2 DEF Finish
    <3> QED BY <1>0, <2>9, <3>1, QuietGoto DEF Finish
  <2> QED BY <1>1, <2>1, <2>2, <2>3, <2>4, <2>5, <2>6, <2>7, <2>8, <2>9 DEF Progress
<1>2. ASSUME NEW p \in Procs, User(p)
      PROVE  Quiet \/ \E new \in Loop : Committing(p, new)
  <2>1. CASE ResumeRun(p)
    <3>1. row' \in Row /\ row'.loop = row.loop /\ row'.rev >= row.rev
      BY <1>0, <2>1 DEF ResumeRun, Row, RunStatus
    <3> QED BY <1>0, <2>1, <3>1, Labels DEF ResumeRun, Quiet, MayCommit, Goto
  <2>2. ASSUME NEW k \in Body, PromptRetry(p, k) \/ PromptContinue(p, k) \/ PromptAbort(p, k)
        PROVE  \E new \in Loop : Committing(p, new)
    BY <2>2, BodyStepKind
  <2>3. CASE GrantIterations(p)
    BY <2>3, GrantKind
  <2>4. CASE ContinuePastCeiling(p)
    BY <2>4, LoopInHand, FinishLoopKind DEF ContinuePastCeiling
  <2>5. CASE AbortAtCeiling(p)
    BY <2>5, LoopInHand, FailLoopKind DEF AbortAtCeiling
  <2> QED BY <1>2, <2>1, <2>2, <2>3, <2>4, <2>5 DEF User
<1>3. ASSUME NEW p \in Procs, Disturbance(p)
      PROVE  Quiet \/ \E new \in Loop : Committing(p, new)
  <2>1. CASE Die(p)
    BY <1>0, <2>1, QuietGoto DEF Die, Row
  <2>2. CASE LeavePrompt(p)
    BY <1>0, <2>2, QuietConclude, Labels DEF LeavePrompt
  <2> QED BY <1>3, <2>1, <2>2, CancelKind DEF Disturbance
<1>4. CASE UNCHANGED vars
  BY <1>0, <1>4 DEF vars, Quiet, MayCommit, Row
<1> QED BY <1>1, <1>2, <1>3, <1>4 DEF Next

----------------------------------------------------------------------------
(* What a commit does to the row.                                           *)

LEMMA CommitEffect ==
    ASSUME IInv, NEW p \in Procs, NEW new \in Loop, Committing(p, new)
    PROVE  /\ row' \in Row /\ row.rev \in Nat
           /\ mem[p].loop \in Loop /\ mem[p].rev \in Nat /\ mem[p].rev <= row.rev
           /\ Saved(p) => /\ mem[p].loop = row.loop
                          /\ row'.loop = new /\ row'.rev = row.rev + 1
                          /\ mem'[p].rev = row.rev + 1
           /\ ~Saved(p) => /\ row' = row /\ mem'[p].rev = mem[p].rev
                           /\ pc'[p] \in {"failing", "finish"}
           /\ mem'[p].loop = new
           /\ mem' \in [Procs -> [loop : Loop, rev : Nat]]
           /\ \A q \in Procs \ {p} : mem'[q] = mem[q] /\ pc'[q] = pc[q] /\ inflight'[q] = inflight[q]
           /\ pc' \in [Procs -> PCs]
<1>0. /\ TypeOK /\ row \in Row /\ mem[p].loop \in Loop /\ mem[p].rev \in Nat
      /\ row.rev \in Nat /\ row.status \in RunStatus
      /\ mem \in [Procs -> [loop : Loop, rev : Nat]] /\ pc \in [Procs -> PCs]
      /\ inflight \in [Procs -> Nodes]
  BY Types DEF IInv, TypeOK, Row
<1>1. mem[p].rev <= row.rev /\ (mem[p].rev = row.rev => mem[p].loop = row.loop)
  BY DEF IInv, NoForeignLoop, Committing
<1>2. PICK status \in SavedStatus : Commit(p, new, status)
  BY DEF Committing
<1>3. PICK label \in {"drive", "prompt", "failing", "finish"} :
         Goto(p, label) /\ AfterCommit(p, new, label)
  BY DEF Committing
<1>4. /\ pc'[p] = label /\ \A q \in Procs \ {p} : pc'[q] = pc[q]
      /\ pc' \in [Procs -> PCs]
  BY <1>0, <1>3, Labels DEF Goto
<1>5. \A q \in Procs \ {p} : mem'[q] = mem[q]
  BY <1>0, <1>2 DEF Commit
<1>6. CASE Saved(p)
  <2>1. mem'[p].loop = new /\ mem'[p].rev = row.rev + 1
    BY <1>0, <1>2, <1>6 DEF Commit, Saved
  <2>2. row' = [status |-> IF status = Unchanged THEN row.status ELSE status,
                rev |-> row.rev + 1, loop |-> new]
    BY <1>2, <1>6 DEF Commit, Saved
  <2>3. row' \in Row
    BY <1>0, <2>2 DEF Row, SavedStatus, RunStatus
  <2>4. mem' \in [Procs -> [loop : Loop, rev : Nat]]
    BY <1>0, <1>2 DEF Commit
  <2> QED BY <1>0, <1>1, <1>4, <1>5, <1>6, <2>1, <2>2, <2>3, <2>4 DEF Saved, Committing
<1>7. CASE ~Saved(p)
  <2>1. mem'[p].loop = new /\ mem'[p].rev = mem[p].rev /\ row' = row
    BY <1>0, <1>2, <1>7 DEF Commit
  <2>2. mem' \in [Procs -> [loop : Loop, rev : Nat]]
    BY <1>0, <1>2 DEF Commit
  <2>3. pc'[p] \in {"failing", "finish"}
    BY <1>3, <1>4, <1>7 DEF AfterCommit
  <2> QED BY <1>0, <1>1, <1>4, <1>5, <1>7, <2>1, <2>2, <2>3 DEF Committing
<1> QED BY <1>6, <1>7

----------------------------------------------------------------------------
(* The inductive invariant, part by part.                                   *)

LEMMA TypeStep == IInv /\ [Next]_vars => TypeOK'
<1> SUFFICES ASSUME IInv, [Next]_vars PROVE TypeOK'
  OBVIOUS
<1>0. /\ TypeOK /\ row \in Row /\ inflight \in [Procs -> Nodes] /\ pc \in [Procs -> PCs]
      /\ \A p \in Procs : mem[p].loop \in Loop
  BY Types, DriversAssumption DEF IInv
<1>1. CASE Quiet
  BY <1>0, <1>1 DEF Quiet, TypeOK, Row, Nodes
<1>2. ASSUME NEW p \in Procs, LoadState(p) PROVE TypeOK'
  <2>1. mem' \in [Procs -> [loop : Loop, rev : Nat]]
    BY <1>0, <1>2 DEF LoadState, TypeOK, Row
  <2>2. pc' \in [Procs -> PCs]
    BY <1>0, <1>2, Labels DEF LoadState, Goto
  <2> QED BY <1>0, <1>2, <2>1, <2>2 DEF LoadState, TypeOK, Row, Nodes
<1>3. ASSUME NEW p \in Procs, CeilingPrompts(p) PROVE TypeOK'
  <2>1. inflight' \in [Procs -> Nodes] /\ pc' \in [Procs -> PCs]
    BY <1>0, <1>3, Labels, Dispatching DEF CeilingPrompts, Goto
  <2> QED BY <1>0, <1>3, <2>1 DEF CeilingPrompts, TypeOK, Row, Nodes
<1>4. ASSUME NEW p \in Procs, NEW k \in Body, StartAttempt(p, k) PROVE TypeOK'
  <2>1. inflight' \in [Procs -> Nodes] /\ pc' \in [Procs -> PCs]
    BY <1>0, <1>4, Labels, LeafFacts DEF StartAttempt, Goto
  <2>2. ran' \subseteq Nat \X Body \X Nat
    BY <1>0, <1>4, LeafFacts, LoopShape DEF StartAttempt, TypeOK
  <2> QED BY <1>0, <1>4, <2>1, <2>2 DEF StartAttempt, TypeOK, Row, Nodes
<1>5. ASSUME NEW p \in Procs, NEW new \in Loop, Committing(p, new) PROVE TypeOK'
  <2>1. judged' \in Seq(Nat)
    <3>1. Count(mem[p].loop) \in Nat /\ judged \in Seq(Nat)
      BY <1>0, LoopShape DEF TypeOK
    <3>2. Append(judged, Count(mem[p].loop)) \in Seq(Nat)
      BY <3>1, AppendProperties
    <3> QED BY <1>5, <3>1, <3>2 DEF Committing
  <2>2. row' \in Row /\ mem' \in [Procs -> [loop : Loop, rev : Nat]] /\ pc' \in [Procs -> PCs]
    BY <1>5, CommitEffect
  <2>3. outcome' \in [Procs -> Outcomes] /\ inflight' \in [Procs -> Nodes] /\ ran' = ran
    BY <1>5 DEF Committing
  <2> QED BY <1>0, <2>1, <2>2, <2>3 DEF TypeOK, Row, Nodes
<1> QED BY <1>1, <1>2, <1>3, <1>4, <1>5, StepKind

LEMMA WellFormedStep == IInv /\ [Next]_vars => LoopsWellFormed'
<1> SUFFICES ASSUME IInv, [Next]_vars
             PROVE  WellFormed(row'.loop) /\ \A q \in Procs : WellFormed(mem'[q].loop)
  BY DEF LoopsWellFormed
<1>0. /\ TypeOK /\ WellFormed(row.loop) /\ \A q \in Procs : WellFormed(mem[q].loop)
      /\ mem \in [Procs -> [loop : Loop, rev : Nat]]
  BY DEF IInv, LoopsWellFormed, TypeOK
<1>1. CASE Quiet
  BY <1>0, <1>1 DEF Quiet
<1>2. ASSUME NEW p \in Procs, LoadState(p)
      PROVE  WellFormed(row'.loop) /\ \A q \in Procs : WellFormed(mem'[q].loop)
  <2>1. mem'[p].loop = row.loop /\ row' = row /\ \A q \in Procs \ {p} : mem'[q] = mem[q]
    BY <1>0, <1>2 DEF LoadState
  <2> QED BY <1>0, <2>1
<1>3. ASSUME NEW p \in Procs, CeilingPrompts(p) \/ \E k \in Body : StartAttempt(p, k)
      PROVE  WellFormed(row'.loop) /\ \A q \in Procs : WellFormed(mem'[q].loop)
  <2>1. row' = row /\ mem' = mem
    BY <1>3 DEF CeilingPrompts, StartAttempt
  <2> QED BY <1>0, <2>1
<1>4. ASSUME NEW p \in Procs, NEW new \in Loop, Committing(p, new)
      PROVE  WellFormed(row'.loop) /\ \A q \in Procs : WellFormed(mem'[q].loop)
  <2>1. WellFormed(new)
    BY <1>4 DEF Committing, Evolves
  <2>2. row'.loop \in {row.loop, new}
    <3>1. CASE Saved(p)
      BY <1>4, <3>1, CommitEffect
    <3>2. CASE ~Saved(p)
      BY <1>4, <3>2, CommitEffect
    <3> QED BY <3>1, <3>2
  <2>4. mem'[p].loop = new
    BY <1>4, CommitEffect
  <2>3. \A q \in Procs \ {p} : mem'[q] = mem[q]
    BY <1>4, CommitEffect
  <2> QED BY <1>0, <2>1, <2>2, <2>3, <2>4
<1> QED BY <1>1, <1>2, <1>3, <1>4, StepKind

LEMMA ForeignLoopStep == IInv /\ [Next]_vars => NoForeignLoop'
<1> SUFFICES ASSUME IInv, [Next]_vars, NEW q \in Procs, MayCommit(q)'
             PROVE  /\ mem'[q].rev <= row'.rev
                    /\ mem'[q].rev = row'.rev => mem'[q].loop = row'.loop
  BY DEF NoForeignLoop
<1> DEFINE Own == /\ mem'[q].rev <= row'.rev
                  /\ mem'[q].rev = row'.rev => mem'[q].loop = row'.loop
<1>0. /\ TypeOK /\ row.rev \in Nat /\ mem[q].rev \in Nat /\ pc \in [Procs -> PCs]
      /\ mem \in [Procs -> [loop : Loop, rev : Nat]]
      /\ MayCommit(q) => /\ mem[q].rev <= row.rev
                         /\ mem[q].rev = row.rev => mem[q].loop = row.loop
  BY DEF IInv, NoForeignLoop, TypeOK
<1>1. CASE Quiet
  <2>1. MayCommit(q) /\ mem' = mem /\ row'.rev \in Nat
    BY <1>1 DEF Quiet, MayCommit, Row
  <2> QED BY <1>0, <1>1, <2>1 DEF Quiet
<1>2. ASSUME NEW p \in Procs, LoadState(p) PROVE Own
  BY <1>0, <1>2 DEF LoadState, Goto, MayCommit
<1>3. ASSUME NEW p \in Procs, CeilingPrompts(p) \/ \E k \in Body : StartAttempt(p, k)
      PROVE  Own
  <2>1. row' = row /\ mem' = mem /\ pc[p] = "drive" /\ \A r \in Procs \ {p} : pc'[r] = pc[r]
    BY <1>0, <1>3 DEF CeilingPrompts, StartAttempt, InLoop, Goto
  <2> QED BY <1>0, <2>1 DEF MayCommit
<1>4. ASSUME NEW p \in Procs, NEW new \in Loop, Committing(p, new) PROVE Own
  <2>1. MayCommit(p)
    BY <1>4 DEF Committing
  <2>2. CASE q = p
    <3>1. CASE Saved(p)
      <4>1. /\ row'.loop = new /\ row'.rev = row.rev + 1
            /\ mem'[p].loop = new /\ mem'[p].rev = row.rev + 1
        BY <1>4, <3>1, CommitEffect
      <4> QED BY <1>0, <2>2, <4>1
    <3>2. CASE ~Saved(p)
      <4>1. /\ mem[p].rev <= row.rev /\ row' = row
            /\ mem'[p].loop = new /\ mem'[p].rev = mem[p].rev
        BY <1>4, <3>2, CommitEffect
      <4> QED BY <1>0, <2>2, <3>2, <4>1 DEF Saved
    <3> QED BY <3>1, <3>2
  <2>3. CASE q # p
    <3>1. mem'[q] = mem[q] /\ MayCommit(q)
      BY <1>4, <2>3, CommitEffect DEF MayCommit
    <3>2. CASE Saved(p)
      <4>1. row'.rev = row.rev + 1
        BY <1>4, <3>2, CommitEffect
      <4> QED BY <1>0, <3>1, <4>1
    <3>3. CASE ~Saved(p)
      <4>1. row' = row
        BY <1>4, <3>3, CommitEffect
      <4> QED BY <1>0, <3>1, <4>1
    <3> QED BY <3>2, <3>3
  <2> QED BY <2>2, <2>3
<1> QED BY <1>1, <1>2, <1>3, <1>4, StepKind

(* Of one process: what it has in hand fits what it does.                   *)
Fits(p) ==
    /\ BodyInHand(p, "exec", "RUNNING") /\ BodyInHand(p, "prompt", "PAUSED")
    /\ pc[p] = "failing" => mem[p].loop.state = "RUNNING"
    /\ pc[p] = "ceiling" => mem[p].loop.state = "RUNNING" /\ AtCeiling(mem[p].loop)
    /\ Touched(mem[p].loop, inflight[p])
    /\ pc[p] \in {"idle", "load"} => inflight[p] = Nothing
    /\ MayCommit(p) /\ Stopped(mem[p].loop) => inflight[p] = Nothing

LEMMA NodeInHandStep == IInv /\ [Next]_vars => NodeInHand'
<1> SUFFICES ASSUME IInv, [Next]_vars, NEW q \in Procs PROVE Fits(q)'
  BY DEF NodeInHand, Fits
<1>0. /\ TypeOK /\ Fits(q) /\ inflight \in [Procs -> Nodes] /\ pc \in [Procs -> PCs]
      /\ mem[q].loop \in Loop /\ mem \in [Procs -> [loop : Loop, rev : Nat]]
  BY Types DEF IInv, NodeInHand, Fits, TypeOK
<1>1. ASSUME mem'[q] = mem[q], inflight'[q] = inflight[q],
             pc'[q] = pc[q] \/ ~MayCommit(q)',
             pc'[q] \in {"idle", "load"} => pc[q] \in {"idle", "load"}
      PROVE  Fits(q)'
  BY <1>0, <1>1 DEF Fits, BodyInHand, MayCommit, LeafOf
<1>2. CASE Quiet
  BY <1>1, <1>2 DEF Quiet
<1>3. ASSUME NEW p \in Procs, LoadState(p) PROVE Fits(q)'
  <2>1. CASE q = p
    <3>1. inflight'[q] = Nothing /\ pc'[q] \in {"recover", "drive"}
      BY <1>0, <1>3, <2>1 DEF LoadState, Goto, Fits
    <3> QED BY <3>1 DEF Fits, BodyInHand, Touched
  <2>2. CASE q # p
    BY <1>0, <1>1, <1>3, <2>2 DEF LoadState, Goto
  <2> QED BY <2>1, <2>2
<1>4. ASSUME NEW p \in Procs, CeilingPrompts(p) PROVE Fits(q)'
  <2>1. CASE q = p
    <3>1. inflight'[q] = TheLoop /\ pc'[q] = "ceiling" /\ mem'[q] = mem[q]
      BY <1>0, <1>4, <2>1 DEF CeilingPrompts, TakeInHand, Goto
    <3>2. mem[q].loop.state = "RUNNING" /\ AtCeiling(mem[q].loop)
      BY <1>4, <2>1 DEF CeilingPrompts, InLoop
    <3> QED BY <3>1, <3>2 DEF Fits, BodyInHand, Touched, Stopped
  <2>2. CASE q # p
    BY <1>0, <1>1, <1>4, <2>2 DEF CeilingPrompts, TakeInHand, Goto
  <2> QED BY <2>1, <2>2
<1>5. ASSUME NEW p \in Procs, NEW k \in Body, StartAttempt(p, k) PROVE Fits(q)'
  <2>1. CASE q = p
    <3>1. inflight'[q] = <<Count(mem[q].loop), k>> /\ pc'[q] = "exec" /\ mem'[q] = mem[q]
      BY <1>0, <1>5, <2>1 DEF StartAttempt, TakeInHand, Goto
    <3>2. /\ mem[q].loop.state = "RUNNING" /\ NextBodyStep(mem[q].loop, k)
          /\ LeafOf(q, k).state = "RUNNING"
      BY <1>5, <2>1 DEF StartAttempt, InLoop
    <3>3. Count(mem[q].loop) \in 1..Count(mem[q].loop)
      BY <1>0, LoopShape
    <3>4. Touched(mem[q].loop, <<Count(mem[q].loop), k>>)
      BY <3>2, <3>3 DEF Touched, LeafOf, Current
    <3>5. BodyInHand(q, "exec", "RUNNING")'
      BY <3>1, <3>2 DEF BodyInHand, LeafOf
    <3> QED BY <3>1, <3>2, <3>4, <3>5 DEF Fits, BodyInHand, Stopped
  <2>2. CASE q # p
    BY <1>0, <1>1, <1>5, <2>2 DEF StartAttempt, TakeInHand, Goto
  <2> QED BY <2>1, <2>2
<1>6. ASSUME NEW p \in Procs, NEW new \in Loop, Committing(p, new) PROVE Fits(q)'
  <2>1. CASE q = p
    <3>1. mem'[q].loop = new /\ Touched(new, inflight'[q])
      <4>1. mem'[p].loop = new
        BY <1>6, CommitEffect
      <4> QED BY <1>6, <2>1, <4>1 DEF Committing
    <3>2. PICK label \in {"drive", "prompt", "failing", "finish"} :
             pc'[q] = label /\ AfterCommit(p, new, label)
      BY <1>0, <1>6, <2>1 DEF Committing, Goto
    <3>3. BodyInHand(q, "prompt", "PAUSED")'
      BY <2>1, <3>1, <3>2 DEF BodyInHand, LeafOf, AfterCommit
    <3> QED BY <2>1, <3>1, <3>2, <3>3 DEF Fits, BodyInHand, AfterCommit, MayCommit
  <2>2. CASE q # p
    BY <1>1, <1>6, <2>2, CommitEffect
  <2> QED BY <2>1, <2>2
<1> QED BY <1>2, <1>3, <1>4, <1>5, <1>6, StepKind

LEMMA VerdictsStep == IInv /\ [Next]_vars => VerdictsStored'
<1> SUFFICES ASSUME IInv, [Next]_vars PROVE VerdictsStored'
  OBVIOUS
<1>0. /\ TypeOK /\ row \in Row /\ row.loop \in Loop /\ judged \in Seq(Nat)
      /\ JudgedOnce /\ Len(judged) = Verdicts(row.loop)
  BY Types, DriversAssumption DEF IInv, VerdictsStored, TypeOK, Row
<1>1. ASSUME row'.loop = row.loop, judged' = judged PROVE VerdictsStored'
  BY <1>0, <1>1 DEF VerdictsStored, JudgedOnce
<1>2. CASE Quiet
  BY <1>1, <1>2 DEF Quiet
<1>3. ASSUME NEW p \in Procs,
             LoadState(p) \/ CeilingPrompts(p) \/ \E k \in Body : StartAttempt(p, k)
      PROVE  VerdictsStored'
  BY <1>1, <1>3 DEF LoadState, CeilingPrompts, StartAttempt
<1>4. ASSUME NEW p \in Procs, NEW new \in Loop, Committing(p, new) PROVE VerdictsStored'
  <2>1. CASE ~Saved(p)
    <3>1. judged' = judged /\ row' = row
      BY <1>4, <2>1, CommitEffect DEF Committing
    <3> QED BY <1>1, <3>1
  <2>2. CASE Saved(p)
    <3>1. mem[p].loop = row.loop /\ row'.loop = new /\ Moves(row.loop, new)
      BY <1>4, <2>2, CommitEffect DEF Committing
    <3>2. /\ Count(row.loop) \in Nat \ {0} /\ Count(new) \in Nat \ {0}
          /\ Current(new).until \in {"none", "passed", "failed"}
      BY <1>0, LoopShape DEF Iteration
    <3>3. CASE judged' = judged /\ ~Judges(row.loop, new)
      <4>1. Verdicts(new) = Verdicts(row.loop)
        BY <3>1, <3>2, <3>3 DEF Moves, Stays, Repeats, Extends, Ends, Stops, SameButPhase, Verdicts
      <4> QED BY <1>0, <3>1, <3>3, <4>1 DEF VerdictsStored, JudgedOnce
    <3>4. CASE Judges(row.loop, new) /\ judged' = Append(judged, Count(row.loop))
      <4>1. /\ Len(judged') = Len(judged) + 1 /\ judged'[Len(judged) + 1] = Count(row.loop)
            /\ \A i \in 1..Len(judged) : judged'[i] = judged[i]
        BY <1>0, <3>2, <3>4, AppendProperties
      <4>2. /\ Verdicts(new) = Count(row.loop) /\ Verdicts(row.loop) = Count(row.loop) - 1
        BY <3>2, <3>4 DEF Judges, Verdicts
      <4>3. Len(judged) + 1 = Count(row.loop) /\ Len(judged) \in Nat
        BY <1>0, <3>2, <4>2, LenProperties
      <4>4. \A i \in 1..Len(judged') : judged'[i] = i
        BY <1>0, <4>1, <4>3 DEF JudgedOnce
      <4> QED BY <3>1, <4>1, <4>2, <4>3, <4>4 DEF VerdictsStored, JudgedOnce
    <3> QED BY <1>4, <2>2, <3>1, <3>3, <3>4 DEF Committing
  <2> QED BY <2>1, <2>2
<1> QED BY <1>2, <1>3, <1>4, StepKind

(* What the row has of an iteration's step is never taken back.             *)
LEMMA AttemptsGrow ==
    ASSUME NEW old \in Loop, NEW new \in Loop, Evolves(old, new)
    PROVE  /\ Count(old) \in Nat /\ Count(new) \in Nat /\ Count(old) <= Count(new)
           /\ \A i \in 1..Count(old), k \in Body :
                 /\ old.iterations[i].steps[k].attempt \in Nat
                 /\ new.iterations[i].steps[k].attempt \in Nat
                 /\ old.iterations[i].steps[k].attempt <= new.iterations[i].steps[k].attempt
<1>1. Count(old) \in Nat /\ Count(new) \in Nat /\ Count(old) <= Count(new)
  BY LoopShape DEF Evolves
<1>2. ASSUME NEW i \in 1..Count(old), NEW k \in Body
      PROVE  /\ old.iterations[i].steps[k].attempt \in Nat
             /\ new.iterations[i].steps[k].attempt \in Nat
             /\ old.iterations[i].steps[k].attempt <= new.iterations[i].steps[k].attempt
  <2>1. i \in 1..Count(new)
    BY <1>1
  <2>2. old.iterations[i].steps[k] \in Leaf /\ new.iterations[i].steps[k] \in Leaf
    BY <2>1, LoopShape
  <2>3. Kept(old.iterations[i], new.iterations[i])
    BY DEF Evolves
  <2> QED BY <2>2, <2>3 DEF Kept, Leaf
<1> QED BY <1>1, <1>2

(* The same of a commit, saved or not, seen from the row.                   *)
LEMMA RowGrows ==
    ASSUME IInv, NEW p \in Procs, NEW new \in Loop, Committing(p, new)
    PROVE  /\ row.loop \in Loop /\ row'.loop \in Loop
           /\ row'.loop = row.loop \/ Evolves(row.loop, row'.loop)
<1>1. row.loop \in Loop
  BY DEF IInv, TypeOK
<1>2. CASE Saved(p)
  <2>1. mem[p].loop = row.loop /\ row'.loop = new
    BY <1>2, CommitEffect
  <2> QED BY <1>1, <2>1 DEF Committing
<1>3. CASE ~Saved(p)
  BY <1>1, <1>3, CommitEffect
<1> QED BY <1>2, <1>3

LEMMA AttemptsStoredStep == IInv /\ [Next]_vars => AttemptsStored'
<1> SUFFICES ASSUME IInv, [Next]_vars, NEW t \in ran'
             PROVE  /\ t[1] \in 1..Count(row'.loop)
                    /\ t[3] <= row'.loop.iterations[t[1]].steps[t[2]].attempt
  BY DEF AttemptsStored
<1> DEFINE Stored == /\ t[1] \in 1..Count(row'.loop)
                     /\ t[3] <= row'.loop.iterations[t[1]].steps[t[2]].attempt
<1>0. /\ TypeOK /\ ran \subseteq Nat \X Body \X Nat /\ row.loop \in Loop
      /\ \A p \in Procs : mem[p].loop \in Loop
  BY DEF IInv, TypeOK
<1>1. ASSUME row'.loop = row.loop, t \in ran PROVE Stored
  BY <1>1 DEF IInv, AttemptsStored
<1>2. CASE Quiet
  BY <1>1, <1>2 DEF Quiet
<1>3. ASSUME NEW p \in Procs, LoadState(p) \/ CeilingPrompts(p) PROVE Stored
  BY <1>1, <1>3 DEF LoadState, CeilingPrompts
<1>4. ASSUME NEW p \in Procs, NEW k \in Body, StartAttempt(p, k) PROVE Stored
  <2>1. row' = row /\ ran' = ran \cup {Numbered(p, k)} /\ Opening(p, k)
    BY <1>4 DEF StartAttempt, Numbered, Opening, InLoop
  <2>2. CASE t \in ran
    BY <1>1, <2>1, <2>2
  <2>3. CASE t = Numbered(p, k)
    <3>1. /\ Count(mem[p].loop) <= Count(row.loop)
          /\ LeafOf(p, k).attempt <= row.loop.iterations[Count(mem[p].loop)].steps[k].attempt
      BY <2>1 DEF IInv, OpeningIsNew
    <3>2. Count(mem[p].loop) \in 1..Count(row.loop)
      BY <1>0, <3>1, LoopShape
    <3>3. t[1] = Count(mem[p].loop) /\ t[2] = k /\ t[3] = LeafOf(p, k).attempt
      BY <2>3 DEF Numbered
    <3> QED BY <2>1, <3>1, <3>2, <3>3
  <2> QED BY <2>1, <2>2, <2>3
<1>5. ASSUME NEW p \in Procs, NEW new \in Loop, Committing(p, new) PROVE Stored
  <2>1. t \in ran
    BY <1>5 DEF Committing
  <2>2. CASE row'.loop = row.loop
    BY <1>1, <2>1, <2>2
  <2>3. CASE Evolves(row.loop, row'.loop)
    <3>1. /\ t[1] \in 1..Count(row.loop) /\ t[2] \in Body /\ t[3] \in Nat
          /\ t[3] <= row.loop.iterations[t[1]].steps[t[2]].attempt
      BY <1>0, <2>1 DEF IInv, AttemptsStored
    <3>2. row'.loop \in Loop
      BY <1>5, RowGrows
    <3>3. /\ Count(row.loop) \in Nat /\ Count(row'.loop) \in Nat /\ Count(row.loop) <= Count(row'.loop)
          /\ row.loop.iterations[t[1]].steps[t[2]].attempt \in Nat
          /\ row'.loop.iterations[t[1]].steps[t[2]].attempt \in Nat
          /\ row.loop.iterations[t[1]].steps[t[2]].attempt
             <= row'.loop.iterations[t[1]].steps[t[2]].attempt
      BY <1>0, <2>3, <3>1, <3>2, AttemptsGrow
    <3> QED BY <3>1, <3>3
  <2> QED BY <1>5, <2>2, <2>3, RowGrows
<1> QED BY <1>2, <1>3, <1>4, <1>5, StepKind

(* A driver that did not move opens what it opened before.                  *)
LEMMA OpeningStays ==
    ASSUME NEW q \in Procs, NEW k \in Body, mem'[q] = mem[q], Opening(q, k)', pc[q] = "drive"
    PROVE  /\ Opening(q, k) /\ Numbered(q, k)' = Numbered(q, k)
           /\ LeafOf(q, k)' = LeafOf(q, k)
BY DEF Opening, Numbered, LeafOf

(* Of one process and one step.                                             *)
IsNew(p, k) ==
    Opening(p, k) =>
        /\ Numbered(p, k) \notin ran
        /\ Count(mem[p].loop) <= Count(row.loop)
        /\ LeafOf(p, k).attempt <= row.loop.iterations[Count(mem[p].loop)].steps[k].attempt
Apart(p, q, k) == Opening(p, k) /\ Opening(q, k) => Numbered(p, k) # Numbered(q, k)

LEMMA OpeningParts ==
    OpeningIsNew <=> /\ \A p \in Procs, k \in Body : IsNew(p, k)
                     /\ \A p \in Procs, q \in Procs, k \in Body : p # q => Apart(p, q, k)
BY DEF OpeningIsNew, IsNew, Apart

(* A commit that opens an attempt numbers it above the row's.               *)
LEMMA OpenedAbove ==
    ASSUME IInv, NEW p \in Procs, NEW new \in Loop, Committing(p, new), NEW k \in Body,
           Opening(p, k)'
    PROVE  /\ Saved(p) /\ mem[p].loop = row.loop /\ row'.loop = new /\ mem'[p].loop = new
           /\ \/ Opening(p, k) /\ Numbered(p, k)' = Numbered(p, k)
              \/ /\ Count(new) = Count(row.loop)
                 /\ Current(row.loop).steps[k].attempt < Current(new).steps[k].attempt
<1>1. pc'[p] = "drive" /\ mem'[p].loop = new /\ Current(new).steps[k].state = "RUNNING"
  BY CommitEffect DEF Opening, LeafOf
<1>2. PICK label \in {"drive", "prompt", "failing", "finish"} :
         Goto(p, label) /\ AfterCommit(p, new, label)
  BY DEF Committing
<1>3. label = "drive"
  BY <1>1, <1>2 DEF IInv, TypeOK, Goto
<1>4. Saved(p) /\ mem[p].loop = row.loop /\ row'.loop = new
  BY <1>2, <1>3, CommitEffect DEF AfterCommit
<1>5. /\ Count(new) = Count(mem[p].loop)
      /\ \/ pc[p] = "drive" /\ Current(new).steps[k] = LeafOf(p, k)
         \/ LeafOf(p, k).attempt < Current(new).steps[k].attempt
  BY <1>1, <1>2, <1>3 DEF AfterCommit
<1> QED BY <1>1, <1>4, <1>5 DEF Opening, Numbered, LeafOf

LEMMA OpeningStep == IInv /\ [Next]_vars => OpeningIsNew'
<1> SUFFICES ASSUME IInv, [Next]_vars
             PROVE  /\ \A q \in Procs, k \in Body : IsNew(q, k)'
                    /\ \A q \in Procs, r \in Procs, k \in Body : q # r => Apart(q, r, k)'
  BY DEF OpeningIsNew, IsNew, Apart
<1> DEFINE Goal == /\ \A q \in Procs, k \in Body : IsNew(q, k)'
                   /\ \A q \in Procs, r \in Procs, k \in Body : q # r => Apart(q, r, k)'
<1>0. /\ TypeOK /\ pc \in [Procs -> PCs] /\ mem \in [Procs -> [loop : Loop, rev : Nat]]
      /\ row.loop \in Loop /\ \A q \in Procs : mem[q].loop \in Loop
      /\ ran \subseteq Nat \X Body \X Nat
      /\ \A q \in Procs, k \in Body : IsNew(q, k)
      /\ \A q \in Procs, r \in Procs, k \in Body : q # r => Apart(q, r, k)
  BY OpeningParts DEF IInv, TypeOK
<1>1. ASSUME ran' = ran, row'.loop = row.loop,
             \A q \in Procs, k \in Body :
                Opening(q, k)' => /\ Opening(q, k) /\ Numbered(q, k)' = Numbered(q, k)
                                  /\ mem'[q].loop = mem[q].loop /\ LeafOf(q, k)' = LeafOf(q, k)
      PROVE  Goal
  BY <1>0, <1>1 DEF IsNew, Apart
<1>2. CASE Quiet
  <2>1. ASSUME NEW q \in Procs, NEW k \in Body, Opening(q, k)'
        PROVE  mem'[q] = mem[q] /\ pc[q] = "drive"
    BY <1>2, <2>1 DEF Quiet, Opening, MayCommit
  <2> QED BY <1>1, <1>2, <2>1, OpeningStays DEF Quiet
<1>3. ASSUME NEW p \in Procs, LoadState(p) PROVE Goal
  <2>1. ASSUME NEW q \in Procs, NEW k \in Body, Opening(q, k)'
        PROVE  q # p
    <3>1. SUFFICES ASSUME q = p PROVE FALSE
      OBVIOUS
    <3>2. mem'[p].loop = row.loop /\ pc'[p] = "drive" /\ Current(row.loop).steps[k].state = "RUNNING"
      BY <1>0, <1>3, <2>1, <3>1 DEF LoadState, Opening, LeafOf
    <3>3. Count(row.loop) \in 1..Count(row.loop)
      BY <1>0, LoopShape
    <3>4. Current(row.loop).steps[k] \in Leaves(row.loop)
      BY <3>3 DEF Leaves, Current
    <3>5. SaneLeaf(Current(row.loop).steps[k])
      BY <3>3 DEF IInv, LoopsWellFormed, WellFormed, Current
    <3>6. Interrupted(Current(row.loop).steps[k])
      BY <3>2, <3>5 DEF SaneLeaf, Interrupted
    <3>7. pc'[p] = "recover"
      BY <1>0, <1>3, <3>4, <3>6 DEF LoadState, Goto
    <3> QED BY <3>2, <3>7
  <2>2. ASSUME NEW q \in Procs, NEW k \in Body, Opening(q, k)'
        PROVE  mem'[q] = mem[q] /\ pc[q] = "drive"
    <3>1. q # p
      BY <2>1, <2>2
    <3> QED BY <1>0, <1>3, <2>2, <3>1 DEF LoadState, Goto, Opening
  <2>3. ran' = ran /\ row' = row
    BY <1>3 DEF LoadState
  <2> QED BY <1>1, <2>2, <2>3, OpeningStays
<1>4. ASSUME NEW p \in Procs, CeilingPrompts(p) PROVE Goal
  <2>1. ASSUME NEW q \in Procs, NEW k \in Body, Opening(q, k)'
        PROVE  mem'[q] = mem[q] /\ pc[q] = "drive"
    BY <1>0, <1>4, <2>1 DEF CeilingPrompts, Goto, Opening
  <2>2. ran' = ran /\ row' = row
    BY <1>4 DEF CeilingPrompts
  <2> QED BY <1>1, <2>1, <2>2, OpeningStays
<1>5. ASSUME NEW p \in Procs, NEW l \in Body, StartAttempt(p, l) PROVE Goal
  <2>1. /\ row' = row /\ ran' = ran \cup {Numbered(p, l)} /\ Opening(p, l) /\ mem' = mem
        /\ pc'[p] = "exec" /\ \A q \in Procs \ {p} : pc'[q] = pc[q]
    BY <1>0, <1>5 DEF StartAttempt, Numbered, Opening, InLoop, Goto
  <2>2. ASSUME NEW q \in Procs, NEW k \in Body, Opening(q, k)'
        PROVE  /\ q # p /\ Opening(q, k) /\ Numbered(q, k)' = Numbered(q, k)
               /\ LeafOf(q, k)' = LeafOf(q, k)
    <3>1. q # p /\ pc[q] = "drive" /\ mem'[q] = mem[q]
      BY <2>1, <2>2 DEF Opening
    <3> QED BY <2>2, <3>1, OpeningStays
  <2>3. ASSUME NEW q \in Procs, NEW k \in Body, q # p, Opening(q, k)
        PROVE  Numbered(q, k) # Numbered(p, l)
    <3>1. CASE k = l
      BY <1>0, <2>1, <2>3, <3>1 DEF Apart
    <3>2. CASE k # l
      BY <3>2 DEF Numbered
    <3> QED BY <3>1, <3>2
  <2>4. \A q \in Procs, k \in Body : IsNew(q, k)'
    BY <1>0, <2>1, <2>2, <2>3 DEF IsNew
  <2>5. \A q \in Procs, r \in Procs, k \in Body : q # r => Apart(q, r, k)'
    BY <1>0, <2>2 DEF Apart
  <2> QED BY <2>4, <2>5
<1>6. ASSUME NEW p \in Procs, NEW new \in Loop, Committing(p, new) PROVE Goal
  <2>1. /\ ran' = ran /\ row'.loop \in Loop
        /\ row'.loop = row.loop \/ Evolves(row.loop, row'.loop)
    BY <1>6, RowGrows DEF Committing
  <2>2. ASSUME NEW q \in Procs, NEW k \in Body, q # p, Opening(q, k)'
        PROVE  /\ Opening(q, k) /\ Numbered(q, k)' = Numbered(q, k)
               /\ LeafOf(q, k)' = LeafOf(q, k) /\ mem'[q] = mem[q]
    <3>1. mem'[q] = mem[q] /\ pc'[q] = pc[q]
      BY <1>6, <2>2, CommitEffect
    <3> QED BY <2>2, <3>1, OpeningStays DEF Opening
  <2>3. ASSUME NEW q \in Procs, NEW k \in Body, Opening(q, k)
        PROVE  /\ Count(mem[q].loop) <= Count(row'.loop)
               /\ LeafOf(q, k).attempt <= row'.loop.iterations[Count(mem[q].loop)].steps[k].attempt
    <3>1. /\ Count(mem[q].loop) <= Count(row.loop)
          /\ LeafOf(q, k).attempt <= row.loop.iterations[Count(mem[q].loop)].steps[k].attempt
      BY <1>0, <2>3 DEF IsNew
    <3>2. CASE row'.loop = row.loop
      BY <3>1, <3>2
    <3>3. CASE Evolves(row.loop, row'.loop)
      <4>1. Count(mem[q].loop) \in 1..Count(row.loop) /\ Count(mem[q].loop) \in 1..Count(mem[q].loop)
        BY <1>0, <3>1, LoopShape
      <4>2. LeafOf(q, k) \in Leaf
        BY <1>0, <4>1, LoopShape DEF LeafOf, Current
      <4>3. LeafOf(q, k).attempt \in Nat
        BY <4>2 DEF Leaf
      <4>4. /\ Count(row.loop) \in Nat /\ Count(row'.loop) \in Nat
            /\ Count(row.loop) <= Count(row'.loop)
            /\ row.loop.iterations[Count(mem[q].loop)].steps[k].attempt \in Nat
            /\ row'.loop.iterations[Count(mem[q].loop)].steps[k].attempt \in Nat
            /\ row.loop.iterations[Count(mem[q].loop)].steps[k].attempt
               <= row'.loop.iterations[Count(mem[q].loop)].steps[k].attempt
        BY <1>0, <2>1, <3>3, <4>1, AttemptsGrow
      <4> QED BY <3>1, <4>1, <4>3, <4>4
    <3> QED BY <2>1, <3>2, <3>3
  <2>4. ASSUME NEW q \in Procs, NEW k \in Body, q # p, Opening(q, k)' PROVE IsNew(q, k)'
    BY <1>0, <2>1, <2>2, <2>3, <2>4 DEF IsNew
  <2>5. ASSUME NEW k \in Body, Opening(p, k)' PROVE IsNew(p, k)'
    <3>1. mem[p].loop = row.loop /\ row'.loop = new /\ mem'[p].loop = new
      BY <1>6, <2>5, OpenedAbove
    <3>2. Count(new) \in Nat /\ Current(new).steps[k].attempt \in Nat
      <4>1. Count(new) \in 1..Count(new) /\ Count(new) \in Nat
        BY LoopShape
      <4>2. Current(new).steps[k] \in Leaf
        BY <4>1, LoopShape DEF Current
      <4> QED BY <4>1, <4>2 DEF Leaf
    <3>3. Numbered(p, k)' \notin ran
      <4>1. CASE Opening(p, k) /\ Numbered(p, k)' = Numbered(p, k)
        BY <1>0, <4>1 DEF IsNew
      <4>2. CASE /\ Count(new) = Count(row.loop)
                 /\ Current(row.loop).steps[k].attempt < Current(new).steps[k].attempt
        <5>1. SUFFICES ASSUME Numbered(p, k)' \in ran PROVE FALSE
          OBVIOUS
        <5>2. Numbered(p, k)' = <<Count(row.loop), k, Current(new).steps[k].attempt>>
          BY <3>1, <4>2 DEF Numbered, LeafOf
        <5>3. Current(new).steps[k].attempt <= Current(row.loop).steps[k].attempt
          <6>1. ASSUME NEW t \in ran
                PROVE  t[3] <= row.loop.iterations[t[1]].steps[t[2]].attempt
            BY DEF IInv, AttemptsStored
          <6> QED BY <5>1, <5>2, <6>1 DEF Current
        <5>4. Current(row.loop).steps[k].attempt \in Nat
          <6>1. Count(row.loop) \in 1..Count(row.loop)
            BY <1>0, LoopShape
          <6>2. Current(row.loop).steps[k] \in Leaf
            BY <1>0, <6>1, LoopShape DEF Current
          <6> QED BY <6>2 DEF Leaf
        <5> QED BY <3>2, <4>2, <5>3, <5>4
      <4> QED BY <1>6, <2>5, <4>1, <4>2, OpenedAbove
    <3> QED BY <2>1, <3>1, <3>2, <3>3 DEF IsNew, LeafOf, Current
  <2>6. ASSUME NEW q \in Procs, NEW k \in Body, q # p, Opening(q, k)', Opening(p, k)'
        PROVE  Numbered(q, k)' # Numbered(p, k)'
    <3>1. Opening(q, k) /\ Numbered(q, k)' = Numbered(q, k)
      BY <2>2, <2>6
    <3>2. CASE Opening(p, k) /\ Numbered(p, k)' = Numbered(p, k)
      BY <1>0, <2>6, <3>1, <3>2 DEF Apart
    <3>3. CASE /\ Count(new) = Count(row.loop) /\ mem'[p].loop = new
               /\ Current(row.loop).steps[k].attempt < Current(new).steps[k].attempt
      <4>1. SUFFICES ASSUME Numbered(q, k) = Numbered(p, k)' PROVE FALSE
        BY <3>1
      <4>2. /\ Count(mem[q].loop) = Count(row.loop)
            /\ LeafOf(q, k).attempt = Current(new).steps[k].attempt
        BY <3>3, <4>1 DEF Numbered, LeafOf
      <4>3. LeafOf(q, k).attempt <= Current(row.loop).steps[k].attempt
        BY <1>0, <3>1, <4>2 DEF IsNew, Current
      <4>4. Current(row.loop).steps[k].attempt \in Nat /\ Current(new).steps[k].attempt \in Nat
        <5>1. Count(row.loop) \in 1..Count(row.loop) /\ Count(new) \in 1..Count(new)
          BY <1>0, LoopShape
        <5>2. Current(row.loop).steps[k] \in Leaf /\ Current(new).steps[k] \in Leaf
          BY <1>0, <5>1, LoopShape DEF Current
        <5> QED BY <5>2 DEF Leaf
      <4> QED BY <3>3, <4>2, <4>3, <4>4
    <3> QED BY <1>6, <2>6, <3>2, <3>3, OpenedAbove
  <2>7. ASSUME NEW q \in Procs, NEW r \in Procs, NEW k \in Body, q # r,
               Opening(q, k)', Opening(r, k)'
        PROVE  Numbered(q, k)' # Numbered(r, k)'
    <3>1. CASE q # p /\ r # p
      BY <1>0, <2>2, <2>7, <3>1 DEF Apart
    <3>2. CASE q = p \/ r = p
      BY <2>6, <2>7, <3>2
    <3> QED BY <3>1, <3>2
  <2>8. \A q \in Procs, k \in Body : IsNew(q, k)'
    BY <2>4, <2>5 DEF IsNew
  <2> QED BY <2>7, <2>8 DEF Apart
<1> QED BY <1>2, <1>3, <1>4, <1>5, <1>6, StepKind

----------------------------------------------------------------------------
(* The inductive invariant holds when `dovo run` begins.                    *)

LEMMA NewLoopIsWellFormed ==
    /\ NewLoop \in Loop /\ WellFormed(NewLoop)
    /\ Count(NewLoop) = 1 /\ NewLoop.granted = 0 /\ NewLoop.state = "PENDING"
    /\ Current(NewLoop).until = "none"
    /\ \A k \in Body : Current(NewLoop).steps[k] = Planned
<1>1. NewIteration \in Iteration
  BY NewIterationType
<1>2. <<NewIteration>> \in Seq(Iteration) \ {<<>>}
  BY <1>1
<1>3. NewLoop \in Loop
  BY <1>2 DEF NewLoop, Loop, LoopStates
<1>4. Count(NewLoop) = 1 /\ NewLoop.iterations[1] = NewIteration
  BY DEF NewLoop, Count
<1>5. /\ Current(NewLoop) = NewIteration /\ NewIteration.until = "none"
      /\ \A k \in Body : NewIteration.steps[k] = Planned
  BY <1>4 DEF Current, NewIteration
<1>6. InOrder(NewLoop)
  BY <1>4, <1>5 DEF InOrder, Planned
<1>7. Count(NewLoop) <= Ceiling(NewLoop)
  BY <1>4, LoopAssumption DEF Ceiling, NewLoop
<1>8. SaneLeaf(Planned)
  BY DEF SaneLeaf, Planned
<1>9. WellFormed(NewLoop)
  BY <1>4, <1>5, <1>6, <1>7, <1>8 DEF WellFormed
<1> QED BY <1>3, <1>4, <1>5, <1>9 DEF NewLoop

LEMMA IInvInit == Init => IInv
<1> SUFFICES ASSUME Init PROVE IInv
  OBVIOUS
<1>1. /\ row.status = "RUNNING" /\ row.rev = 0 /\ row.loop = NewLoop
      /\ row \in [status : RunStatus, rev : Nat, loop : Loop]
  BY NewLoopIsWellFormed DEF Init, RunStatus
<1>2. /\ pc \in [Procs -> PCs] /\ \A p \in Procs : pc[p] \in {"idle", "load"}
  BY Labels DEF Init
<1>3. /\ mem \in [Procs -> [loop : Loop, rev : Nat]]
      /\ \A p \in Procs : mem[p].loop = NewLoop
  BY NewLoopIsWellFormed DEF Init
<1>4. /\ inflight \in [Procs -> Nodes] /\ \A p \in Procs : inflight[p] = Nothing
      /\ outcome \in [Procs -> Outcomes] /\ ran = {} /\ judged = <<>>
  BY Labels DEF Init, Nodes
<1>5. TypeOK
  BY <1>1, <1>2, <1>3, <1>4 DEF TypeOK, Nodes
<1>6. LoopsWellFormed
  BY <1>1, <1>3, NewLoopIsWellFormed DEF LoopsWellFormed
<1>7. NoForeignLoop /\ OpeningIsNew
  BY <1>2 DEF NoForeignLoop, MayCommit, OpeningIsNew, Opening
<1>8. NodeInHand
  BY <1>2, <1>4 DEF NodeInHand, BodyInHand, MayCommit, Touched
<1>9. VerdictsStored
  BY <1>1, <1>4, NewLoopIsWellFormed DEF VerdictsStored, JudgedOnce, Verdicts
<1>10. AttemptsStored
  BY <1>4 DEF AttemptsStored
<1> QED BY <1>5, <1>6, <1>7, <1>8, <1>9, <1>10 DEF IInv

LEMMA IInvStep == IInv /\ [Next]_vars => IInv'
BY TypeStep, WellFormedStep, ForeignLoopStep, NodeInHandStep, VerdictsStep, AttemptsStoredStep,
   OpeningStep DEF IInv

(* The inductive invariant of the loop: whoever may still commit builds on  *)
(* the row's loop, and every loop that a driver holds is one it had.        *)
THEOREM LoopInvariant == Spec => []IInv
BY IInvInit, IInvStep, PTL DEF Spec

(* Iterations follow each other in order and whole, and each of them is     *)
(* judged once, however many drivers take the loop on, die or race.         *)
THEOREM IterationsAreJudgedInOrder == Spec => []JudgedInOrder
<1>1. IInv => JudgedInOrder
  BY DEF IInv, JudgedInOrder, LoopsWellFormed, WellFormed, IterationsInOrder, VerdictsStored
<1> QED BY LoopInvariant, <1>1, PTL

----------------------------------------------------------------------------
(* What a step may do to the loop that is stored.                           *)

LEMMA RowStep ==
    ASSUME IInv, [Next]_vars
    PROVE  /\ row.loop \in Loop /\ row'.loop \in Loop
           /\ \/ row'.loop = row.loop
              \/ Evolves(row.loop, row'.loop) /\ Moves(row.loop, row'.loop)
<1>0. row.loop \in Loop
  BY DEF IInv, TypeOK
<1>1. CASE Quiet
  BY <1>0, <1>1 DEF Quiet
<1>2. ASSUME NEW p \in Procs,
             LoadState(p) \/ CeilingPrompts(p) \/ \E k \in Body : StartAttempt(p, k)
      PROVE  row' = row
  BY <1>2 DEF LoadState, CeilingPrompts, StartAttempt
<1>3. ASSUME NEW p \in Procs, NEW new \in Loop, Committing(p, new)
      PROVE  /\ row'.loop \in Loop
             /\ \/ row'.loop = row.loop
                \/ Evolves(row.loop, row'.loop) /\ Moves(row.loop, row'.loop)
  <2>1. CASE Saved(p)
    <3>1. mem[p].loop = row.loop /\ row'.loop = new
      BY <1>3, <2>1, CommitEffect
    <3> QED BY <1>3, <3>1 DEF Committing
  <2>2. CASE ~Saved(p)
    BY <1>0, <1>3, <2>2, CommitEffect
  <2> QED BY <2>1, <2>2
<1> QED BY <1>0, <1>1, <1>2, <1>3, StepKind

(* What is stored of a judged iteration is never changed again by anybody,  *)
(* except for the leaf that a cancellation relabels.                        *)
THEOREM JudgedIterationsAreFinal == Spec => JudgedIsFinal
<1> DEFINE Final == \A i \in 1..Count(row.loop) : row.loop.iterations[i].until # "none" =>
          LET before == row.loop.iterations[i]
              after == row'.loop.iterations[i]
          IN  /\ after.until = before.until
              /\ \A k \in Body : \/ after.steps[k] = before.steps[k]
                                 \/ after.steps[k].state = "CANCELLED"
<1>1. IInv /\ [Next]_vars => [Final]_vars
  <2> SUFFICES ASSUME IInv, [Next]_vars, NEW i \in 1..Count(row.loop),
                      row.loop.iterations[i].until # "none"
               PROVE  /\ row'.loop.iterations[i].until = row.loop.iterations[i].until
                      /\ \A k \in Body :
                            \/ row'.loop.iterations[i].steps[k] = row.loop.iterations[i].steps[k]
                            \/ row'.loop.iterations[i].steps[k].state = "CANCELLED"
    OBVIOUS
  <2>1. row'.loop = row.loop \/ Evolves(row.loop, row'.loop)
    BY RowStep
  <2> QED BY <2>1 DEF Evolves, Kept
<1> QED BY LoopInvariant, <1>1, PTL DEF Spec, JudgedIsFinal

(* Only StartAttempt takes a driver from its dispatch to an execution, and  *)
(* then with a number that no attempt of the step was executed under.       *)
THEOREM BodyStepsRunOnce == Spec => BodyRunsOnce
<1> DEFINE Once ==
      \A p \in Procs, k \in Body :
          /\ pc[p] = "drive" /\ pc'[p] = "exec" /\ inflight'[p] = <<Count(mem[p].loop), k>>
          => <<Count(mem[p].loop), k, LeafOf(p, k).attempt>> \notin ran
<1>1. IInv /\ [Next]_vars => [Once]_vars
  <2> SUFFICES ASSUME IInv, [Next]_vars, NEW p \in Procs, NEW k \in Body,
                      pc[p] = "drive", pc'[p] = "exec", inflight'[p] = <<Count(mem[p].loop), k>>
               PROVE  Numbered(p, k) \notin ran
    BY DEF Numbered
  <2>0. /\ pc \in [Procs -> PCs] /\ inflight \in [Procs -> Nodes] /\ mem[p].loop \in Loop
        /\ OpeningIsNew
    BY Types DEF IInv
  <2>1. CASE Quiet
    BY <2>1 DEF Quiet, MayCommit
  <2>2. ASSUME NEW q \in Procs, LoadState(q) \/ CeilingPrompts(q) PROVE FALSE
    BY <2>0, <2>2 DEF LoadState, CeilingPrompts, Goto
  <2>3. ASSUME NEW q \in Procs, NEW new \in Loop, Committing(q, new) PROVE FALSE
    BY <2>0, <2>3 DEF Committing, Goto
  <2>4. ASSUME NEW q \in Procs, NEW l \in Body, StartAttempt(q, l)
        PROVE  Numbered(p, k) \notin ran
    <3>1. q = p
      BY <2>0, <2>4 DEF StartAttempt, Goto
    <3>2. inflight'[p] = <<Count(mem[p].loop), l>>
      BY <2>0, <2>4, <3>1 DEF StartAttempt, TakeInHand
    <3>3. l = k
      BY <3>2
    <3>4. Opening(p, k)
      BY <2>4, <3>1, <3>3 DEF StartAttempt, Opening
    <3> QED BY <2>0, <3>4 DEF OpeningIsNew
  <2> QED BY <2>1, <2>2, <2>3, <2>4, StepKind
<1> QED BY LoopInvariant, <1>1, PTL DEF Spec, BodyRunsOnce

----------------------------------------------------------------------------
(* The persisted loop implements RepeatUntil.                               *)

LEMMA PromiseInit == Init => Promise!LInit
<1> SUFFICES ASSUME Init PROVE Promise!LInit
  OBVIOUS
<1>1. row.loop = NewLoop
  BY DEF Init
<1>2. Ceiling(NewLoop) = MaxIterations
  BY NewLoopIsWellFormed, LoopAssumption DEF Ceiling
<1> QED BY <1>1, <1>2, NewLoopIsWellFormed DEF Promise!LInit

LEMMA PromiseStep == IInv /\ [Next]_vars => [Promise!LNext]_(Promise!lvars)
<1> SUFFICES ASSUME IInv, [Next]_vars PROVE [Promise!LNext]_(Promise!lvars)
  OBVIOUS
<1>1. /\ row.loop \in Loop /\ row'.loop \in Loop
      /\ row'.loop = row.loop \/ Moves(row.loop, row'.loop)
  BY RowStep
<1>2. row.loop.granted \in Nat
  BY <1>1, LoopShape
<1>3. CASE row'.loop = row.loop \/ Stays(row.loop, row'.loop)
  BY <1>3 DEF Stays, SameButPhase, Phase, Promise!lvars, Ceiling
<1>4. CASE Judges(row.loop, row'.loop)
  BY <1>4 DEF Judges, Phase, Promise!LNext, Promise!Judge, Ceiling
<1>5. CASE Repeats(row.loop, row'.loop)
  BY <1>5 DEF Repeats, Phase, Promise!LNext, Promise!Repeat, Ceiling
<1>6. CASE Extends(row.loop, row'.loop)
  <2>1. Ceiling(row'.loop) = Ceiling(row.loop) + GrantCount
    BY <1>2, <1>6, LoopAssumption DEF Extends, Ceiling
  <2> QED BY <1>6, <2>1 DEF Extends, Phase, Promise!LNext, Promise!Extend
<1>7. CASE Ends(row.loop, row'.loop)
  BY <1>7 DEF Ends, SameButPhase, Phase, Promise!LNext, Promise!End, Ceiling
<1>8. CASE Stops(row.loop, row'.loop)
  BY <1>8 DEF Stops, SameButPhase, Phase, Promise!LNext, Promise!Stop, Ceiling
<1> QED BY <1>1, <1>3, <1>4, <1>5, <1>6, <1>7, <1>8 DEF Moves

(* The loop in the row is a loop as its author wrote it: it repeats only    *)
(* after a failed verdict and within its budget, which grows only at the    *)
(* ceiling, and it ends only passed, used up or stopped.                    *)
THEOREM LoopRepeatsUntil == Spec => ImplementsRepeatUntil
BY LoopInvariant, PromiseInit, PromiseStep, PTL DEF Spec, ImplementsRepeatUntil, Promise!LSpec
=============================================================================
