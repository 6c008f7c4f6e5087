-------------------------- MODULE MCContractAdmission --------------------------
EXTENDS ContractAdmission

MCManifest == <<"raw", "bytes", "scalar", "array">>
MCTop == 24
MCWord == 8
MCIo == 10

MCEncoding ==
  [raw    |-> [kind |-> "fixed", size |-> 2, value |-> 7, pointer |-> TRUE],
   bytes  |-> [kind |-> "bytes"],
   scalar |-> [kind |-> "scalar", size |-> 8, modulus |-> 24],
   array  |-> [kind |-> "count", register |-> "s", varied |-> TRUE]]

Output(k, name) == [name |-> name, base |-> "io", offset |-> k, below |-> "none",
                    by |-> "constant", width |-> 1]
Outputs == <<Output(1, "buffer"), Output(2, "length")>>
ChildFrame == [name |-> "child-frame", base |-> "sp", offset |-> 0, below |-> "frameSize",
               by |-> "parameter", width |-> "frameSize"]
InlineFrame == [name |-> "inline-frame", base |-> "sp", offset |-> -4, below |-> "none",
                by |-> "constant", width |-> 6]
Source == [name |-> "source", base |-> "a0", offset |-> 0, below |-> "none",
           by |-> "parameter", width |-> "expectedSize"]

Profile == [preserved |-> {"sp"}, stackAlignment |-> 1, bounded |-> TRUE,
            allowedStoreRegions |-> Outputs, requireHostWrite |-> TRUE,
            requireStackApart |-> FALSE, sourceRegion |-> {}, callerSiteIdentity |-> "none"]

MCProfiles ==
  [rawEncoder  |-> [Profile EXCEPT !.preserved = {"sp", "s"}, !.sourceRegion = {Source}],
   encoderCall |-> [Profile EXCEPT !.preserved = {"ra", "sp", "s"}, !.stackAlignment = 4,
                      !.allowedStoreRegions = <<ChildFrame>> \o Outputs,
                      !.requireStackApart = TRUE, !.callerSiteIdentity = "return-register-x1"],
   inlineArray |-> [Profile EXCEPT !.stackAlignment = 4,
                      !.allowedStoreRegions = <<InlineFrame>> \o Outputs,
                      !.requireStackApart = TRUE, !.callerSiteIdentity = "instance"]]

MCParameters ==
  [raw    |-> [frameSize |-> 0, expectedSize |-> 2],
   bytes  |-> [frameSize |-> 4, expectedSize |-> 0],
   scalar |-> [frameSize |-> 2, expectedSize |-> 0],
   array  |-> [frameSize |-> 0, expectedSize |-> 0]]
MCOwnPreserved == [raw |-> {"ra", "sp"}]

MCAudits == <<
  [schemas |-> {"encoderCall", "inlineArray"}, instances |-> {},
   keep |-> {"child-frame", "inline-frame"}, overrides |-> <<>>, expected |-> "stores"],
  [schemas |-> {}, instances |-> {"bytes"}, keep |-> {},
   overrides |-> [frameSize |-> 2], expected |-> "stores"]>>

Clause(id, kind) == [id |-> id, kind |-> kind]
Schema(names) == [names |-> names, representative |-> "work",
                  clauses |-> <<Clause("entry-execution-access", "entry"),
                                Clause("frame", "partial")>>]
Registry == [rawEncoder |-> Schema(<<"raw">>), encoderCall |-> Schema(<<"bytes", "scalar">>),
             inlineArray |-> Schema(<<"array">>)]

\* As it should be; an instance missing, named twice in a schema or in two; a
\* clause twice; an entry clause left open; no plan for a proof; a schema less.
MCRegistries == {
  Registry,
  [Registry EXCEPT !.encoderCall.names = <<"bytes">>],
  [Registry EXCEPT !.rawEncoder.names = <<"raw", "raw">>],
  [Registry EXCEPT !.encoderCall.names = <<"bytes", "scalar", "raw">>],
  [Registry EXCEPT !.rawEncoder.clauses = <<Clause("frame", "proof"), Clause("frame", "proof")>>],
  [Registry EXCEPT !.rawEncoder.clauses[1].kind = "missing"],
  [Registry EXCEPT !.rawEncoder.representative = "none"],
  [s \in {"rawEncoder", "encoderCall"} |->
     IF s = "rawEncoder" THEN Registry[s] ELSE Schema(<<"bytes", "scalar", "array">>)]}

-------------------------------------------------------------------------------
Write(address, size, value) == [address |-> address, size |-> size, value |-> value]
Store(start, width) == [start |-> start, width |-> width]

Occurrence(registers, stores, writes) ==
  [before |-> registers, after |-> registers, complete |-> TRUE, executed |-> 3,
   stores |-> stores \cup {Store(11, 1), Store(12, 1)}, writes |-> writes,
   entries |-> <<registers["a0"]>>]

At(site, s, a0, a1) == [ra |-> site, sp |-> 8, s |-> s, a0 |-> a0, a1 |-> a1]

\* In the first vector and in the second.
Good(v) ==
  [raw    |-> Occurrence(At(v, 5, 0, 0), {}, <<Write(0, 2, 7)>>),
   bytes  |-> Occurrence(At(v, 5, 1, v), {Store(4, 2), Store(6, 2)},
                         <<Write(6, 8, v), Write(1, v, 0)>>),
   scalar |-> Occurrence(At(v + 2, 5, 3, 0), {Store(6, 2)}, <<Write(6, 8, 3)>>),
   array  |-> Occurrence(At(v, v - 1, 0, 0), {Store(9, 1)}, <<Write(9, 8, v - 1)>>)]

\* One thing is different from a good occurrence.
Deviations(o) == <<
  [o EXCEPT !.complete = FALSE],
  [o EXCEPT !.executed = 0],
  [o EXCEPT !.before.sp = 7, !.after.sp = 7],
  [o EXCEPT !.before.sp = 0, !.after.sp = 0],
  [o EXCEPT !.before.sp = 12, !.after.sp = 12],
  [o EXCEPT !.after.ra = 0],
  [o EXCEPT !.after.s = 9],
  [o EXCEPT !.stores = @ \cup {Store(1, 1)}],
  [o EXCEPT !.stores = @ \cup {Store(9, 2)}],
  [o EXCEPT !.stores = @ \ {Store(4, 2)}],
  [o EXCEPT !.stores = @ \ {Store(11, 1), Store(12, 1)}],
  [o EXCEPT !.writes = <<>>],
  [o EXCEPT !.writes = @ \o @],
  [o EXCEPT !.writes[1].value = @ + 1],
  [o EXCEPT !.before.a0 = 4, !.entries = <<4>>],
  [o EXCEPT !.before.a1 = 0, !.writes[1].value = 0],
  [o EXCEPT !.before.a0 = 23, !.writes = <<Write(23, 2, 7)>>, !.entries = <<23>>],
  [o EXCEPT !.before.a0 = 11, !.writes = <<Write(11, 2, 7)>>, !.entries = <<11>>],
  [o EXCEPT !.entries = @ \o @],
  [o EXCEPT !.entries = @ \o @, !.writes = @ \o @] >>

Vector(v) == LET good == Good(v)
           IN  [raw |-> <<good.raw>>, bytes |-> <<good.bytes>>,
                scalar |-> <<good.scalar>>, array |-> <<good.array>>]
Base == <<Vector(1), Vector(2)>>

\* The choices in a slot: as it is, missing, or one of the deviations.
Variants == 0 .. Len(Deviations(Good(1).raw)) + 1
Chosen(o, n) == IF n = 0 THEN <<o>> ELSE IF n = 1 THEN <<>> ELSE <<Deviations(o)[n - 1]>>

With(vectors, v, i, n) == [vectors EXCEPT ![v][i] = Chosen(Good(v)[i], n)]

\* In each vector something may be missing or different.
MCEvidences ==
  {With(With(Base, 1, i, m), 2, j, n) :
     i \in Range(MCManifest), m \in Variants, j \in Range(MCManifest), n \in Variants}
===============================================================================
