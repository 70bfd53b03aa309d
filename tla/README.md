# A verification development for the multi-core pipeline simulator

The repository holds `sim`, a C simulator of four pipelined cores with private MESI
caches on one shared bus, and in `src/test.c` a second, self-contained simulator of
the same machine. This directory holds TLA+ models of the simulated machine and of
the assembler that feeds it, the TLC configurations that check them on small
instances, and theorems about them whose proofs TLAPS checks for every size.

    tlc -workers 2 -config SnoopBusTwo.cfg MCSnoopBus     # one run
    tlapm SnoopBusProofs.tla                              # one proof module

`PROJECT.json` lists the runs, the source lines each definition stands for, the
deviations found, the hazards and the theorems.

## 1. The system

### 1.1 `sim`

`main.c` reads one program per core, initialises everything and enters
`simulate_cores`. One iteration of its loop is a clock cycle:

    for core_id = 0 .. 3:   if the core has instructions: pipeline(core)
    snoop_bus(caches, bus, main_memory)

All is one thread, so there is no data race. The concurrency is that of the
simulated hardware: four cores and one bus, each advanced by one step per
cycle, in a fixed order, with shared state between them (the bus structure, the
caches the bus looks into, the main memory).

| component | source | state | operations |
|---|---|---|---|
| clock loop | `main.c` | `clock`, `finished`, per core `halted`, `last_command` | `simulate_cores` |
| pipeline | `pipeline.c` | five `pipeline_array` slots, `decode_buf`, `execute_buf`, `mem_buf`, `PC` | `pipeline`, `detect_hazard` |
| stages | `state_machine.c` | registers, the buffers above | `fetch_state` ... `writeback_state` |
| cache | `cache.c` | `MESI`, tag and data of each line, `memory_stalls` | `cache_read`, `cache_write` |
| bus | `cache.c`, `bus_structs.h` | `MESI_bus`, four global counters, two statics | `send_op_to_bus`, `check_shared_bus`, `snoop_bus` |
| main memory | `cache.c` | `memory_data` | `flush_from_main_memory`, `flush_from_cache`, `write_to_main_memory` |
| initialisation | `initialize.c` | all of it | `initialize_*` |
| bus arbiter queue | `bus_arbitrator.c` | ring `data`, `front`, `rear`, `size` | `enqueue`, `dequeue`, `peek` |
| round-robin arbiter | `bus_arbitrator.c` | static `lastGrantedCore` | `roundRobinArbitrator` |
| assembler | `asm.c` | none after it returns | `interpret_file` |
| conversions | `utils.c` | none | hexadecimal to integer and back |

Interactions. `memory_state` calls `cache_read` or `cache_write`; these change
the line at once on a hit and otherwise call `send_op_to_bus`, which writes the
request into the one `MESI_bus` structure if `bus_busy` is not set, and drops it
if it is. `snoop_bus` then carries the request over many cycles: the victim is
written back one word per cycle while the main memory stalls, then one word per
cycle goes to the bus and into the requester's line; or another cache sends the
block. `detect_hazard` keeps a core that missed from shifting its pipeline while
the bus is taken. `writeback_state` of an LW reads the word from the line a cycle
or more after `memory_state` has looked for it.

What is hard: a transaction lasts about twenty cycles, and in each of them every
other core may hit in its own cache and change the state of lines the
transaction has already looked at; the progress of a transaction is spread over
the bus command, `bus_stall`, four global counters and two statics that are
reset in different selections by the different ends of a transaction; requests
get lost; the word of a store waits in a single buffer.

Inside a core five stages run one after the other, from WB back to FETCH, over slots
that are moved at the start of the cycle and three buffers that each belong to
whoever wrote them last. `decode` is called up to twice a cycle, reads the register
file while older instructions are on their way, decides on branches, and sets the
return address. A RAW hazard holds the slots in front of EXEC, a miss holds all of
them. The slot FETCH points into the program itself. `halted` is assigned by `decode` and
by the clock loop.

The program comes from `interpret_file`, which `main` calls for each core before anything
else: text to words, words to a file, the file to `instruction_array`, with as many
entries as the text has lines.

### 1.2 `test.c`

One file with its own pipeline, caches, bus and clock loop (`runSimulation`).
Its bus differs: a core's request waits in one slot (`busRequest`, `busCmdReq`,
`busAddrReq`), `arbitrateBusRequests` grants round robin, and a transaction takes
effect as a whole in its last cycle (`busSnoopAllCores`, the read of main memory,
`finishBusTransaction`).

### 1.3 What makes each component correct

- *Caches, bus and memory of `sim`*: coherence (a block one cache may write is in
  no other cache); the words of a dirty victim reach main memory before its line is
  filled with another block; a transaction is not left half reset, and ends;
  clean lines equal main memory; a load takes the word it asked for.
- *Arbiter queue*: it is a bounded FIFO. *Round robin*: the core granted last does
  not overtake others.
- *Caches and bus of `test.c`*: a stalled core is always going to be woken; EXCLUSIVE
  means only copy, and clean; everybody who asks is served.
- *Pipeline of `sim`*: an instruction is executed with the values that its registers
  hold after all older ones; stalls, bubbles and misses are invisible, so that the
  program runs as if one instruction followed the other, each taken branch after
  its delay slot; the core is found halted when nothing is pending, and then at last.
- *Assembler*: the core decodes what the lines say, one instruction for one
  instruction, labels at their places; a text with an unknown opcode, data outside the
  data memory, a jump without its label, or more instructions than the memory has words is
  not loaded, and others are (section 2.5 says what the code does with further faults); the
  loops end.
- *Conversions*: a value comes back from its digits unchanged, at the ends
  of the range too, as long as only the digits are read (section 2.5).

## 2. The modules

| module | what it is |
|---|---|
| `SnoopBus` | `cache.c` with the clock loop and the MEM and WB stages around it |
| `SnoopBusInvariant` | its inductive invariant, `IInv` |
| `SnoopBusHistory` | a history variable for the words of a dirty victim, and what becomes of them |
| `SnoopBusSingle`, `FlatMemory` | refinement: with one running core the whole is one flat memory |
| `MCSnoopBus`, `MCSnoopBusHistory` | the modules the runs of SnoopBus are checked in |
| `SnoopBusProofs`, `SnoopBusSingleProofs` | theorems about SnoopBus and the victims, and about one running core |
| `BusArbitratorQueue`, `BoundedFifo` | the ring of `bus_arbitrator.c` and the FIFO it implements |
| `BusArbitratorQueueProofs` | theorems about the ring |
| `RoundRobinArbitrator` | `roundRobinArbitrator` |
| `ExampleBus`, `ExampleBusProofs` | caches and bus of `test.c`, theorems |
| `InstructionSet` | the instructions and what each of them computes |
| `Pipeline` | `pipeline.c` and `state_machine.c` for one core |
| `SequentialCore`, `PipelineSequential` | the machine that executes one instruction after the other, and the mapping of the pipeline to it |
| `PipelineInvariant`, `PipelineProofs` | what the stages keep for any program: inductive invariant, theorems |
| `PipelineSequentialInvariant`, `PipelineSequentialProofs` | why a program is executed in its order: inductive invariant, theorems |
| `MCPipeline` | the programs of the runs |
| `Encoding`, `EncodingProofs` | words, immediates and digits as `asm.c`, `decode` and `utils.c` treat them, theorems |
| `Assembler` | `interpret_file` and `initialize_instruction_array` |
| `AssemblerInvariant`, `AssemblerProofs` | where the lines read so far are found: inductive invariant, theorems |
| `MCAssembler` | the texts of the run |

`Pipeline` stands on `SnoopBus` by way of `FlatMemory`: `bus_single` shows that for one
running core caches, bus and memory are one flat memory whose accesses take some cycles, and
that memory is what `Pipeline` has. `Pipeline` takes the entries that `Assembler` loads.

### 2.1 SnoopBus

*State.* `mesi`, `tag`, `dsram` are the lines of each cache; `mem` main memory; `bus`
the `MESI_bus` structure (`cmd` = `bus_cmd`, `origid` = `bus_origid`, `reqId` =
`bus_requesting_id`, `reqAddr` = `bus_requesting_address`, `busy`, `stall`,
`shared`, `wr` = the write flag, `wbuf` = `bus_write_buffer`). The counters and the
statics of `write_to_main_memory` have their own names. `memOp[c]` is the
instruction in a core's MEM stage, `loaded[c]` the register its last LW wrote,
`memStalls[c]` is `memory_stalls`. `turn` is the place in the loop of
`simulate_cores`: 0 .. NumCores-1 a core, NumCores the call of `snoop_bus`.

*Actions.* One per outcome of a core's cycle (`CoreSkip`: no program;
`CoreStalled`: `detect_hazard` holds the pipeline; `NoMemoryOp`, `ReadHit`,
`ReadMiss`, `WriteHitOwned`, `WriteHitShared`, `WriteMiss`) and one per case of
`snoop_bus`, split as its nested conditions are: idle; BUS_RD while stalled, with
a modified, a clean and no owner; BUS_RDX with a shared, exclusive, modified and
no owner; FLUSH from memory and from a cache. Each action includes the
transfer functions its case calls (`FlushFromMainMemory`, `FlushFromCache`,
`WriteToMainMemory`), because the C code calls them in the same cycle.

*Abstractions.*
- Which instruction enters MEM next is arbitrary: that over-approximates every
  program, and the other stages touch neither caches nor bus.
- An address is the record that `get_cache_address_parts` makes of it. Data words are
  the members of `Values`; control never depends on them.
- `bus_data`, `bus_addr` and the log files are left out: nothing reads them back,
  except that `bus_addr` is used as an index, which `StrayLine` computes.
- The second store of `flush_from_cache` at `data[bus_addr]` is performed when it
  lands in the array and recorded in `overrun` when it lands outside. What it would
  overwrite there is the compiler's choice; the properties that depend on data
  laid out after the array are stated for executions without it (`SingleWriter`
  says `~overrun =>`; `IInv` states it without the condition, for the model's
  state).
- Uninitialised fields are arbitrary: `memory_stalls` (of the cores that run; nobody looks
  at that of a core without a program) and `bus_requesting_id` at the start, and the entries behind the array of owners that the invalidation loop of
  case BUS_RDX runs into. `extra` in `SnoopRdxShared` is any subset of the values that the
  loop accepts, `Entries` = 0 .. 4; one that is no core's number is a store outside
  `caches` (`cache.c:461`) and is recorded in `overrun` as well.
- `snoop_bus` with BLOCK_SIZE = 1 would end transactions in other cases;
  `BlockAssumption` excludes it. It also says that the memory stalls longer than a
  block has words, as 15 and 4 do.
- The end of the simulation (`halted`, `max_cycles`) is not modelled: the loop
  goes on for ever with bubbles.
- `SnoopBusHistory` adds the history variable `victimLine`, the requester's line as it is
  when its request takes the bus. No action reads it.
- The headers of the repository lag behind the sources in places (for instance
  the field `memory_stalls` that `cache.c` uses); the sources are what is modelled.

### 2.2 BusArbitratorQueue and RoundRobinArbitrator

State and actions have the names of the C fields and functions; `answer` is what
the last call returned. The code that called them is commented out, so every
sequence of calls is considered. C's `%` truncates: the first call of
`roundRobinArbitrator` looks at index -1, which `Candidate` and `stray` model.

### 2.3 ExampleBus

State has the names of the globals of `test.c`; `turn` is the place in the loop of
`runSimulation`. `memStage(c)` takes any instruction or none; `BusIdle`, `BusGrant`
and `BusGoesOn` are `arbitrateBusRequests` followed by `busCycle`, because the
code calls one after the other in the same cycle. A block travels as a whole in
`test.c` too and is one value. `high` stands for address bits above main memory's
size: such addresses match lines by the stored tag bits, and their blocks are
not written back. A load that misses moves on to MEM_WB with its address for a
result; the value loads return is not in this model.

### 2.4 Pipeline

*State.* `pipeline_array`, `pc`, `halted`, `last_command`, `decode_buf`,
`execute_buf`, `mem_buf`, `instruction_array` are the fields of `Core`; `regs` is
`regout_array`, with numbers for the strings of digits; `btaken` that of the DECODE
slot, the only one that is looked at; `first` is `first_command`; `stage` is the
place in `pipeline()`. `store` is the memory, `request` the core's transaction while
the bus has it. A command has its index in `instruction_array` as a ghost, `at`.

*Actions.* `Shift` is `pipeline()` up to the loop over the stages: `detect_hazard`,
the copies, and `nullify_command` or a new slot. Then one action per stage, `Skip`
for a slot that is DONE, `DecodeAgain` for the second call of `decode`, and
`EndCycle` for the branch, the assignment to `halted` by `simulate_cores` and the
step of the bus in the same cycle. The FETCH slot is a pointer: `Shift` overwrites
the entry of `instruction_array` that it points to.

*Abstractions.*
- One core runs and memory is flat, with hits and misses at will. A miss keeps the bus
  for 2 .. Latency calls of `snoop_bus`; a store that misses takes effect in the last of
  them. In the code a load takes its word from the line at write-back, and so does the model.
- What the ALU computes is the constant `Compute`; the theorems hold for any. The runs
  use addition and subtraction modulo four.
- `Stale` is what an uninitialised `btaken` may be found to be, `Leftover` the fields that
  `decode` finds in the bytes behind "NOP". The theorems of `PipelineProofs` take any, the
  runs and the theorems about the order of execution those that `Executable` allows (section 5).
- The model goes on with bubbles when the core is halted, where the loop of
  `simulate_cores` ends; `HaltedIsOver` is about that moment. `max_cycles` is left out.

*Refinement.* `PipelineSequential` maps the pipeline to `SequentialCore`. The slots
whose instruction has not taken effect yet are `Pending`; `Oldest(n)` is the one
furthest ahead among those before slot n. The abstract `pc` is the place of the oldest
of all, or `pc` if none is pending (`NextPc`), the abstract `npc` what comes next to it in the
same way (`NextNpc`). An instruction takes effect at write-back, a store in MEM or at the
end of its miss.

*Regular programs*, those of the run (`Regular`). A jump is followed by an instruction that is not a jump: the
delay slot of a jump that is itself a jump makes a third order of instructions that
nothing describes, and a jump at the end of the program loses its own entry. None
writes `$zero`, which the hazard detection leaves out although `writeback_state`
writes it. No JAL jumps to `$ra`, because
`detect_raw_hazard` does not look at what a JAL is about to write there. Calls are not mixed with
loads and stores, because of `pipeline_link`.
HALT is an instruction without effect ("halt doesn't stop code", `Need_to_fix`):
what drains the pipeline is the end of the program.

### 2.5 Encoding and Assembler

*State.* `PC`, `labels`, `jumplabels`, `imem`, `dmem`, `imm` are those of `asm.c`;
`file` is the text and `at` the number of lines read; `status` tells the loop over
the lines, the one over the jumps, the end and `exit`. `instruction_array` is what
the core gets.

*Actions.* One per outcome of a line (`Pass`, `Unsupported`, `Data`, `Code`; each
enters the line's label first), `EndOfFile`, one turn of the loop over the jumps
(`FixLabel`), and `Load`: the words but for the zeros at the end are printed and
`initialize_instruction_array` reads them back into an array with an entry for each
line.

*Abstractions.*
- A line is taken as split into tokens; what is left of it is a label or none and what
  follows: nothing, a word that is no opcode, an opcode without its operands, data or an
  instruction. A line that is empty but for its end is a word that is no opcode: `strtok`
  does not take the newline for a separator.
- A label is a value. A jump's label is cut at its first character n (`asm.c:190`);
  `Cut` is the constant function that says what is left.
- An operand that `sscanf` cannot read leaves `imm` as it was ("neither"), at first
  uninitialised (`Garbage`). The numbers of `.word` are taken as readable.
- `PC` is not compared with IMEM_SIZE (`asm.c:75`, `186`, `204`). A text may have any number of
  lines; the first line that would store behind `labels`, `jumplabels` or `imem` takes the
  model to the status "overrun" (`Overrun`), where it stops: what such a store overwrites is
  the compiler's choice.
- What the code does not refuse: an instruction that lacks an operand or names an unknown
  register is skipped without a word (`asm.c:135`, `144`, `159`, `174`; kind "short", `Pass`);
  a last operand that is neither a number nor a name is taken for what `imm` was. A jump to a
  name with an n may be refused although the label is there, or get the place of another one.
  `OutcomeFitsText` is stated with these in mind.
- Or-ing disjoint fields together is addition; `IInv` says why they are disjoint.
- Registers are strings of eight digits in `Encoding` (`Strings`, `Int_2_Hex`,
  `Hex_2_Int_2s_Comp`). `HexCharToInt` looks A to F up; for 0 to 9 it calls `atoi(&h)` on one
  char that nothing terminates (`utils.c:36`), so that the digits that follow in memory are read
  as well. What follows is the parameter `f` of `HexCharToInt`, for each of the eight calls
  another one (`after`); of more than eight digits `atoi` could not make an `int`.
- `InstructionSet` has numbers modulo a constant for registers, with `Int_2_Hex` and
  `Hex_2_Int_2s_Comp` for the change of sign. `Pipeline` therefore **assumes that every digit is read
  right**, that is, that no digit lies behind the copies of the characters 0 to 9 (`NoDigitFollows`
  in `Encoding`); nothing in the code guarantees it. `decode` itself takes commands apart
  with `strtol` on terminated strings and does not depend on this.

## 3. The runs

All bounds are constants of the configurations. Two words per block are enough to
have a first and a last word (the transfer code treats only these apart from each
other); three stall cycles are the least that exceed the block, as
`BlockAssumption` asks, and give a first, a middle and a last stall cycle; two
tags on one line give hits, misses, conflicts and victims.

| run | instance | what it shows |
|---|---|---|
| `bus_two` | 2 of 3 cores run, 1 line, 2 blocks | `IdleClean`, `SingleWriter`, `TransactionAdvances`, `BusFreed` and the invariant `IInv`, which contains `TypeOK` |
| `bus_single` | 1 of 2 cores runs, 2 blocks, values 0 and 1 | `ImplementsFlatMemory`, `LoadServed`, `CleanMatchesMemory`, `VictimSaved`, `AccessesComplete` and the invariant `SoloInv` |
| `bus_unseen` | cores 0 and 2 of 3 | violation of `SingleWriterAll` |
| `bus_supply`, `bus_victim`, `bus_dropped` | 2 cores | violations, section 4 |
| `ring` | 4 slots (the real number), 2 commands | `RingAgrees`, `ImplementsFifo` |
| `round_robin` | 4 cores | violation of `NextInTurn` |
| `example` | 2 cores, 2 blocks for one line, high addresses | `NoLostWakeup`, `ExclusiveAlone`, `WaitsAreBounded`, `RequestGranted`, `StallEnds` |
| `pipeline` | all programs of up to 3 lines over two lists of instructions, of 4 over a third one; 5 registers of 4 values, 2 words, misses of 2 or 3 cycles | `ImplementsSequential`, `ExecutionAdvances`, `KeepsExecuting`, `OperandsCurrent`, `HaltedIsOver`, `OverIsHalted` and the invariants `IInv`, which contains `TypeOK`, and `SequentialInv` |
| `pipeline_link` | programs of 4 lines with calls behind loads | violation of `LinkIsNext` |
| `assembler` | 3 words of `imem`, 2 of data, 4 labels; all texts of up to 3 lines of 17 kinds, and of 4 lines of 8 kinds, which may be too many | `CoreGetsProgram`, `OutcomeFitsText`, `Terminates` and the invariants `IInv`, `ProgramInv` |

`bus_two` has a single value: no property of it depends on data, which lets both
cores and both blocks in. Data are what `bus_single` and `bus_supply` are about. `VictimSaved`
is run with one core, because two cores with two values have more states than a run can
visit; with two cores, two values and at most four accesses TLC has found no violation of it
and of `HistoryInv`, and has found one at once when the stores of `StoresAtOnce` are not left
out. The theorem covers any number of cores. Two
cores are all that `check_shared_bus` looks into; the theorems cover three and four.
`example` has two blocks for one line so that a core can ask again as soon as it has
been served: with a search that starts at the core granted last the other one would
starve; `WaitsAreBounded` has been checked with three cores too. Its blocks have one value, so that
of `ExclusiveAlone` the run shows that the copy is the only one; that it equals main
memory has been checked with two values apart from the liveness properties (2.3 million
states), and is part of the theorem. Three instructions are all that `detect_raw_hazard` relates to each other
(DECODE with EXEC and MEM); the lists have each kind of instruction as reader and as
writer of the same registers, and jumps whose targets are computed. A fourth one
gives a hazard, a miss and a branch in one program. Numbers of the texts are at the
borders of an immediate (2047, 2048, -1, 4096). Texts of
four lines have up to four instructions, or a label behind three, for three words of
`imem`. No run uses symmetry: the loop runs the cores in the order of their numbers.

*Fairness.* `FairSpec` adds weak fairness of `Next` and nothing else: one thread
runs the loop, and some step is always possible. That a certain core or case
gets its turn follows from `turn`, not from an assumption. The abstract
specifications have their fairness apart from `Spec`, as `Fairness`: an access completes, an
instruction takes effect. That the concrete systems provide it is `AccessesComplete` and
`KeepsExecuting`; `ImplementsFlatMemory` and `ImplementsSequential` are about the steps and are
proved as well. Deadlock is checked in every run but `assembler`: interpret_file ends.

## 4. Where the code departs from what it says

Each has a run whose property states the comment and which TLC violates.

- `bus_dropped`: a request that meets a busy bus is dropped (`cache.c:203`, the
  comment: "enqueue command until the bus is free"). If the bus gets free before the core
  looks again, the core goes on and its LW takes a word of another block.
- `bus_unseen`: `check_shared_bus` looks into two of four caches; cores 0 and 2 can
  both hold a block EXCLUSIVE.
- `bus_supply`: after its first word, a transfer from cache to cache copies the
  requester's own line, so that two SHARED copies differ.
- `bus_victim`: whether the victim is dirty is looked at again in the second stall
  cycle, when the line is already MODIFIED for the new owner; the words of a
  clean victim are then written to the address of the block being fetched.
- `round_robin`: the search starts with the core granted last.
- `pipeline_link`: `decode` of a JAL takes the return address from `pc` in every
  cycle of a stall, also when the jump has been made: with a load that misses two
  instructions ahead, `$ra` gets the place before the target.

These are modelled and have no run of their own:

- the second store of `flush_from_cache` outside the line (`overrun`);
- a BUS_RDX that finds a SHARED copy puts its word into the requester's line in the first
  cycle of the stall (`cache.c:470`, `SnoopRdxShared`), while a dirty victim in that line has
  at most its first word in main memory; the next cycles copy the line, and with it the
  new word, into the victim's block. Both cores read A, core 1 stores to B in the same line,
  then core 1 stores to A at a word other than the first: B in main memory has that word
  now. `VictimSaved` leaves these transactions out (`StoresAtOnce`);
- a block that another cache has MODIFIED comes from that cache, and `flush_from_cache` saves
  no victim: a dirty one is lost;
- a store that overwrites the bus write buffer of the store under way, or is dropped, when
  the bus is taken (`WriteHitShared`, `WriteMiss` set `wbuf` before `SendOp` decides);
- a block another cache holds clean comes from main memory with `bus_shared` = 0
  (`SnoopReadClean`), where `bus_structs.h:51` says "if any of the cores has the
  data in the cache";
- in `test.c` a store to a SHARED line makes it MODIFIED before the RDX is granted
  (`WriteHit`), where `test.c:940` says "If it was shared, we must get RDX first";
- a jump to a label with an n finds no label, or another one: `CoreGetsProgram` speaks of
  labels that the cut leaves alone, `OutcomeFitsText` lets the others be refused;
- a JAL through `$ra` does not wait for a JAL just before it (`Protected` leaves it out).

With all of these in place the models still keep the passing properties: that is
what is interesting about `SingleWriter` in `bus_two`, which holds although
requests are dropped, because a dropped request changes no line.

## 5. The theorems

They are proved from the named assumptions on the constants; two sets of theorems have a
further hypothesis, which is stated in each of them: `OneRuns` and `Executable`, below.

*SnoopBus* (`SnoopBusProofs`), for 2 to 4 cores, any set of running cores, any number
of lines, blocks and words and any stall longer than a block: `Inductive`
(`Spec => []IInv`), and from it `TypeCorrect`, `CleanBus` and `Coherence`.
None of these properties is inductive. `IInv` adds what the code keeps
without saying it anywhere:
- `Phases`: command, `stall` and the four counters together tell what a
  transaction has done; e.g. the counters are 0 whenever the bus does not
  stall and memory is not sending;
- `TagGiven`: while memory stalls the line already has the new tag, so snoops see it;
- `AloneToWrite`: once a BUS_RDX waits for memory nobody else owns the block. Without
  it the fill could find an owner in mid-transfer;
- `RequesterWaits`: the requester of a BUS_RD, or of a BUS_RDX on an EXCLUSIVE line, is
  stalled and cannot dirty the line behind the transaction;
- `WriteBackPace`: the write-back starts in the first or second stall cycle and goes
  on by one word a cycle. With Stalls > BlockSize its counter has passed all words when main
  memory answers (`WriteBackOver`).

The proof has a lemma per kind of step (`CoreKeepsIInv`, `StallKeepsIInv`,
`WordKeepsIInv`, `CacheKeepsIInv`) and applies them in one lemma per case of
`snoop_bus`.

*Dirty victims* (`VictimIsSaved` in `SnoopBusProofs`, `HistorySpec => []VictimSaved`), for the same
cores and sizes: when main memory sends its first word into a line, every word that the line held when
its core asked is in main memory, at the address of the old block. The counter alone
does not say so; it must be the words of the old line that are counted. `HistoryInv` says why they are:
the victim's core waits and does not touch the line (`VictimWaits`), no other core and no
snoop does so before the first stall cycle (`VictimWhole`, `VictimOwned`), then the statics of
`write_to_main_memory` name the victim, and the words below its counter are saved (`VictimUnderWay`).
That no other core's store goes into main memory under this address rests on `IInv`. The theorem is about
transactions that main memory serves, except those of `StoresAtOnce`, for which it would be false.

*One running core* (`SnoopBusSingleProofs`), for any number of cores of which one has a program
(`OneRuns`), and the sizes above: `SingleIsFlat` says that every step of the caches, the bus
and main memory is a step of `FlatMemory` or invisible, `CleanIsCopy` and `LoadsServed`
that `CleanMatchesMemory` and `LoadServed` hold. The invariant is `IInv` with `SoloInv`, which
adds the data:
- `OwnTransaction`: a transaction is that of the instruction in MEM, and the core waits for it.
  So `LoadServed` holds (`Served`), and a store's word is still that in the bus write buffer;
- `WritingBack`: the words of the dirty victim that have been written are in main memory,
  under the tag that `requesting_address` keeps, because the line has the new tag already.
  The others are in the line, where the mapping (`Word`) finds them;
- `Fetched`: the words that have come are copies of main memory but for the one that is
  stored, which the line has in every cycle of the fetch;
- `CleanLines` for all lines but the one that is being filled (`Filling`).

An access takes effect when it hits or in the cycle in which the bus is freed; every other
cycle leaves `Word` as it is at all addresses. The code relies on one core here: with
two, a load may find another block in the line (`bus_dropped`).

*BusArbitratorQueue*: `RingCorrect`, `RingTypes`, and `RingImplementsFifo`: under
the mapping of the ring to the sequence of its live slots every call is a step of
`BoundedFifo`, for every number of slots.

*ExampleBus*: the conjunction of `TypeOK`, `NoLostWakeup` and `ExclusiveAlone` is
inductive, for any number of cores; `TypeCorrect`, `NoWakeupLost` and `ExclusiveIsAlone` follow.
`NoLostWakeup` holds because a request is replaced only by another one of the same
core and a stalled core makes none.

*Pipeline* (`PipelineProofs`), for every set of programs, also those that the runs
leave out, every ALU, latency and content of the uninitialised fields: `Inductive`,
and from it `TypeInvariant` and `OperandsSafe`. `OperandsCurrent` speaks of one
moment, before EXEC is run; for it to hold then, `IInv` has to say what holds
between the stages:
- `Decoded`: at the end of a cycle `decode_buf` has the values of the command in the
  DECODE slot, unless it has to wait. This is what the second call of `decode` is
  for: without it (`MutDecodeAgain`) a command that has waited would leave DECODE
  without having read its registers;
- `Undisturbed`: on its way from DECODE to EXEC nothing changes what the command has
  read, because those that could are the ones that `RawHazard` has waited for;
- `Buffers`: each buffer belongs to the command in front of or behind it, according
  to whether the stage has been run in this cycle (`Ran`);
- `Reached`: the loop gets to every slot with a command in it, although
  `last_command` grows by one a cycle; `Stalled`: while DECODE waits, EXEC is idle;
  `Fetchable`: no entry behind the program is fetched.

The proof has a lemma per part of `IInv`, and in each of them a step per action.

*Order of execution* (`PipelineSequentialProofs`), for every set of regular programs,
every ALU, content of memory and latency: `PipelineIsSequential` says that each step of a stage is a
step of `SequentialCore` or invisible, `HaltedAtTheEnd` that a core is found halted only when its
program has taken effect as a whole. `Executable` states the hypotheses:
- all programs are `Regular` (section 2.4). Each condition stands for something the code
  does not do; `pipeline_link` is the run that shows it for calls behind loads;
- no uninitialised `btaken` is found to be set: it would be a jump out of nowhere. A slot that has
  been decoded has one that `decode` has set;
- a blank line, which `decode` takes for an ADD with what it finds behind "NOP", adds to
  `$zero`, and the sum of zeros is zero.

`SequentialInv` is inductive together with `IInv`. Its parts say
- `HoldLines`: which line of the program each slot holds; `Filled`: the slots that are
  decoded have been filled; `Fetching`: when the FETCH slot is idle, pc has left the
  program and no jump is left, so that the entry `nullify_command` overwrites is not read again;
- `Branching`: `btaken` is what the registers say at the end of the cycle in which the jump
  leaves DECODE, and is not taken for a later instruction's;
- `Order`: what comes after each pending instruction is the next line, or the target if the
  one before it is a jump that is taken. This is the part that needs delay slots;
- `Clear`: no instruction between EXEC and WB is going to write what a younger one has read;
- `Contents`, `Linked`: the buffers hold what an instruction computes from the registers
  as they will be when it takes effect, and the link the line after the call;
- `Waiting`: the bus serves the instruction in MEM, and slots up to it do not move.

From `Order` and `Contents` the step that takes effect is found to be that of the oldest
pending instruction with the values of the abstract registers: the write-back, the hit of a
store in MEM, or the last cycle of a store's miss. All other steps leave pc, npc, the registers
and the memory of the mapping unchanged, `Shift` because it moves pending slots in their order.

*Encoding* (`EncodingProofs`): `FieldsRoundTrip` and `ImmediateIsWrapped` say that
`BuildCommand` is the inverse of `Inst` and what becomes of any integer that is written as
an immediate. `HexRoundTrip` and `StringsRoundTrip` say that `Int_2_Hex` and
`Hex_2_Int_2s_Comp` are each other's inverses, for every `int` and every string of eight digits,
and that no sum in between leaves the range of an `int`, under the hypothesis `NoDigitFollows`: behind
the copies of its digits 0 to 9 no digit lies in memory. For the letters nothing need be assumed.
`DigitMisread` says that the hypothesis is needed: with one to three digits behind it, a digit is read
as another number, unless all of them are zeros. The powers of sixteen are a table
(`Shifted`): the number is taken apart by one digit after the other (`Low`), each time with
the remainder of the digit before.

*Assembler* (`AssemblerProofs`), for all texts, names, and sizes up to those of the
code.
`Inductive` (`Spec => []IInv`): all words are those of instructions, because a jump
that has not been fixed has an immediate of 0, which its own or-ing with an index
then leaves clear of the registers; that in turn needs `jumplabels` to be empty from
`PC` on. It does not say that reading stays within `imem`, which it does not: texts of any length are
among `Files`, and the model stops at the first store behind the arrays.
`ProgramArrives` and `OutcomeSafe` state `CoreGetsProgram` and `OutcomeFitsText`. Their
invariant, `ProgramInv`, says where the lines read so far are found:
- `Places`: `PC` counts the instructions read; lemmas about `Position` give each of them a place
  of its own;
- `LabelsEntered`: a place has the last label that was entered there, so that a label
  survives only if no line before the next instruction has another one;
- `JumpsNoted`, `Assembled`: the jumps, and the words of the instructions with their number, with
  nothing yet or, where the loop over the jumps has passed, with the place of the label;
- `Accepted`, `Loaded`: no line so far is one to give up on, and each instruction and label has
  had its entry; the core has the words but for zeros.

*How long it takes.* Liveness is not within the prover's reach, but what it rests on here is: a
number that every step makes smaller, proved for all sizes. With fairness of `Next`, which
is all that `FairSpec` adds, such a number is the reason why each of these ends.
- `TransactionsEnd` (of `BusFreed`): `CyclesLeft`, what a transaction has left of stall
  cycles and words, is in 1 .. Stalls + BlockSize while the bus is busy, and each call of `snoop_bus`
  makes it smaller, in all cases of the snooping; the cores do not change it. It needs `Phases`: were
  a counter left over from the transaction before, the number would be wrong at the start, and were it
  reset in the middle, it would grow. For the simulator the bound is 19 calls.
- `WaitsBounded` (of `RequestGranted` and `StallEnds`): `CyclesToGrant` counts the cores that
  the search asks before c, each with a transaction of Latency cycles, and what is left of the
  present one. A grant passes c by only for a core in front of it in that order, and then
  `lastGrantedCore` moves by at least as many places. The bound is NumCores * Latency for the grant and one
  Latency more for the end of the stall.
- `ExecutionEnds` (of `KeepsExecuting` and `OverIsHalted`): as long as the program is not over,
  `CyclesToEffect` is the distance of the oldest pending instruction from the stage in which it takes
  effect, and Latency more unless its miss is behind it; afterwards `CyclesToDrain` is the distance of the last
  slot in use from WB. At the end of each cycle the slots have moved on, an empty one or one held by
  a hazard has let those in front of it go, or the miss has one cycle less to wait (`Waiting`):
  a hazard stalls DECODE only, and what it waits for is in front of it. StepsLeft counts the stages
  of a cycle too. The next instruction takes effect within Latency + 5 cycles, and a core whose
  program is over is found halted within five, so that the loop in `simulate_cores` does not
  depend on `max_cycles` for a core alone.
- `EveryStepAdvances` (of `Terminates`): each step of `interpret_file` leaves fewer lines
  or jumps to look at, or ends it with a refusal or an overrun.

*Only model-checked*: liveness itself (`BusFreed`, `AccessesComplete`, `RequestGranted`,
`StallEnds`, `KeepsExecuting`, `OverIsHalted`, `Terminates`), which the prover does not do.

## 6. Not modelled

- The pipeline of `test.c`, apart from its memory stage: a copy of that of `sim` in most of
  what it does (section 7).
- Several pipelines over one bus at once: `SnoopBus` has several cores with
  arbitrary instructions in MEM, `Pipeline` one core with all its stages.
- The end of the simulation with several cores (`max_cycles`, `finished` in
  `simulate_cores`): with a BUS_RDX of a store to a shared line still under way the
  loop can end before the store reaches the line.
- The text level of `asm.c` (comments, separators, names of registers),
  `modify_file_line` and `count_lines` of `utils.c`: text and files, without state
  of the machine.
- `tester.c`, `simulation/*.c`: a driver with fixed calls, an earlier sketch and
  empty files.
- Scripts, logs, traces, object files: no program logic.

## 7. Plan

Done: SnoopBus with its invariant and theorems, the flat-memory refinement, the
arbiter, ExampleBus, Pipeline with its refinement, the assembler and the conversions; the
theorems of section 5, both refinements of `sim` and the bounds on what each wait takes among them. What could follow:

1. `ExamplePipeline`: fetch, decode and write-back of `test.c`, composed
   with `ExampleBus` through `mem_stall`, against `SequentialCore`.
2. A ghost for the last value stored in SnoopBus, to state what happens to stores on a busy bus.
3. The end of the loop of `simulate_cores`, composed with SnoopBus.
