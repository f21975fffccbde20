# A TLA+ model of rust-brotli-decompressor

The repository is a Brotli decoder (RFC 7932) written in Rust without
dependencies on the operating system. Its heart, `src/src/decode.rs`, is one
large resumable state machine: a caller hands it input and room for output in
pieces of any size, and the machine stops and resumes wherever a piece ends,
even in the middle of a field of a header or of a copy. There are no threads.
What makes the code hard is the number of places where it can stop, the state
each stop leaves behind, and the arithmetic on a buffer that is the LZ77
window, the output queue and a scratch area at once.

## 1. Inventory

| Component | Source (under `src/src/`) | State it keeps | Operations |
|---|---|---|---|
| Output ring buffer | `decode.rs` 1679-1875, 2255-2320, parts of 2330-2744 and 2829-3400 | `ringbuffer`, `ringbuffer_size`, `pos`, `rb_roundtrips`, `partial_pos_out`, `should_wrap_ringbuffer`, `max_distance`, `meta_block_remaining_len` | WriteRingBuffer, WrapRingBuffer, AllocateRingBuffer, the steps that store bytes, TakeOutput, HasMoreOutput, IsFinished |
| Bit reader | `bit_reader/mod.rs` | `val_`, `bit_pos_`, `next_in`, `avail_in` | warm-up, fill, pull a byte, safe and fast reads, save and restore, unload, byte boundary, raw copy, peek |
| Input side of the stream call | `decode.rs` 2779-2916 | `buffer`, `buffer_length`, the in/out arguments `available_in`, `input_offset` | start of a call, restart with a byte more, switch to the caller's input, return |
| Window and meta-block headers | `decode.rs` 152-372, 1221-1252, 1991-2015, 2921-3172 | `window_bits`, `substate_metablock_header`, `size_nibbles`, `loop_counter`, `substate_decode_uint8`, `num_block_types`, `context_modes` | DecodeWindowBits, DecodeMetaBlockLength, DecodeVarLenUint8, ReadContextModes, lg_window_size |
| Prefix codes | `huffman/mod.rs`, `decode.rs` 402-1020, 1130-1215 | tables, `substate_huffman`, `symbol`, `repeat`, `space` | reading simple and complex codes, building tables, reading symbols |
| Context maps | `decode.rs` 1096-1468, 1525-1574, 1991-2015, `context.rs` | `context_map`, `dist_context_map`, `mtf`, run-length state | DecodeContextMap, InverseMoveToFrontTransform, DetectTrivialLiteralBlockTypes |
| Block switches | `decode.rs` 1020-1080, 1469-1677 | `block_length`, `block_type_rb`, `substate_read_block_length` | DecodeBlockTypeAndLength, the three block switches |
| Commands | `decode.rs` 2051-2190, 2330-2765 | `state`, `loop_counter`, `copy_length`, `distance_code`, `distance_context` | ReadCommand, ReadDistance, literals, copies, dictionary words; a fast and a safe variant |
| Distance cache | `decode.rs` 2017-2049, 2560-2645 | `dist_rb`, `dist_rb_idx` | TakeDistanceFromRingBuffer, update and roll-back |
| Dictionary and transforms | `dictionary/mod.rs`, `transform.rs` | none (tables) | TransformDictionaryWord |
| Prefix tables | `prefix.rs` | none (tables) | `kCmdLut`, `kBlockLengthPrefixCode` |
| Decoder state | `state.rs`, `memory.rs`, `brotli_alloc.rs` | everything above | new, MetablockBegin, CleanupAfterMetablock, Cleanup |
| Reader adapter | `reader.rs` | `input_buffer`, `input_offset`, `input_len`, `done`, `error_if_invalid_data` | read, copy_to_front |
| Writer adapter | `writer.rs` | `output_buffer`, `output`, `error_if_invalid_data` | write, close, into_inner, drop |
| Copy loop, one-shot calls | `lib.rs`, `io_wrappers.rs` | local buffers | BrotliDecompressCustomIoCustomDict, brotli_decode |
| C interface | `ffi/` | the boxed decoder and its allocators | create, set parameter, stream, take output, destroy, queries |
| Tools and tests | `bin/`, `test.rs`, `fuzz/`, `examples/` | - | - |

How they interact: one call of `BrotliDecompressStream` runs an outer loop that
treats the outcome of the inner state machine. "Needs more input" first writes
what is decoded to the caller, then either feeds one more byte of the caller's
input through the internal buffer and tries again, or returns. "Needs more
output" and every error return at once. The inner machine reads through the bit
reader (borrowing the caller's input or the internal buffer) and stores into
the ring. A caller receives bytes either in the slice it passes or through
`TakeOutput`; both go through `WriteRingBuffer` and share its cursors. The
adapters and the C interface are callers of the stream call.

Behaviours that are hard, and what would make each component correct:

* **Ring buffer.** Stops in the middle of a literal run, a copy or a dictionary
  word; a word may run into the slack behind the ring and is moved to the front
  after the write; partial writes; the forced write on missing input; the
  16-byte over-copy; the halved ("canny") ring, which must never wrap; a command
  that overshoots its block. Correct when the caller gets exactly the decoded
  bytes in order, an accepted distance always reaches the byte it names, no
  position leaves its range, nothing of an overshooting command gets out, and
  decoder and caller never wait for each other.
* **Bit reader and stream input.** A read that fails half-way is rolled back and
  repeated in a later call from another buffer. Correct when every bit is
  consumed once and in order however the stream is cut, the 8-byte buffer never
  overflows, a call never asks for input it does not need, and what a call says
  it took is what it took.
* **Headers, prefix codes, context maps.** Resumable readers with substates.
  Correct when cutting the input anywhere gives the result of reading it at once.
* **Block switches and commands.** Two-part reads with a roll-back, a fast path
  that checks for 28 bytes once. Correct when both variants read the same and
  the fast one never reads past its input.
* **Distance cache.** The index moves before it is known where the distance
  leads. Correct when the cache always holds the last four back-references.
* **Dictionary words.** Cut and upper-cased in the ring itself. Correct when no
  word is empty for nothing and nothing is written outside the slack.
* **Memory.** Blocks move out of the state while a function works on them, which
  may return anywhere. Correct when every block has one owner, is held only while
  it is needed, and goes back once.
* **Adapters.** Partial reads and writes, errors, end of input. Correct when no
  byte is lost or written twice and the end is not confused with an error.

The full list of hazards, each at its line, is in `PROJECT.json`.

## 2. Plan

In order of importance.

1. `RingBuffer` with the abstract `OutputStream`, and `RingBuffer_proofs`.
2. `BitReader` and `StreamInput`, with the abstract `InputStream`.
3. `Commands`: the order of reads in a meta-block, block counters, types and
   switches with their roll-back, and the distance cache against the abstract
   `DistanceHistory`; `Commands_proofs` with the refinement.
4. `ReaderAdapter`, `WriterAdapter`, `CopyLoop` over `DecoderCalls`, the abstract
   stream call of 1 and 2, with failing and short I/O.
5. `StreamHeader`: the resumable readers of the window, the meta-block header,
   the numbers of block types and the context modes against the meaning of their
   fields, and `lg_window_size` against `DecodeWindowBits`.
6. `HuffmanTables`, `PrefixCode`, `MetablockTables`: building the tables of prefix
   codes, the resumable reader of a code, and on it context maps and groups of codes.
7. `PrefixTables`, `DictionaryWord`, `CommandBudget`: the fast path and the words of
   the dictionary in the sizes of the code.
8. `DecoderMemory`: who owns what is allocated, through the four ways of making a
   decoder, the C interface among them.

All are written and checked, and 1 to 5 and 8 are proved about. What could follow: the
budget of `CommandBudget` as a theorem. It has finitely many states in the sizes of the
code, so that TLC settles it already.

## 3. Modules

### OutputStream, RingBuffer

`OutputStream` is the promise: a queue of decoded bytes of which a prefix was
delivered; a call ends in success, in need of input with everything delivered or
no room left, in need of output with no room left, or in failure.

`RingBuffer` is the code. A byte is represented by its number in the decoded
stream (dictionary bytes are -1, -2, ...), so that "the right byte" is a
statement about numbers; a ring cell holds a number, or `NoByte` when nothing was
stored in it. What a compressed stream says - lengths, distances, where input is
missing, where a rule is broken - is chosen freely. The variables have the names of the
fields of `BrotliState`; `mlen` is `meta_block_remaining_len`, `i` is
`loop_counter`; `decoded`, `declared` and `delivered` are history variables.

| Action | Code |
|---|---|
| `StreamCall`, `StreamCallAfterError` | entry of `BrotliDecompressStream` |
| `TakeOutput` | `BrotliDecoderTakeOutput` |
| `ReadMetablockHeader` | METABLOCK_BEGIN to the first command or raw byte, with `BrotliAllocateRingBuffer` |
| `ReadCommand`, `DecodeLiteral`, `CopyFromWindow`, `CopyDictionaryWord`, `WrapCopyByte`, `WrapCopyDone` | the states of `ProcessCommandsInternal`; the loops take one step per byte |
| `WriteAndWrap` | INNER_WRITE, POST_WRITE_1, POST_WRITE_2 |
| `CopyUncompressedBytes`, `WriteUncompressed` | `CopyUncompressedBlockToOutput` |
| `RunOutOfInput`, `FlushForInput` | missing input, and the outer loop's reaction |
| `FinishMetablock`, `FinishStream`, `FormatError` | METABLOCK_DONE with the errors of length and padding, DONE, any other error |

`ReadMetablockHeader` stands for the header, prefix codes and context maps: the
ring does not change between them. Metadata blocks never touch the ring and are
left out. `RunOutOfInput` may happen in every reading state, so a command that is
interrupted and repeated is covered: nothing it read has changed the state.

### BitReader, InputStream, StreamInput

`InputStream` is the promise of the input side: the decoder consumes a prefix of
what the caller offered, takes all of it when it asks for more, and what a call
reports as taken is gone for good.

`BitReader` has the operations on a reader record `[val, next_in, avail_in]`,
where `val` is the sequence of bits held in the accumulator (the shift and mask
arithmetic is abstracted) and a bit is its number in the stream. `StreamInput` is the
outer loop of `BrotliDecompressStream` around it: `StreamCall` copies ahead into
the internal buffer, `SafeReads` runs a transaction of reads and rolls back at the
first that fails, `FastReads` is a part of the fast path behind its check,
`StartCopy` and `CopyRaw` are the raw bytes of an uncompressed block with the
peek behind them, `SwitchToInput`, `AddByte`, `ReturnWithTail` and `SaveTail` are the
branches of the recovery from missing input, `FinishLastMetablock`,
`ReturnSuccess` and `Stop` the ways out. The sequence of transactions a stream
demands is chosen by the environment from a constant set.

The one case where the code reports missing input although input is there - a
block switch in a category with a single block type, after 1 << 24 symbols - is
outside this module (hazard at `decode.rs:2368`). A transaction is one to three reads, of which
each peeks at up to 4 bytes and takes some of what it saw, of no more bits together than the
accumulator holds (`StreamInputConstants`): no resumable element of the code reads more.

### StreamHeader

What `Commands` and `RingBuffer` take as given is read here: the window size, the
header of a meta-block with the length of its data or metadata, the numbers of
block types, the parameters of distances and the context modes. One action reads
one field, of whatever value, and has the name of what it reads (`ReadIsLast`,
`ReadNibble`, `ReadCountWidth`, ...). In front of every field the input may end
(`MissField`): the call returns and the local counter `i` of the loops over
nibbles, bytes and context modes is lost, so that `Resume` has only
`loop_counter`, the substates and what the fields before have stored.
`DecodeVarLenUint8` keeps the width of its last field in the result itself. The
history variable `read` has the fields of the part that is read; `HeaderSays` is
their meaning, written from the format and not from the loop, and `FieldsAsSaid` the
comparison. `offset`, the position in a byte, decides whether there is padding at all.

`DecodeBody` and `ReadBlockCodes` stand for what lies between the headers; they
may end at any of the bits of `Offsets`. `LgWindowSize` is the peek of `brotli_decode`
at the first two bytes; `WindowAsPeeked` compares it, for all 2^14 values of the
bits that matter, with what the decoder makes of the same bits.

### HuffmanTables, PrefixCode, MetablockTables

`HuffmanTables` has the pure part of prefix codes: `CodeLengthsTable`,
`HuffmanTable` and the simple tables (`huffman/mod.rs`), built entry by entry as the code
builds them, from the chains of symbols by length; the lookups `DecodeSymbol`,
`ReadPreloadedSymbol` and `SafeDecodeSymbol`; and as reference `CanonicalCode`, the code the
lengths stand for. Sizes are constants: a code has up to 5 bits here and not 15, the root
table 3 and not 8, so that second-level tables of 4 entries occur.

`PrefixCode` is `ReadHuffmanCode`: one action per field, an action for an input that
ends in front of it (`Miss...`), one for a call that comes back. `saved` holds the fields of
the state, `local` the copies a loop works on; the fast loop over code lengths works on
copies, the safe one on the state, and `Leave` says which copies come back. The
chains of symbols by length (`symbols_lists`, `next_symbol`) are those of the code,
negative heads included.

`MetablockTables` adds the callers: `DecodeContextMap` for literals and distances, in the
same `context_map_table`, with run lengths, `0xFFFF` as the code not yet read (`NoCode`) and the
inverse transform, whose list is reset as far as it was moved; `HuffmanTreeGroupDecode` with
trees one behind the other; `DetectTrivialLiteralBlockTypes`. The fields are the
stream's choice; `said`, `said_codes` and `said_map` remember them, and the operators that begin
with `Meant` and the `meant_` variables are what they say.

The number of codes of a map is one field here, `DecodeVarLenUint8` being an action of
`StreamHeader`; refused allocations are left to `DecoderMemory`.

### PrefixTables, DictionaryWord, CommandBudget

These have the sizes of the code. `PrefixTables` states the 704 rows of `kCmdLut` and
the block lengths as formulas of the format (they agree with `prefix.rs` row by row).
`DictionaryWord` says which word and transform a distance names and which bytes its
transform writes: of a byte the model knows only how far it says its character reaches,
since that is what the upper-casing steps by.

`CommandBudget` is the fast path of `ProcessCommands`. The bit reader is `bit_pos_` and two
counters: the bytes taken since the last check, and how far the loads reached, which
look at 4 or 8 bytes whatever they take. Code lengths, block switches, distances
and words are chosen freely; `ReadCommand`, `BlockSwitch`, `ReadLiteral`, ... are the reads
in the order of the code, with the fill in front of each. The safe path asks for every
byte and is not repeated here: `OUT` is the time in it, after which the reader and the
command may be anywhere. `trivial`, which literal loop runs, is chosen again by each
literal block. `distances` are the parameters of an alphabet, with
`BrotliMaxDistanceSymbol` for a large window. Over-approximations, which can
only add behaviours: any parameters with any window; a word after any copy; the bits of a
distance from any alphabet. A copy longer than `LongCopy` is as long as it, no
property tells them apart.

### DecoderMemory

A block is a pair of the slot it was asked for and a member of `Copies`, which tells it from others
asked for the same purpose; `heap` is what the allocator has given out, `slot` what each field of
the state holds, `taken` what a function has moved into its locals. Four interfaces make a decoder and differ in how an allocation may fail: the
C interface with functions of the caller (`"c"`), without (`"std"`, which cannot fail),
the Rust one over an allocator that answers with an empty block (`"rust"`), and the
one-shot call on scratch memory (`"prealloc"`, where a refusal is a panic). What the stream
says is chosen freely: every arm of the state machine may miss input, find an
error, or go on. A null from the caller's function stops the process where it is (`inst = "stopped"`):
no function that was under way takes another step.

| Action | Code |
|---|---|
| `Construct`, `BrotliDecoderCreateInstance`, `BrotliDecoderDestroyInstance` | `BrotliState::new...`, `make_brotli_state!`, `ffi/mod.rs` |
| `BrotliDecoderSetParameter`, `BrotliDecoderMalloc`, `BrotliDecoderFree`, `InvalidArguments` | `ffi/mod.rs` |
| `BrotliDecompressStream`, `Uninited`, `Initialize`, `PlainArm` | entry, start and the arms that move no memory |
| `BrotliStateMetablockBegin`, `MetablockHeader`, `MetablockDone` | the life of a meta-block, with `BrotliAllocateRingBuffer` and `BrotliStateCleanupAfterMetablock` |
| `CountBlockTypes`, `ReadBlockTrees`, `FirstBlockLength`, `AllocateContextModes`, `InitGroups` | HUFFMAN_CODE_0 to TREE_GROUP |
| `EnterFunction`, `BeginContextMap`, `TakeMapTable`, `ReadMapTable`, `DecodeContextMap`, `HuffmanTreeGroupDecode`, `ProcessCommands` | the functions that move blocks out, and each of their exits |

Index checks are those of the safe build. A free function without an alloc function is
excluded by `decode.h:177` ("MUST be both zero or both non-zero").

### DistanceHistory, Commands

`DistanceHistory` is what a distance symbol means: the last four distances of
back-references, most recent first, and one step for a back-reference and one
for a reference into the dictionary, which is not recorded.

`Commands` is the control of `ProcessCommands` and of the header states that
prepare it. An element of the stream - a number of block types, a block length, a
block switch, an insert-and-copy symbol, a distance - is chosen by the
environment. Input may be missing in front of any of its parts; `upcoming` is
then the element that was begun, and the next attempt finds the same one. Prefix
codes are represented by the block type (and context) they belong to.

| Action | Code |
|---|---|
| `ReadTypeCount`, `ReadFirstLength`, `MissFirstLength` | HUFFMAN_CODE_0 to HUFFMAN_CODE_3: the number of block types and the first block length of each category |
| `BeginCommands`, `FinishMetablock` | TREE_GROUP to COMMAND_BEGIN; METABLOCK_DONE to the next header |
| `BlockSwitch`, `MissSwitch` | `DecodeBlockTypeAndLength` with the three switches, fast and safe, read or interrupted behind the type or behind the symbol of the length |
| `ReadCommand`, `MissCommand` | `ReadCommandInternal`, and what it has set when the extra bits are missing |
| `ReadLiteral` | one round of the literal loops |
| `ImplicitDistance`, `ReadDistance`, `MissDistance` | COMMAND_POST_DECODE_LITERALS: `ReadDistanceInternal`, `TakeDistanceFromRingBuffer`, and the update of the cache by what the distance leads to |

What the commands store is `RingBuffer`'s part: there a distance is chosen
freely. Here, where it leads - into the window, into the dictionary, or to an
error - is chosen freely. A distance that wraps below 1 (`Huge`, 0x7fffffff in the
code) only leads to an error, as no window reaches it.

### DecoderCalls, ReaderAdapter, WriterAdapter, CopyLoop

`DecoderCalls` is one call of `BrotliDecompressStream` as its callers see it. A
stream is the number of bytes each prefix of it decodes to, and whether it is
valid; `Answers` is the set of outcomes the two promises, `OutputStream` and
`InputStream`, leave to a call. A failed decoder stays failed.

`ReaderAdapter` is `DecompressorCustomIo`: `Read` enters, `Decode` is one round of
its loop with `MoreInput`, `MoreOutput`, `Success` and `Failure` as its branches,
`PullBytes`, `PullNothing` and `PullError` are the outcomes of the read below, and
`CopyToFront` is the public function of that name, which a caller may use between reads.
The file may be shorter than the stream, or longer; bytes behind the stream are an
error (`reader.rs:339-341`) when they got into the input buffer (`Excess`), and are never looked for
below it. `EndIsReached` has both: the caller is told of them, and an exact file answers no `InvalidData`.

`WriterAdapter` is `DecompressorWriterCustomIo`: `Write` and `Close` (also reached by
`into_inner` and `drop`) enter, `Decode` calls the decoder, `SinkTakes` and
`SinkFails` are the rounds of `write_all`, `DecodeAgain`, `Succeed`, `WriteWantsMore` and
`GiveUp` what follows. Two assumptions are named at the actions: a sink that
failed stays failed, and a caller stops writing after a failed write or a close.

`CopyLoop` is `BrotliDecompressCustomIoCustomDict`: `ReadSome`, `ReadNothing`,
`ReadFails`, `Decode`, `SinkTakes`, `SinkFails`, `Finish`.

## 4. Runs

| Run | Question | Bounds |
|---|---|---|
| `ring_stream` | Is the right stream delivered, is the window right, and does a caller that keeps calling get to the end, for stream calls with 0, 1 or 6 bytes of room? | window 8, gap and chunk 2, slack 3, canny rings down to 4, up to 12 bytes declared in blocks of 2 and 6 |
| `ring_take` | The same for a caller that takes everything by `TakeOutput`, with a custom dictionary | window 16 or halved to 8, dictionary 3, up to 18 bytes declared |
| `ring_mixed_take` | May the two ways of taking output be mixed? (no: a finding) | window 8 |
| `input_stream` | Is a stream cut anywhere decoded in order and accounted for, and does a caller that keeps bringing pieces get to the end? | bytes of 2 bits, pieces of 0, 1, 3, 17 bytes, fast path from 16 bytes, 24 bits |
| `commands` | Is every symbol counted once, read with the right code, and every distance the one the stream means, wherever input is missing? | 3 commands, 2 meta-blocks, up to 2 block types, all 16 short codes and distances 1 and 5, 2 contexts |
| `header` | Are the headers read as if they came at once, wherever input is missing, and is the window the one that was peeked? | 2 meta-blocks, nibbles 0, 1, 15, length bytes 0, 1, 255, all windows, up to 256 block types in one category and 2 in the others, up to 3 context modes |
| `reader` | Does a caller of `read` get the whole stream, and learn of one that is cut, invalid or followed by bytes that got into the buffer, and never of a sound one? | three streams of 4 bytes, files of up to 6, input buffer 3 (margin 2), reads of 0, 1, 2 bytes |
| `writer` | Does the sink get the whole stream, and does every `write` and `close` return? | four streams of 3 bytes, files of up to 4, output buffer 2 |
| `copy_loop` | Does the copy end, with success only for a complete copy? | four streams of 4 bytes, files of up to 6, buffers of 3 and 2 |
| `tables` | Do context maps and prefix codes come to what their fields say, wherever input is missing, and do all ways of looking a symbol up agree? | codes of up to 5 bits over 4 to 6 symbols, root table of 3 bits, one meta-block with up to 3 block types and maps of up to 3 codes |
| `budget` | Does the fast path stay within the 28 bytes it checked, does every command advance, do words and distances stay in range? | none but `LongCopy`: all sizes of the code |
| `memory` | Has every block one owner, and does it go back once, however a call ends? | one block of the caller, two copies of a slot; everything else is finite by itself |

Why the bounds are enough. The ring wraps when 8 bytes were decoded, so 12 bytes
go through the wrap, the slack and a second round; every length below, at and
above `Chunk` and twice `Chunk` occurs as a copy, words reach past the end by 0 to
`Slack` bytes, blocks are overshot, and the canny ring is both halved and not. In the input
model the register keeps its 8 bytes and the buffer its 8 bytes - the numbers the
argument depends on - while a byte is shortened to 2 bits; a piece of 17 bytes allows the fast path,
one of 3 does not fill the buffer, one of 0 is an empty call.

In `commands` every symbol follows every history of two references, so that each
short code is read with new and with initial distances in the places it looks
at, and with distances below and above its offset; a block of length 1 ends behind its only symbol
in each category, and a second meta-block starts with what the first one left.
The constraint of `MCCommands` (`OneThingAtATime`) keeps two questions apart that
do not touch the same fields: streams that switch blocks have two commands and
use one distance symbol besides 0, streams that do not use one context. The proofs have no such
constraint. In the adapter runs the streams yield their bytes early, late, and
more than the output buffer holds; the files end before, at and behind the end of
the stream.

In `header` the constraint `OnePartAtATime` lets each part of the headers vary in full
and goes on from a few of its cases: the parts share only `loop_counter`, which
each resets. Digits of 0, 1 and all ones in every place show each place value and
each shift; 0 in the last place is the one the format forbids.

In `tables` the constraint `Small` explores one part after the other: context maps
(`MapsInPart`: one block type, and codes for the items whose symbols are the first
ones), the description of a single code in full (`CodesInPart`: codes for code
lengths that exercise repeats, extended repeats, a single symbol and an exhausted space,
an interrupted loop taken up at several places), and groups of trees behind one another
(`TreesInPart`). Five bits over a root of three give second-level tables of 2 and 4 entries, so that both
the key of a table and its size vary; a map that follows another finds the list of the transform
as the first left it.

`budget` reaches 25 of the 28 bytes, so the check is not far from what it has to cover
but for the bytes a load looks at beyond its need. In `memory` two copies of a block are enough: a slot that
is asked for again while an old block is lost shows as two, and `InvHolds` of `DecoderMemory_proofs` says that
an allocator with two never runs out of them.

Fairness. Between entry and return nothing but the decoder runs, so its own
steps are weakly fair. That bytes of the stream keep coming, that a call is
repeated and that a call with room occurs again and again are assumptions about
the caller (strong fairness on `Decode` and on each `StreamCall(room)`); without
them a caller may simply stop. `StreamInput` states the fairness of its reads with the
conditions `CanTry` and `CanRead` under which they are enabled, in place of ENABLED. For the reader adapter the caller keeps reading
into buffers that are not empty, and the reader below does not fail for ever
(strong fairness on `PullSome \/ PullNothing`). For the writer adapter the sink
takes a byte or fails whenever it is asked; one that answers 0 for ever keeps
`write_all` in its loop. In the copy loop source and sink answer. No fairness is
assumed for errors or for particular contents of the stream.

## 5. Proofs

`RingBuffer_proofs` holds for every window, gap, chunk, slack, dictionary,
block, command and word length and every caller's room and take sizes that satisfy
`RingConstants`, the conditions the code's constants meet:

* `TypeCorrect`: `Spec => []TypeOK`
* `PositionsStayInRange`: `Spec => []PositionsInRange`
The inductive invariant `Inv` is `Types /\ Control /\ Cursors /\ Account`. The
properties are not inductive by themselves: that `pos` stays inside the ring
needs to know that a write state wraps or fails, and for a halved ring, which never
wraps, that it was made large enough for the declared length (`Account`). That an
overshooting command delivers nothing needs the bytes still owed by a command in
progress (`Pending`): they are charged to the block before they are decoded.
`UnwrittenFacts`, `WrittenFacts` and `WriteCursors` say what the write does to the
cursors once for all five actions that write; there is a lemma per action.

The second part of the module builds on it and says what the cells hold:

* `WindowStaysIntact`: `Spec => []WindowIntact`, for a window that reaches at least 2 back
  (`2 <= MaxBackwardDistance`; the code's smallest reaches 1008). Callers may stream and take in any mixture.
* `UnwrittenStaysIntact`: `Spec => []UnwrittenIntact`, what is decoded and not delivered is in
  its cells. No run lists it: the theorem covers every caller.
* `QueriesAreExact`: `Spec => []OutputQueriesExact`
* `OutputIsAsDeclared`, `DeliveredInOrder` and `RingImplementsQueue`:
  `Spec => []OutputMatchesHeaders`, `Spec => []DeliveredIsPrefix` and
  `Spec => ImplementsOutputStream`, for callers that stay with one way of receiving output
  (`OneWay`): stream calls only, or stream calls without room and `TakeOutput` for all
  there is. The assumption is needed: the run `ring_mixed_take` shows what happens to a caller of both
  ways, and §6 what a `TakeOutput` for a part of the output loses.
* `TakingAllReturnsAll`: `Spec => TakenBytesAreReturned` for callers that ask `TakeOutput` for all there is,
  whatever room they give in stream calls in between.

"All there is" is `*size = 0`, which stands for at most 1 << 24 bytes (`TakeAll`); the theorems assume that
the window is no larger (`WindowSize <= TakeAll`).

The invariant is `ContentInv`, that is `Inv /\ Content /\ Distances`. `Content` says that
every byte of the current round, and every byte of the last `MaxBackwardDistance`, is in its
cell, its number less `WindowBase`, or a ring further on. Why a step keeps it: whatever a step stores
beside the byte it decodes - the tail of a copied chunk, a word past the end - lies within `Gap` cells behind
`pos` or in the slack, and the window is the ring less `Gap`, so those cells belong to bytes that are too
old to be reached. A halved ring has no gap to spare by its size; there `Account` gives it, because
all that was declared and the dictionary fit in front of it. `Distances` keeps what was checked when a distance was
accepted, for the later states that copy by it byte for byte, and says that a
full window was reached before `max_distance` stopped growing. A block that was
overshot is excluded (`mlen < 0`): it ends in an error, of which `OutputIsAsDeclared` says that nothing gets out.
`Received` adds what holds of a caller of one way: `delivered` has as many bytes as
`partial_pos_out` says, and one who takes everything never leaves room in a stream call.
That both ways hand out the same bytes rests on `UnwrittenAtFront` and `WrittenIsNext`: when a write
starts at the front of the ring, no word is left in the slack, so that the bytes it hands out are the
next ones. `DeliveredInOrder` adds `InOrder`, that the bytes of `delivered` are the first ones of the
stream; `RingImplementsQueue` has one lemma per kind of step: decode, write, take, end of a call.

`Commands_proofs` holds for every set of distances, contexts and block lengths,
any numbers of block types, and any number of commands and meta-blocks
(`MaxCommands` and `MaxBlocks` are arbitrary), under `CommandsConstants`:

* `TypeCorrect`, and `CountersStayExact`, `TypesStayLastTwo`, `CodeStaysCurrent`,
  `NothingStaysHalfRead`: the four invariants the run `commands` checks
* `CacheImplementsHistory`: `Spec => ImplementsDistanceHistory`, the cache refines
  the history of distances

Here, too, none of them is inductive. That a block length resumed in the header is
the one begun, and that a switch never sees a half-read one, needs to know which
element an interrupted read has begun and where (`Interrupted`). That a wrapped
block type has prefix codes needs the bound on both entries of the ring, and the
exception of the initial 1 in a category that never switches (`BlockTypes`).
`CodeIsCurrent` needs that `distance_context` still is the context wherever it is
used to look up a code, although an interrupted distance read resets it
(`Codes`). The refinement needs that the index is below the number of commands and
that an implicit distance is taken with `distance_code` 0 (`Cache`, `Codes`); then
`ReferenceIsStep` maps the three outcomes of a distance to a step or a
stutter, and `NearCachedIsMeant` reads the two tables of offsets. One assumption
is worth naming: a meta-block has fewer symbols of a category than the 1 << 24 its
counter starts with when it has one block type (hazard at `decode.rs:2368`).

`StreamInput_proofs` holds for every set of demands, pieces of every size, any number of bits
of a byte, any size of an uncompressed block, any fast path that keeps to its check, and any length of the stream,
under `StreamInputConstants`:

* `AlwaysBitsInOrder`: `Spec => []BitsInOrder`, every bit is consumed once and in order
* `BufferAlwaysHasRoom`: `Spec => []BufferHasRoom`, the 8-byte buffer does not overflow, a
  reader stays inside what it borrowed, and the accumulator holds no more bits than it has
* `AlwaysAsksOnlyWhenShort`: `Spec => []AsksOnlyWhenShort`
* `StreamInputImplementsInputStream`: `Spec => ImplementsInputStream`

They follow from `InvHolds`. The invariant is `Types /\ Control /\ (~Fatal => InOrder /\ Place)`:
accumulator, internal buffer and the rest of the caller's piece hold consecutive parts of the stream,
in this order, with no bit between them (`InOrder`), and `Place` says what reader and buffer look like in
a call that reads the piece, in one that reads the buffer, and between calls with and without a tail in the
buffer. What makes a step keep it is the tail: until the stream has ended, bytes are left in the buffer between calls only
when a transaction is under way that needs more than accumulator and buffer hold (`Waiting`), so that the byte
the next attempt adds always has a place. A transaction that fails goes back to where it began, which needs that
a fill pulls whole bytes and forgets none (`PullBytesFacts`, `SafeGetBitsFacts`, `TransactionFacts`).

`StreamHeader_proofs` holds for all nibbles below 16, bytes below 256 and positions in a byte, and any number
of meta-blocks, without the constraint of the run:

* `FieldsStayAsSaid`: `Spec => []FieldsAsSaid`, the headers mean what their fields say wherever
  calls end
* `WindowStaysAsPeeked`: `Spec => []WindowAsPeeked`

The invariant of `InvHolds` has for each reader a conjunct for the fields read so far and one
for the finished result: `LengthSoFar` and `HeaderAsSaid`, `CountSoFar` and `CountAsSaid`, `ModesSoFar` and
`ModesAsSaid`, `WindowSoFar`. `FieldsAsSaid` speaks of the finished results only and is not inductive: that a resumed length
comes out right needs that the sum so far is the number of exactly the digits read so far. `Position` is
what makes one statement of it for a running call and for the time between calls: the local counter of a
loop, or the saved one. `PeekedWindow` is the case split over the first two bytes for `lg_window_size`.

The proofs about the three callers begin with the same lemmas about a call: `Decoded(n)` is the sequence of
the first n numbers, appending what a call gives extends it, and a call (`AnswersStay`) leaves
a decoder that took no more than there is and gives what it can (`IsDecoder`). On them, for every set of
streams, buffer length and behaviour of source and sink:

* `CopyLoop_proofs`: `CopySinkIsPrefix`, from `CopyInv`: the output buffer holds the bytes in front of
  `dec.given`, and is empty whenever the decoder is called.
* `WriterAdapter_proofs`: `WriterSinkIsPrefix` and `WriterAnswersWhatItTook`, from `WriterInv`. What was
  accepted differs from what the decoder consumed by `input_offset` while a call is under
  way (`InputInv`), and `close` drops output only after the error was taken (`Sound`).
* `ReaderAdapter_proofs`: `ReaderBufferedIsNext`, `ReaderNoByteVanishes` and `ReaderZeroIsTheEnd`, from
  `ReaderInv`; here the three properties support each other and `DeliveredInv` is what is added.

`DecoderMemory_proofs` holds for any of the four interfaces and any set of copies with two members
(`MemoryConstants`), and needs no bound on the stream:

* `BlocksHaveOneOwner`: `Spec => []OneOwner`
* `MemoryGoesBack`: `Spec => []HeldOnlyWhileNeeded`
* `NoBlockIsLost`: `Spec => NothingIsLost`, with the two exits the property names
* `FailuresAreFinal`: `Spec => FailureIsFinal`

The invariant of `InvHolds` is `Owners /\ NoLoss /\ Calls /\ Locals /\ NotHeld /\ MustHold`. `Owners` is `OneOwner` and
more: a field or local holds a block asked for under its own name, or nothing, and never both do.
It is not inductive: that an allocation overwrites no block needs to know which fields are empty in which
state of the stream (`NotHeld`), and that a function which puts its blocks back finds the
places empty needs to know what it moved (`Locals`). `NotHeld` speaks of what is held, in a field or in a local
(`Held`), so that moving a block changes nothing in it; that is what carries it over the functions that are cut and
taken up again. `MustHold` is the other direction: who cannot be refused always has the context map table and,
in TREE_GROUP, the offsets of all groups, so that the panics of `ReadMapTable` and
`HuffmanTreeGroupDecode` are left to a Rust allocator that refuses, as `NothingIsLost` says. `NoLoss` says that a decoder
that did not fail has lost nothing: that is why there is a block to be had whenever one is asked for
(`FreshWhileNoLoss`). After a failure only the caller's own block is asked for,
and of those there is one. `ChangeOwners`, `TakeOwners`, `PutBackOwners`, `GiveOwners` and `DropOwners` say
once what each way of handling blocks does to owners and losses; there is a lemma per action.

Only model-checked:

* the tables (`MetablockTables`, `PrefixCode`, `HuffmanTables`): what the loops that fill a table compute for every code
  is an induction over data, which is out of the prover's reach;
* the budget of the fast path: TLC explores it in the sizes of the code, with all its states;
* liveness (`Completes`, `EndIsReached`, `CallsReturn`, `LoopEnds`), with the fairness it assumes: out of the prover's reach,
  as is ENABLED.

No module uses a RECURSIVE operator.

## 6. Disagreements between the code and what is said of it

* After `TakeOutput` wrapped a ring with a word in its slack, the stream call
  writes from the front before the slack is moved there (run `ring_mixed_take`, which
  ends in the counterexample). `decode.h:304-306` lets a caller mix the two.
* `TakeOutput` with a size below the pending output consumes that many bytes, says
  so in `*size`, and returns an empty slice (`decode.rs:1725`, `2282-2299`). The header calls `*size`
  the "amount of data pointed by returned pointer and considered consumed"
  (`decode.h:315-316`). With `TakeSizes = {1}` and `StreamRoom = {0}` in
  `RingBufferMixed.cfg`, `TakenBytesAreReturned` shows it. `ring_take` takes all there is. The same would happen
to a caller that asks for all (`*size = 0`) with more than 1 << 24 bytes pending, which a large window (up to 1 << 30) allows:
`TakingAllReturnsAll` excludes it by `WindowSize <= TakeAll`.
* `read` gives the error of a cut or invalid stream once; later reads answer
  `Ok(0)`, which its documentation reserves for a stream that was fully
  decompressed (`reader.rs:295` against `325` and `346`).
  `OkZeroOnlyWhenDecompressed` of `ReaderAdapter`, as an invariant of `ReaderAdapter.cfg`, shows it.
* A null answer of the caller's alloc function is made into a slice of a null pointer
  and ends the process (`ffi/alloc_util.rs:78`, with `write` on each item), although `types.h:67` has
  null as the sign of failure and `decode.h:269` has calls report errors. `DecoderMemory` has it as the outcome
  `stopped`.
* Two exits lose memory until the allocator itself goes: a distance beyond every
  dictionary word (`decode.rs:2595`), which leaves the three groups of codes in locals - freed
  by Rust when they are boxes, lost to an allocator with a free function - and
  a decoder over an allocator that refuses the small block of a group or map and grants the
  large one (`decode.rs:1184`), which panics. `NothingIsLost` names both.

## 7. Not modelled

* The constant tables (dictionary, contexts) are data. The shift and mask arithmetic of the
  accumulator is represented by the bits it holds, and its 32-bit variant is left out.
* `brotli_decode`'s split of its scratch buffer, and what the one-shot call answers when the
  output does not fit; error strings; an alloc function without a free function.
* The counter of a category with one block type starts at 1 << 24 and would, at
  zero, ask for input that does not help (`decode.rs:2368`): it takes 16 million symbols of a category in one
  meta-block. `Commands` and `StreamInput` leave it out (`NoSwitch`).
* Command line tools, tests, fuzz targets and examples are drivers; logging.

The adapters are modelled over `DecoderCalls`, not over `RingBuffer` and
`StreamInput` themselves; that the two implement the promises `DecoderCalls` is
written from is what their refinement properties check. `close` of a writer whose
`write` failed answers Ok and drops what the decoder still holds; the caller
was told once, and `SinkIsPrefix` speaks of writers that were not.
