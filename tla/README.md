# A TLA+ model of bmx2ogg

bmx2ogg turns a BMS rhythm-game chart and its key sounds into one audio file. This
directory models the program's own code, `src/bmx2ogg/`, and the part of the bundled
`src/libsndfile/` that it reads and writes sound files with: TLA+ modules, TLC
configurations that check them on small instances, and TLAPS proofs of what holds for
every value of the constants. Line numbers below are those of `src/bmx2ogg/`, or of
`src/libsndfile/src/` where the file is the library's.

The program is a single thread in a single process, so the model has no concurrency to
interleave. What makes it hard is elsewhere:

* indices that no line tests and that are in range only because of what other
  functions did before (the mixer's ticks, the resampler's positions);
* one fact kept in two places (output format and file name; start ticks and the length
  of the accumulator; `pos`, `samplesize` and the block they describe);
* ownership of memory by convention (`buf = *newbuf` copies a pointer);
* state that outlives a call (the static FIFOs of the pitch shift);
* rounding: of times to frames, of lengths, of positions;
* other parties that fail half-way: a file that cannot be opened, is cut short,
  damaged or never closed by its writer, a disk that becomes full (and perhaps is
  relieved) between any two bytes;
* lengths that are claimed in one place and true in another: chunk sizes, granule
  positions, numbers of frames, sizes of a buffer made from one of them.

## Inventory

| component | code | state | operations |
|---|---|---|---|
| Mixer | `audio.cpp:172-277`, `audio.h:110-141` | per channel an `Audio`, `mixing` and a start tick; the current tick; the accumulator `samples` | LoadFile, Start, Stop, StartMixing, Mix, MixUntilEnd, IsAllAudioStopped, Flush, Release |
| Sample buffer and Audio | `audio.h:20-108`, `audio.cpp:10-28, 76-170` | per object `samples` (a malloc'ed block), `samplesize`, `pos` | Create, Add, SetSampleCount, Release, Clear, Get; Audio's LoadFile, Create, ChangeRate, ChangePitch, destructors |
| Resampling (`-rate`) | `audio.cpp:116-144` | the loop's `i` and `oidx`, the new list | ChangeRate |
| Pitch shift (`-pitch`) | `audio.cpp:146-170, 335-562` | static FIFOs, accumulator, `gRover`, `gInit`, phases and bins | ChangePitch, smbPitchShift, smbFft |
| Writing the output | `audio.cpp:30-74` | position in the buffer, the result | SaveFile |
| libsndfile, writing | `sndfile.c`, `file_io.c`, `wav.c`, `pcm.c`, `flac.c`, `ogg_vorbis.c` | SF_PRIVATE (frames, offsets, have_written), the encoders' queues, the file | sf_open, sf_set_string, sf_write_short, sf_close |
| libsndfile, reading | the same, `common.c`, `wav.c`'s and `ogg_vorbis.c`'s parsers | the header cache, the parser's stage, positions; stream processors; a block's rest | sf_open, sf_read_short |
| Command line | `bmx2wav_main.cpp:23-138, 182-196` | `output_type`, `output_path`, `autofilename`, numbers | parse, the automatic file name |
| Paths | `bmx2wav_common.cpp` | none | substitute_extension, substitute_filename, get_filedir, get_filename, make_filename_safe |
| main | `bmx2wav_main.cpp:141-356` | all of the above, and the chart | load, mix, flush, shift, resample, save |
| BMS parsing | submodule `bmsbelplus`, empty | the chart | external |
| libFLAC, libvorbis, libogg, the disk | not in the repository | what an encoder keeps back, room on the disk | external |
| Encodings, unused helpers | `src/include/iconv`, parts of `bmx2wav_common.cpp`, `exception.*`, `bms_resource.h` | none | called in the Windows build only, or by nothing |

How they interact: `main` calls `parse`, then gives each registered word's file to
`Mixer::LoadFile`, walks over the chart's bars calling `Mix` up to each bar's time and
`Stop` and `Start` for its notes, then `MixUntilEnd`, `Flush` into `audio_out`,
`ChangePitch`, `ChangeRate` and `SaveFile`. All are plain calls; the only shared state
is the file system (key sounds and output) and the static variables of the pitch
shift. Audio::LoadFile and SaveFile call libsndfile, which calls a decoder or an
encoder, which call back for bytes and with samples.

What makes each component correct:

* **Mixer**: the channel loop's unchecked indices are in range; a sum of channels fits
  the accumulator; MixUntilEnd plays every sound to its end and not longer; and the
  mixer as a whole is a sum of play heads, although it stores no head.
* **Buffer**: one owner per block; `samplesize` and `pos` describe the block; an Audio
  is an independent list; uninitialised memory becomes music only where a file is
  short or a speed leaves the list, and there in the places that are missing.
* **Resampling**: at the speeds that stay in the list every position read holds a
  sample; at all of them frames remain frames and on time, and the length is right.
* **Pitch shift**: each frame holds the right samples; each output sample is the
  complete sum of its frames; smbFft is the Fourier transform; frequencies explain the
  phases; bins move where they belong; a factor of 1 changes nothing.
* **Writing**: the file is always a prefix of the music; the result is honest.
* **libsndfile, writing**: samples come in order, whatever the disk does; a WAV header
  claims what is there; what was lost shows, or it is known where it does not.
* **libsndfile, reading**: an intact file is read whole, a WAV file without sizes is
  repaired, nothing comes out of order of any other; no more is put into the program's
  buffer than it has room for; parsing ends.
* **Command line**: the name promises the format that is written; no rewriting of
  the output's path moves it to another directory; the vector is never read past its
  end.
* **main**: what is written is the music the chart defines; inputs are not
  overwritten; main uses each part within its contract; it ends.

## Modules

| module | models | checked in |
|---|---|---|
| `SoundMix` | abstract: a mixer as play heads over sounds | `mixer` (refinement) |
| `Mixer` | `Mixer`, one action per member function; the loop of Mix is one step per channel | `mixer`, and inside `Convert` |
| `Rate` | a speed as an exact quotient, and ChangeRate's arithmetic | with its users |
| `Resample` | ChangeRate, one step per turn of the loop | `resample` |
| `SampleList` | abstract: each Audio is a list of its own | `audio_data` (refinement) |
| `AudioData` | the buffer down to malloc'ed blocks, and Audio's operations | `audio_data` |
| `PitchFrame` | the sizes both modules about smbPitchShift share | with its users |
| `PitchFifo` | smbPitchShift's FIFOs and overlap-add | `pitch` |
| `Spectrum` | what smbPitchShift makes of a frame: window, smbFft, analysis, the move of the bins, synthesis, smbFft back | `spectrum`, `spectrum_pitch` |
| `SoundFile` | abstract: what a program may rely on that writes with libsndfile | `sndfile` (refinement), and inside `SaveFile` |
| `SaveFile` | Audio::SaveFile over `SoundFile` | `savefile` |
| `SndfileHandle` | the variables of a sound file that is being written, which the next modules share | with its users |
| `SoundBytes` | the bytes of a sound file, and what a reader finds in them | with its users |
| `SndFile` | libsndfile writing WAV, FLAC and Ogg, down to the bytes psf_fwrite gets on the disk | `sndfile` |
| `SoundInput` | abstract: what a program may rely on that reads a file with libsndfile | `load_file` (refinement) |
| `SndRead` | what the formats have in common: guess_file_type, validate_sfinfo, LoadFile's own part | `load_file` |
| `WavFile`, `WavRead` | what may be in a WAV file; the header cache, wav_read_header, wav_subchunk_parse, the PCM reader | `load_file` |
| `OggRead` | ogg_stream_classify, vorbis_read_header, vorbis_length and its stream processors, vorbis_read_sample | `load_file` |
| `FlacRead` | flac_read_header, flac_read_loop, flac_buffer_copy | `load_file` |
| `LoadFile` | the four together, and what is asked of them | `load_file` |
| `Paths` | path functions as operators on sequences of characters | with its users |
| `Options` | parse, one step per argument, and the automatic name | `options` |
| `Sums` | a sum of integers as a recursive function | with its users |
| `Convert` | main from loading to writing; INSTANCEs `Mixer`, EXTENDS `Paths`, `Rate` and `Sums` | `convert`, `convert_ogg` |
| `MC...` | the instances for TLC | |
| `NatFacts` | lemmas: least and greatest elements, integer division, sums, the arithmetic of rates | |
| `...Proofs` | theorems; `OptionsProofs` is about `Options` and `Resample`, `PitchProofs` about `PitchFifo` and `Spectrum`, `SaveFileProofs` about `SaveFile` and `SndFile` | |

Composition: every step of `Convert` that touches the mixer IS a step of `Mixer` (an
instance that shares the variables; Mixer's `pc` is called `phase` there). The
property `ObeysMixer`, `M!Spec`, is therefore a real condition: that `main` calls the
mixer only in ways `Mixer` describes, never with a negative span or in the wrong
phase. SaveFile enters `Convert` as what module `SaveFile` shows of it: the file holds
a prefix, and the result is true of it but for what an encoder loses unnoticed; or the
process dies, if a FLAC file's header cannot be written. (A disk that is relieved
meanwhile is left to `SaveFile`.) What main returns is put together from
these outcomes. The pitch shift keeps the number of samples; what it makes of them is
the parameter `PitchedSample`.

`SoundFile` stands between the program and the library. `SaveFile` makes each of its
calls a step of `SoundFile`, and `SndFile` is proved to implement `SoundFile` (its
property `Promise`), so that what is shown of `SaveFile` rests on the code of
libsndfile and not on its manual. In the same way `SoundInput` is what a program may
rely on that loads a file: an intact one is loaded whole, any other gives samples of
the sound in their order, silence between them, and behind them what is no sound;
`LoadFile` is shown to implement it.

How state maps to code: variables have the names of the source's variables.
`samples[p]` of the code is `samples[p + 1]` in the modules, and a list's `pos` is its
length wherever the memory below it does not matter (everywhere but in `AudioData`).
Variables marked "history" in their comments are not in the program; they record what
a property talks about and no action reads them in a guard. Definitions that begin
with `Mutant:` in their comment are no part of the specifications: each is a
definition of the model with a plausible mistake, kept to show that some property
notices it.

Samples are represented by their positions in the music or the sound, wherever only
their order and their loss matter (`SaveFile`, `SndFile`, `LoadFile`). In `SndFile` a
byte of the file carries what it belongs to, and `SoundBytes!Heard` is what a reader
makes of them: what `SndFile` shows `SoundFile` as the content of a file is read from
its bytes, not kept beside them. In `WavRead` a file is where its chunks'
heads lie, what they say, and how long it is; where a reader looks for a chunk and
there is none, it finds any bytes. In `OggRead` a file is a sequence of pages, in
`FlacRead` of blocks. `Spectrum` computes with residues modulo a prime in place of
complex numbers: the powers of a generator are the numbers of magnitude 1, so that
roots of unity, sums and products are exact; phases are in parts of a turn and
frequencies in parts of a bin. Every number but 0 has magnitude 1, which the analysis
doubles. `Finer` is a multiple of every factor's denominator, so that no frequency is
rounded when it is moved.

What the models take as nondeterministic because the code does not determine it:
`mixing`, `tick` and the start ticks before StartMixing (no constructor sets them);
which block malloc returns, and whether realloc moves; memory that nobody has written
(`Junk`); how many samples an encoder keeps back and when it writes them; what a
decoder makes of a damaged page or block; bytes of a file that are read for something
they are not. A list that is resampled at 1/2 or slower (or below 1, with an odd number
of samples) is read behind its last sample: in `AudioData` that is what the block
holds there, or behind the block anything, in `Convert` the constant `Leftover`; a
fault is not a step.

## Runs

| run | instance | what it shows |
|---|---|---|
| `mixer` | 2 channels, samples -3..2, sounds of 1 to 3 samples, up to tick 3 | `IndicesInRange`, `Headroom`, `MixUntilEndDrains`, refinement of `SoundMix` |
| `resample` | lists of 0..13 samples, 11 speeds | `ReadsInRange`, `OnTime`, `LengthScaled` |
| `audio_data` | 2 Audio objects and newbuf, 4 blocks, chunks of 2, lists of up to 3, stretched to 4; speeds 1/2, 2/3, 2 | `Ownership`, `NoNewJunk`, refinement of `SampleList` |
| `savefile` | up to 9 samples in pieces of 4, three formats | `HoldsPrefix`, `ResultIsHonest`, `Terminates` |
| `sndfile` | three formats, 6 samples in pieces of up to 4, room for 0 to 16 bytes, relieved by 1 or 9 | `InOrder`, `ClaimIsTrue`, `CallsReturn`, refinement of `SoundFile` (`Promise`) |
| `load_file` | 1315 files, listed in `MCLoadFile` | `WithinBuffer`, `LoadEnds`, refinement of `SoundInput` (`Promise`) |
| `options` | all command lines of up to two options; 3 program names, 4 charts, 3 titles | `FormatMatchesName`, `KeepsPlace`, `StaysInVector` (no argument is read past the end) |
| `convert` | 30 charts, 4 disks, 2 outputs, speeds 1, 3/2 and 1/2, with and without pitch shift | `RendersChart`, `ObeysMixer`, `NamedSoundsSurvive`, `Terminates` |
| `convert_ogg` | same, output on top of a key sound's `.ogg` | violated: a key sound that is read may be overwritten (finding) |
| `pitch` | frames of 6, three overlapping; 3 calls of up to 9 samples | `FramesOverlap`, `OutputIsWhole` |
| `spectrum` | two frames of 16, impulses and mixed samples, factors from 1/2 to 2 | `FftIsTransform`, `FrequencyExplainsPhase`, `SpectrumIsStretched`, `UnshiftedIsUnchanged` |
| `spectrum_pitch` | frames of 8, the factors of `-pitch` -12, -6, 6 and 12 | violated: bins before the first one are written (finding) |

Why the bounds are enough. In `mixer` two channels are the fewest whose sum can exceed
a sample; three ticks let a sound be restarted in its middle, end, and lie silent;
MixUntilEnd runs beyond the bound. The samples keep the asymmetry of a short. In
`resample` 13 samples at a speed of 7/2 and 1/10 (what 0 and 1/20 are clamped to) pass
every residue of positions modulo the denominators. In `audio_data` a list of 3
outgrows its first block, and four blocks are one more than three objects own, so
realloc can move in any state. Half the speed reads behind every list that is not
empty, 2/3 behind odd ones, and 2 behind none. `savefile` has none to three pieces,
and a last one of each length. `sndfile` has a WAV file of at most 14 bytes, so the
disk becomes full at each of them and nowhere; and the relief is too small for what
comes next, or enough. The files of `load_file` have each kind of chunk before and
behind the samples, chunks that cross the real size of the cache (12292 bytes) in
their head and in their inside, each length from the whole file down to one cut in its
header, sizes that are too small, too big and odd, a LIST with zeroes for a marker and
up to 8 bytes behind it, the data of two other codecs, 1023 and 1024 channels; in Ogg
the headers on two pages, as they are usually written, and on three, one stream, two
one after the other and interleaved, a foreign codec, each page lost or damaged,
granule positions that lie; in FLAC blocks shorter than, as long as and across a piece
of 4 samples. Of the branches of `LoadFile` only the refusal of a `fact` chunk before
`RIFF` is not reached. In `pitch` calls (main makes one, the routine would allow more)
end at each position in a frame, and the fourth overlapping frame shows that terms are
no longer added. Frames of 16 give smbFft four stages, and the second frame meets
phases that the first one left. `convert`'s charts are listed in `MCConvert`: notes in
the same and in different frames, a sound cut by its own restart, a long note's end,
an object of a silent channel, the word 0, unregistered words, missing and broken
files, no bar at all, and a time that falls between frames.

Deadlock is not checked anywhere, since each system is a call or a program that
returns (or reaches its bound) and then rests. That it does return is the liveness
property of `savefile`, `sndfile`, `load_file` and `convert`; the others are loops
that count.

Fairness. There is one thread and no scheduler to be fair to, so it is assumed that
the thread goes on where it can: `WF_vars(Next)` in `Convert`, `WF_vars(Load)` in
`LoadFile`, and in `SndFile` `WF_vars(Library)`, the steps of a call that has begun,
not the program's next call nor the relief of the disk. `SaveFile` sees of a call only
that it begins and returns: it assumes weak fairness of the program's steps, of
storing what can be stored and of the end of closing, which is what
`SndFile!CallsReturn` shows of the library.

## Proofs

Each theorem holds for every value of the constants that the named ASSUMEs admit. Of
the 37 properties the passing runs check, 32 are proved.

**MixerProofs** — `TypeCorrect`, `IndicesStayInRange`, `AccumulatorHasHeadroom`. The
ranges are not inductive one by one: `Get` is called at `_t - started`, so one needs
`started <= tick`, which needs `tick` to grow, which needs the length of the
accumulator to follow it. The inductive invariant `IInv` joins types, ranges and
headroom; in "inMix" the headroom is counted by the loop index (after n channels no
sample exceeds n full-scale ones), which is what makes each turn of the loop preserve
it. `EndIsNeitherCutNorPadded` (`MixUntilEndDrains`): the maximum MixUntilEnd takes
exists and is natural (`NatFacts`), it is reached by a channel that plays, and no
channel has more. `MixerImplementsSoundMix`: every step is one of `SoundMix`, or none.
The head of a channel is mapped to `tick - started`, and in the loop of Mix the
accumulator is the sum, sample by sample, of the channels that were passed; the sum is
a recursive function, and `NatFacts` shows what one channel more adds to it.
`NormalizingChangesNothing` proves for every accumulator that the ratio of Flush is 1,
so that `-norm` has no effect.

**AudioDataProofs** — `EveryBlockHasOneOwner` (`Ownership`), `SizesAgree`,
`JunkDoesNotSpread`, `AudioIsList`. The invariant `OneOwner` says of all objects at
all times, newbuf while it is filled included, that `samples` is injective where it is
not null and that its values are the live blocks. So what is written through one
object is not read through another, and a step on blocks is a step of `SampleList` on
one object's list, or none: what ChangeRate adds to newbuf shows only when the pointer
is copied, and then as the whole resampled list (`Copied`). The theorems hold for
every speed. Each place of the new list comes from the place `Rate!Origin` says, if
the old list has it, and may be anything if not; so unwritten memory comes in only
where the speed leaves the list (`StaysInList`, `TakesJunk`). That elsewhere no read is of
unwritten memory needs the sizes (`SizeKnown`, `SourceKnown`), and the lemmas on
rates. `JunkAssumption`: what nobody has written is no sample of anyone's.

**OptionsProofs** — `ParseStaysInVector` and `NamePromisesFormat` for every command
line and all tags; and `RewritingKeepsDirectory` (`KeepsPlace`): the output stays in
the directory of the path it was given last (`given`: by default, by `-ob` or by `-o`)
while extensions are exchanged and the automatic name is put in, or goes to the root
directory if that path was a bare name. Left out are only paths whose last dot is
in a directory or whose last separator is a backslash (`Editable`). The path
functions are defined by last occurrences; the lemmas say what each returns when there
is no separator, no dot, or a dot before the separator. The invariants carry what
later options rely on: `output_path` ends with the format as long as it was not typed,
and its directory is that of `given`, if `given` is `Editable`. The last slash of a
path with a new name is the one before that name (`RenamedLastSlash`), whether or not
there was one. That a title cannot move the file is the lemma that a safe name holds
no separator. `CharacterAssumption` asks only that the few characters the functions
insert are among those paths are made of.

The same module has `TypesAndBufferSize`, `FramesAreOnTime`, `LengthIsScaled`,
and `ReadsStayInRange` about `Resample`. The
invariant relates `oidx` to the ideal position `i * speed`: at or one above its whole
part, always even. From that and the two truncations of the new length follows that
the last frame read begins at least two samples before the end, if the speed is at
least 1, or above 1/2 for an even list. The arithmetic on quotients is
non-linear and so is split into the lemmas on `\div` of `NatFacts`.

**PitchProofs** — `FramesFollow` and `OutputIsComplete`, for frames of any size, any
overlap, and any calls of any length. The invariant determines every place of every
FIFO: after N frames the place k of the accumulator holds the terms of the frames so
far whose position is `k + N * stepSize` (`Terms`), and none are behind the last
frame's end, so that the half of the accumulator that memmove leaves alone is empty;
the write position is what ties the samples given to N, across the calls. That a
finished position has `osamp` terms, one of each frame, is a bijection with an
interval (`TermsCounted`). `FrequenciesAreTrue` (`FrequencyExplainsPhase`) rests on
`WrappedIsNearest`: for every phase, negative ones included, the parity that the code
computes wraps it to within half a turn, by whole turns. `SpectrumStretched`
(`SpectrumIsStretched`), for every factor that is not negative (what the others do is
shown by `spectrum_pitch`): while the bins are moved each place holds the sum of what
belongs to it of the bins passed so far, and the frequency of the last of them
(`MovedInv`); a bin belongs exactly where the code's truncated product sends it
(`BelongsWhereMoved`), and no frequency is rounded, all of them being multiples of
`Finer`. `NoShiftNoChange` (`UnshiftedIsUnchanged`), for any number of frames: the
phases put together and those taken apart agree up to whole turns (`PhasesAgree`),
though the code keeps them in two tables and changes one before and one after the
move, and a phase that agrees leads back to the number it came from (`BackFromPhase`).
It rests on the types of all that is computed (`SpectrumTyped`), and so on smbFft
staying in its buffer: reversed bits make an index of the frame (`ReversedInIndex`),
and the blocks of a stage fill it (`CombineTyped`). What is needed of a power of 2 is
`FftAssumption`: that none of its divisors but 1 is odd; of two of them the greater is
then at least twice the smaller (`DivisorGap`). `TurnAssumption`: half a turn, and a
bin's turn in one step, are whole numbers of directions.

`FftIsFourier` (`FftIsTransform`): when smbFft returns, forward or back, each element
is the sum that defines the transform, whatever the buffer held and however large the
frame. `FftInv` says what its loops have done so far. While elements are exchanged,
one is exchanged already if it or the one it belongs to was passed
(`ReversedUpTo`); that each pair is exchanged once is because reversing twice is nothing
(`ReversedTwice`), the bits of an index being reversed from the highest down
(`HighestBit`, `OneMoreBit`). Before each stage the buffer consists of blocks, and
each is the transform of every so many elements of what was given, beginning at the
reverse of the place where the block begins (`BlocksAre`); a stage makes one block of
two (`StageCombines`), as a sum splits into its even and its odd terms (`Butterfly`)
and half a turn is a change of sign. The last is not assumed: `ResidueAssumption` only
says that `Generator` generates all residues but 0, each once a turn, and -1 is
found among its powers, where nothing but half a turn can be (`RootOfHalf`).

**SaveFileProofs** — `FileHoldsPrefix`, `ReturnIsHonest`. The invariant has three
parts. `Prefixes`: what was handed over is a prefix of the buffer, and the file one of
what was handed over as long as no disk was relieved. `LoopInv`: the loop's index is
even while there is more to write and goes together with what was accepted, which is
what makes the last piece the only one that can be refused for ending in mid-frame.
`ResultInv`: the result, decided before the handle is destroyed, remains true of the
file afterwards. The lemmas say what each step of `SoundFile` does to them.

The same module has `SamplesInOrder` (`InOrder`), `HeaderClaimIsTrue`
(`ClaimIsTrue`) and `LibraryKeepsPromise` (`Promise`) about `SndFile`, for chunks and
headers of any size, encoders that keep back any number of samples, and disks that
become full and are relieved at any byte. None of the three is inductive. `LibInv` has
a part for each thing that has to be known of a file in between two writes:

* `CallInv`, what a call may count on: which stage it is in, what is left of its
  samples, and that a file that could not be opened is not written to;
* `WavInv`: the file is one header, claiming some number of frames, and then bytes of
  consecutive samples (`Wav(a, o, c)`). The header is written three times, and one that
  the disk refuses in the middle moves the byte that sample 0 lies behind; so that byte
  has to be a part of the invariant, and not the length of the header;
* `CodecInv`: for FLAC and Ogg the file is pages up to some sample, the queue holds the
  page behind it or its body, and what the encoder keeps back is what lies between the
  last page and what was handed over; on a disk that was never relieved no page is
  missing. `FlacInv` and `OggInv` add what is known of their headers.

What is heard of a file is a recursive function over its bytes. `WavHeard`, `PageHeard`
and `NothingHeard` say what the next bytes add to it, so that each write of the library
is shown to be one of `SoundFile`'s steps (`StoreTo`, `StoreAfter`, `StoreAfresh`), or
none. `HeaderAssumption` asks that tags make a header longer,
`RoomAssumption` and `BoundAssumption` that what the instance counts is counted in
natural numbers, and that a relief is one.

**LoadFileProofs** — `BufferIsNotExceeded` and `LoaderTypeCorrect`, for files of any
size and content (`FilesAssumption`: whatever numbers stand in the chunks and pages,
what is decoded comes from the sound). The invariant `IInv` has a part for each
format. For the cache it says that what was handed out was cached and that what is
cached fits; `ReadStaysInCache` and `SeekStaysInCache` show that of any read and jump,
negative ones included, and each step of the parser is a few of them. For Ogg the
arithmetic is non-linear: the frames that still fit, times the channels, are no more
than the room left. For FLAC a piece ends within the buffer and what is copied within
the piece. Where a format leaves off and the next begins, `PlaceInv` says that there
is no buffer before the handle is valid, and that the channels are known when it is
made.

**ConvertProofs** — `MainObeysMixer`: every behaviour of main is one of `Mixer`. The
obligation with content is that the span `SampleAt(bar) - tick` is within `0 ..
MaxTick - tick`: the invariant says that after bar b the mixer's tick (plus the span
in progress) is exactly the sample position of b, and the bars are in ascending order,
and `\div` is monotone. `MainKeepsIndices` composes it with `IndicesStayInRange`: in
the program as a whole, the mixer's unchecked indices are in range. `ConvertsChart`
(`RendersChart`): the output is the sum of the notes' sounds by the chart's own
definition. `ScoreInv` says that while the bars are walked through the sounds are
those that were loaded (`Loaded`), each channel plays what the last note of its word
before the present bar struck, from that bar's sample on (`HeadsRight`), and the
accumulator is the score up to the tick (`Recorded`); MixUntilEnd then ends where the
score does (`EndReached`), and shift and resampling are applied to the whole of it
(`MusicRight`), at every speed; what is taken from behind the music is excepted.
`ChartFilesAreKept` (`NamedSoundsSurvive`).

Assumptions worth knowing: the constants' ASSUMEs are in the modules that declare the
constants. `WORD_MAX_COUNT <= MIXERSIZE` (the program has 1296 channels, and words of
two base-36 digits), `ChartAssumption`'s ascending bars, and even `SAMPLECHUNKSIZE`
are the ones that carry weight. `MaxTick` bounds the state space of TLC; the theorems
hold for each value of it. Integers are unbounded in the models; that an int suffices
for the accumulator is what `Headroom` shows (1296 channels of 16 bits), and that one
suffices for `tick` is not shown (music of more than 6 hours exceeds it).

Only model-checked: the refinement of `SoundInput`; and that loading, saving and
converting end, which is liveness and out of the prover's reach.

## Disagreements with the documentation

Each has a run that ends in a counterexample, and a property whose comment quotes the
text:

1. The comparison of output and key sounds ignores the `.ogg` that is read instead
   (`bmx2wav_main.cpp:220`, run `convert_ogg`).
2. `-pitch p` hands smbPitchShift the factor `-p/12`, whose documented range is 0.5 to
   2: with `-pitch 12` bins before the first one are written, with `-pitch -12`
   nothing is shifted (`audio.cpp:153`, run `spectrum_pitch`).

Seen while reading or shown by a property's exceptions:

* `-norm` does not normalise: `std::max(1.0, limit / sample)` is always 1
  (`audio.cpp:252`; `NormalizingChangesNothing`).
* `-rate` at 1/2 and below reads behind the end of the music (`audio.cpp:135`;
  `ReadsInRange` and `ReadsStayInRange` say from which speed on it does not, and
  `NoNewJunk` that nothing but that brings in what nobody has written).
* Music of an odd number of samples is reported as unwritable: libsndfile refuses the
  last piece (`audio.cpp:66`; `ResultIsHonest`).
* Without `-o` and `-ob` the output goes to the directory of the program, or to one with
  the program's name if that was given without a directory; the help and
  `src/README.md` say the current directory (`bmx2wav_main.cpp:81` and `51`). `-oc`, which
  is to choose it, does nothing, even after `-o`.
* With the automatic name, which is the default, `-o` and a bare file name puts the
  output into `/`, with the last letter of the name behind it if it has no dot
  (`bmx2wav_common.cpp:126` and `125`; `KeepsPlace` states the root directory).
* A dot in a directory of the output path, and none in the file's name, is taken for
  the extension's, so that the automatic name changes the directory
  (`bmx2wav_common.cpp:123`; `KeepsPlace` excepts it).
* `-ogg` does nothing, even after `-wav`, and the help's `-autofn` is not an option
  the parser knows; `-o x.wav` writes an Ogg file of that name; `overwrite` is always
  true, so the test for an existing file is dead; `get_filedir` of a bare chart name
  is that name, so such a chart's key sounds are not found; main goes on when the
  chart cannot be parsed; empty music "written" to a file that cannot be opened counts
  as success; an empty `-o` argument is undefined (`back()` of an empty string). Two
  spellings of one path are different outputs to main.
* The pitch-shifted music begins with a frame of silence and lacks as much of its end,
  and interleaved stereo is treated as one signal.
* Writing: what an encoder of FLAC or Ogg loses when it writes later than it counts is
  not noticed, and vorbis_write counts what it was given in any case; a full disk that
  is relieved before the next call can leave a hole in a WAV file that is reported as
  written; a FLAC file whose header cannot be written crashes the process at the first
  samples; music without samples gives a FLAC file of 0 bytes, and a WAV file with
  tags whose RIFF size is that of the header without them.
* Reading: a second `fmt` chunk is not skipped; of more than 20 cues before the
  samples only 20 are stepped over, and a string of 512 bytes or more in a LIST is
  followed by a jump over the whole LIST, so such files are not loaded, or not whole
  (they are not "plain" in `WavFile`); the length of a chained Ogg file counts all its
  streams while one is read, and what is behind stays unwritten memory; a FLAC file
  without a number of frames is loaded as empty; the state of a sixth Ogg stream is
  not initialized.

## Not modelled

* **BMS parsing** is a submodule that is not in the repository. `Convert` takes what
  main reads of it as the constant `Charts`.
* **libFLAC, libvorbis, libogg** are not in the repository either. An encoder takes
  samples and gives them to the write callback whenever it likes, in order; a decoder
  gives the frames of what is whole, and what it likes of what is not.
* **Of libsndfile**: the formats other than WAV, FLAC and Ogg/Vorbis and the codings
  other than PCM (nothing in the program asks for them when writing; it could read
  them), RIFX, the insides of bext, cart, smpl, acid, PEAK and exif chunks, sizes of
  2^31 and more, FLAC files with more than two channels, and the calls the program
  does not make: these are the larger part of the library's lines.
* **Tables**: `src/include/iconv` (Windows build only) is character tables, by far the
  largest part of the repository's lines: data, without a state to model.
* **Floating point**: in `ChangeRate` it is taken as exact (a rounding error of a
  product could move one frame by one frame), and so it is in `Spectrum`; the clamp at
  the end of ChangePitch compares shorts with the range of a short.
* **Exceptions, resources and some path helpers** are called by nothing.
* malloc returning null for lack of memory, and counts of samples beyond an int: the
  program never looks.

## Plan

Done: the modules above, in the order Mixer, Resample, AudioData, SaveFile, Options,
Convert, PitchFifo, Spectrum, SoundFile and SndFile, SoundInput and LoadFile.

Proved: every safety property of Mixer, Resample, AudioData, SaveFile, Options,
Convert, PitchFifo, Spectrum and SndFile, and of LoadFile the bounds; the refinements
of SoundMix, SampleList and SoundFile.

Next, in this order:

1. `LoadFile` implements `SoundInput`, for each of the three formats.
2. `AudioData`'s LoadFile over `SoundInput`, as `SaveFile` is over `SoundFile`, and
   main's first part (`parse` and the automatic name) composed with `Convert`.
