# Verification of the resources library

TLA+ specifications of the C++ library under `src/` (namespace `CarbonResources`,
tools in `ResourceTools`), model-checked with TLC and proved with TLAPS. The code is
the reference; where a module abstracts it, this file says how.

## The system

A *resource* is a file with its relative path, checksum, location, size and
compressed size. A *ResourceGroup* is a document that lists resources. The library
makes groups from directories, reads and writes them (YAML, an old CSV format),
merges, compares and prunes them, packs the files of a group into a *bundle* of
chunks, and makes and applies binary *patches* between two groups. Everything is
called through `ResourceGroup` and its two subclasses or through the command line
program in `cli/`, on one thread. Files come from a directory (`LOCAL_RELATIVE`), a
directory laid out by location (`LOCAL_CDN`) or a server (`REMOTE_CDN`), through a
local cache.

| Part | State | Operations | What is hard | What makes it correct |
| --- | --- | --- | --- | --- |
| `ResourceGroupImpl` | list of resources, number, two totals, type, version | create from directory, import, export, merge, diff, remove | counters kept by difference, calls that fail half way, a total that may hold no value, wrapping arithmetic | counters describe the list; merge and diff lose nothing; exports can be read again |
| `VersionInternal`, `ParameterVersion` | none (tables) | compare, "is expected in version" | `>` is not an order | no export in an unsupported version |
| `ResourceInfo` | optional parameters | get/put data, import/export, copy | which parameters hold a value; base paths tried in turn | a checked read returns the recorded data |
| `Downloader` | file being written, clock | `DownloadFile` | broken transfers, retries, lost writes | ends in time; success means the file is there |
| `BundleStreamOut/In`, `CreateBundle`, `Unpack` | buffers, position in a stream of chunks | cut files into chunks, put them together | chunk and file boundaries | unpacking gives the files back |
| `CreatePatch`, `Apply`, `ChunkIndex`, `RollingChecksum` | positions in two builds, index of chunks | find matching chunks, record and apply patches | ends of files, offsets, source = destination, failures half way | applying gives the next build |
| file, gzip and MD5 streams | position, state | start, read/write, seek, finish | calls in a wrong order, end of file | nothing lost or doubled |
| `StatusSettings` | nested progress | `Update`, `RequiresStatusUpdates` | verbosity levels, nesting | progress stays in its range |
| documents | parameters that hold a value | export, import, copy a resource | what a version does not have, what a format cannot say | reading gives back what was written |
| command line | none | parse, call, print | none beyond the library | - |

Interactions: the group implementation calls `ResourceInfo::GetData`,
`GetDataStream` and `PutData` for file contents, which call the `Downloader` and the
file streams; `CreatePatch` walks the two groups that `Diff` fills in parallel;
`Unpack` and `Apply` are groups themselves and contain another group. Status callbacks
are called between the steps of every loop. Nothing runs concurrently in one
process; other processes meet only in the file system and the cache.

## Modules

* `Versions` - version comparison as the code writes it (`>` and `<=`), and the version
  `ExportYaml` writes. Proofs in `ResourceGroupProofs`.
* `Orders` - finite sets as the lists `std::sort` makes of them: an element is at the
  place its rank gives it.
* `ResourceLists` - sorting, `Merge`'s union, `Diff` and `DiffChangesAsLists`, as
  operators on sequences. Relative paths are numbers, to have an order. The standard
  algorithms are given by what they keep of every path: `AtPath` are the entries of a
  list with one path (`Selected` picks entries by their places), and a result is put
  together from such parts (`InPathOrder`). `std::sort` is not stable, so `SortedLists`
  is the set of possible results. What `Diff` does with resources it cannot copy
  (patches) is left out.
* `ListPairs` - two lists that grow as imports may make them grow, and what `Merge` and
  `Diff` promise of them. Proofs in `ListPairsProofs`.
* `Documents` - what a document holds, and what is read back from it: the table of
  `ParameterVersion.cpp` that says which parameter exists since which version, the
  parameters of every class of resource and of every kind of group, a YAML node or a
  CSV row as a function from its tags, and the export, the import and the copy of a
  resource. An operator that fails gives `Unset`. `ImportDocument` of what `ExportYaml`
  made is a second group to compare with the first.
* `GroupDocuments` - the first of the two lists as a group of each kind, with all the
  parameters its resources may have, and what is promised of its document, its rows and
  its copies (`DocumentsRestoreGroups`). Proofs in `ListPairsProofs`.
* `ResourceGroup` - the group objects of a program and all calls on them. `groups[g]`
  holds the members of `ResourceGroupImpl`: `items` is `m_resourcesParameter`,
  `number`, `total`, `totalC` are the three counters (`Unset` when the optional is
  reset), `type` and `version` the header. `call` is the call in progress with what
  its loop has still to do, `result` what the last call returned. A loop takes one
  step per resource, so that every early return leaves the state it leaves in the
  code. `AddResource`, `Plus`, `Minus` and `Without` are the arithmetic of
  `AddResource` and `RemoveResource`. Proofs in `ResourceGroupProofs`.
* `RemoteCache` - `GetData`/`GetDataStream` for `REMOTE_CDN`, which do the same, with
  `DownloadFile`. `served` is what each base path holds, `cache` the file on disk,
  `req` the call and the base path it is at, `pc` the point it has reached, `transfer`
  the clock, the pause and the last error of the download. The file may fail to open
  without anybody noticing (`OpenUnnoticed`): the transfer goes on and what arrives is
  lost. `faulted` is a history variable: something failed that was no server's content.
  Between any two steps the process may die (`Crash`).
* `Fetch` - what a caller may rely on: a call ends, and one that gave a checksum gets
  the genuine data or a failure. `RemoteCacheFetch` maps `RemoteCache` to it.
  Proofs about both in `RemoteCacheProofs`.
* `BundleUnpack` - `Unpack` and `BundleStreamIn`. The chunks of a bundle are cut from
  one stream, all files one after the other, and `m_cache` gets bytes at its end and
  loses bytes at its front only. So a byte is its position in the stream: `fetched`
  and `taken` are the ends of what went into the cache and out of it, `from` is where
  the current file began, and a length is a difference. Bytes at different positions
  count as different, so a file counts as right only if its bytes come from its own
  place (and `faithful` says whether what lies there is what the group has the
  checksum of). `intact` and `sound` tell how far the fetched bytes are genuine:
  local chunks are not compared with their checksums and may be damaged, short, or longer
  than recorded (`Damages`).
  `next` is `chunkIterator`, `dataRead` is `m_dataReadOfCurrentFile`. `output` is what
  the call has made of every file: `good`, or `short` when all bytes were given to the
  stream and some were lost as it was closed.
* `BundleCreate` - `CreateBundle` and `BundleStreamOut`, on the same positions.
  `stage` is the place in `CreateBundle`, `input` the `FileDataStreamIn`, `data` what
  the inner loop of `<<` has still to write, `stream` the members of
  `BundleStreamOut` with the ends of the raw files it has made, which of its streams
  were opened, and opened again, and how many bytes were dropped for want of them;
  `disk` what the call has left at its destinations, and how much of the chunk its
  checksum was made from (`summed`). The outcome `crash` is the use of a stream that
  does not exist, `exception` one that leaves the call. The stage `endless` is the loop at
  `ResourceGroupImpl.cpp:1246`, if it ever found a chunk ready.
* `Bundle` - one program that calls `CreateBundle` and another that imports the
  document and calls `Unpack`: it extends `BundleCreate` and `BundleUnpack` and joins
  them by `Created`, the bundle that lies on the disk. Proofs about all three in
  `BundleProofs`.
* `FileStreams` - `FileDataStreamIn`: the position, and whether the stream is still
  open, after a read and after a seek. `Piece` is what a read gives.
* `Builds` - the two builds of a product as functions from paths to the bytes there, and
  the form of a patch package; what `PatchCreate` and `PatchApply` have in common.
  Here bytes are bytes (the constant `Byte`): whether a chunk occurs in another file is
  what matters. `IsPackage` says what the group inside a package is, whoever made it.
* `ChunkIndex` - `RollingChecksum`, the filter of the checksums that can be asked for,
  the index files with their sorted entries, the binary search, `FindChunkOffsets` (with
  what it reads behind the last entry: `unread`, any number), `FindMatchingChunk` (which
  adds no base to an offset) and `CountMatchingChunks`. The modulus of the checksum, the
  entries of an index file and the modulus of an offset (`OffsetModulo`, 2^32 in the
  code) are constants, so that small files collide, fill several index files and are too
  long for an offset. `CreatePatch` calls `FindMatchingChunk`; only tests call
  `FindChunkOffsets`. Proofs in `ChunkIndexProofs`.
* `PatchCreate` - `CreatePatch`: one step per chunk of the next file. `previousIn` and
  `nextIn` are its two streams, `dataOffset` and `sourceOffset` the loop variables
  `dataOffset` and `patchSourceOffset`, `patches` the group of patches it fills; a
  patch with data remembers the bytes it was made from (`base`), as the code does not.
  bsdiff is what `Patching.cpp` relies on: applied to these bytes, the difference
  gives the next bytes.
* `PatchApply` - `Apply`: `phase` is the place in it, `at` the resource its loop is at,
  `input` is `resourceDataStreamIn`, `temp` the temporary file, `destination` and
  `folders` the destination on the disk, where `FolderOf` is the folder of a path and
  `Above` the folders that one is in; the base path is a folder like the others. One step per piece that is read or written,
  per file that is opened or closed, and per removal. With `inPlace` the source is the
  destination itself. On a `troubled` disk every step may fail, the process may die
  between two of them, and closing a file may lose its end unnoticed.
* `Patch` - `CreatePatch`, then `Apply`, again when it has failed; the properties of
  both. Proofs in `PatchProofs`.
* `StatusJobs` - what every operation of the library sends to its `StatusSettings`, in
  order: a table, a line per `Update` or loop.
* `StatusSettings` - `Update`, `RequiresStatusUpdates`, `CalculateOverallProgress` and
  the destructor, run through that table. The objects of nested jobs form a `stack`;
  `heard` is the caller's last callback. Percentages are integers: `Unit` is 1% of the
  call, small enough for the parts of four nested jobs. Proofs in `StatusProofs`.
* `SequenceLemmas` - facts that several of the proof modules need: induction over a set,
  recursive functions, remainders, `FlattenSeq`, lists in another order, `Orders`.
* `ResourceListsMC`, `ResourceGroupMC`, `RemoteCacheMC`, `BundleUnpackMC`,
  `BundleMC`, `PatchMC`, `StatusMC` - the small instances.

Operators that a comment calls a plausible slip are mutated versions of the operator
that follows them. They are used by no specification; putting one in place of its
neighbour makes TLC find the property it belongs to violated.

## Runs

| Run | Asks | Bounds |
| --- | --- | --- |
| `resource_lists` | Does a merge keep every path and the merged-in entries (`MergeUnion`); can the latest state be rebuilt from what `Diff` returns, with its two results aligned (`DiffReconstructs`); are additions and subtractions exactly the disagreements (`DiffListsExact`); is a group what it was after an export and an import (`DocumentsRestoreGroups`)? | lists of at most 3 entries out of 5 resources with 3 paths, in any order, repeated paths included in `MergeUnion`: one path can be unchanged, one changed and one new at once; for the documents every kind of group with a plain resource, a chunk or a patch that has or lacks each optional parameter, in versions on both sides of every row of the table, as YAML and as CSV |
| `resource_group` | Do the counters describe the list after any calls, failed ones included (`CountExact`, `TotalsExact`, `TypeOK`), and is every export in a readable version (`ExportedVersionSupported`)? | one group, lists of at most 2, `uintmax_t` of 4 values so that totals wrap; documents stop an import at each of its checks |
| `resource_group_merge` | The same for two groups that are merged into each other. | two groups (symmetric), two entries for one path, with and without a compressed size |
| `resource_group_number` | Is `NumberOfResources` the number of resources? **No**, see below. | as `resource_group` |
| `remote_cache` | Is checked data right whatever is in the cache (`VerifiedDataIsExpected`); does nothing left in the cache make a call fail that could succeed (`CleanRequestSucceeds`); do the pauses fit in the retry time (`SleepWithinPeriod`); is a good file never dropped (`GoodFileKept`); does every call end, as `Fetch` says (`ImplementsFetch`)? | one location (locations share nothing), two base paths, contents of up to two blocks (enough to tell a part, the whole, and a part followed by the whole), 4 seconds of retries (the third pause is cut), transfers of 0 to 2 seconds, any number of calls |
| `remote_cache_retry` | Is a file that was downloaded the file of the server? **No**, see below. | the same, with a disk that never fails |
| `bundle_unpack` | Does `SUCCESS` of `Unpack` mean that every file is right (`UnpackRestores`); is a good bundle never refused (`CleanUnpackSucceeds`); does every call end (`UnpackEnds`)? | all bundles of up to 3 files, 3 chunks and 4 bytes with chunk sizes 1 and 2: files end inside, at and across the ends of pieces and chunks, empty files and chunks, files that lose bytes when they are closed; a file changed, a byte longer or shorter than recorded, a resource without a file, bytes missing at the end, and a third file behind what went wrong between two; local chunks damaged, short, or a byte too long (`MaxExcess`) |
| `bundle` | Does the chunk have all bytes (`ChunkIsWhole`); when does the call crash (`CrashExplained`); is the document last (`DocumentLast`); does `Unpack` give back what `CreateBundle` took (`RoundTrip`)? | up to 2 resources of up to 3 bytes, with and without a file, changed since the group was made or not; chunk size 1 or 2, pieces of 2 bytes, so that pieces are cut and a file ends inside one; every open, read and write may fail, also when the files of the chunk are opened again and read |
| `patch` | Is the checksum that is rolled the checksum of the window (`RollingIsExact`); does the index give every window, and no other offset but the one read behind the end of a file (`IndexExact`); is a chunk that is there, in the first index file, found (`ChunkFound`); do the patches rebuild the file at every turn (`PatchesRebuild`); does `SUCCESS` of `Apply` mean the next build (`ApplyRestores`); what is on the disk after a failure or a crash (`NoMixture`, `RemovalLast`); when can a call fail that met no fault (`FailureExplained`); which folders can be left empty (`NoEmptyFolders`); does every call end, or stay at a folder that cannot be removed (`ApplyEnds`)? | all pairs of files of up to 3 bytes out of 3, chunk sizes 1 and 2, a checksum modulo 4 and two entries per index file: chunks that match, collide, overlap the end of a file, and lie in the second index file; a file that is longer than offsets reach; once into a staging area, for up to 2 bytes twice in place; two builds with a changed, a new, an unchanged, an emptied and a removed file on a disk where every step may fail, two calls; every choice of files out of three in a folder and one below it, before and after, on such a disk; a build the package was not made for; a package of another tool with gaps between its patches and a patch behind the end |
| `patch_rewind` | Is a difference made from the bytes `Apply` will read for it? **No**, see below. | the same |
| `status` | Does a caller hear of the levels it asked for and of no others (`CallerInformed`); do the parts of a call join (`Seamless`); does the progress never go back (`NeverBack`) nor beyond 100% (`StatusTypeOK`)? | all 12 operations, groups of 0, 1, 2 and 4 resources (with exact percentages), up to 2 removed ones, files that are streamed or not, verbosity -1 to 4 (one more than there are levels), no callback; failure at any step |
| `bundle_chunk_size` | Is a chunk never larger than the chunk size? **No**, see below. | as `bundle`, with a disk that never fails |

`CHECK_DEADLOCK FALSE` is set for `resource_lists`, where lists stop growing at
their bound, for the runs of `BundleMC`, where `CreateBundle` is called once
and may have failed, so that there is nothing to unpack, and for the runs of `PatchMC`
and `StatusMC`, which end when all calls have returned. `resource_group` and `resource_group_merge` identify states that differ
in `result` only (`VIEW`): no action reads it. In `RemoteCache` the clock is
bounded by itself: a transfer ends the loop once `RetrySeconds` have passed.

Named bounds: `MaxItems` (guards of `Room` and of the enumerated inputs), `MaxUint`
(the width of `uintmax_t`), `MaxSeconds`, `MaxLength`, `MaxEntries`, `MaxFiles`,
`MaxChunks`, `MaxExcess` (how much too long a damaged chunk can be), `MaxRemoved`, `MaxDepth` (of nested jobs: `StatusTypeOK` checks that no call
has more), `calls` of a scenario (how often `Apply` is called). `ChecksumModulo`,
`BlocksPerFile` and `OffsetModulo` are small values of constants that are 2^16, 2^26 and 2^32 in the code.

### What the failing runs show

* `resource_group_number`: `RemoveResource` decrements the number
  (`ResourceGroupImpl.cpp:1962`), then returns when the resource has no compressed
  size; the resource stays. A group made without compression loses count with every
  attempted removal.
* `remote_cache_retry`: `DownloadFile` opens the file once, in append mode
  (`Downloader.cpp:80`), and retries into it. A transfer that breaks off and succeeds
  at the second attempt leaves a part of the content followed by the content. With an
  expected checksum (`Unpack`) the file is rejected, which `VerifiedDataIsExpected`
  confirms; without one (`CreateBundle`, `CreatePatch`) it is used.
* `bundle_chunk_size`: `BundleStreamOut` clears the compressed data
  (`BundleStreamOut.cpp:121`) before it compares their size with the chunk size. No
  chunk is ever finished before the end, and a bundle has one chunk with all files.
  `CreateBundle` relies on it: it never changes `m_chunksExported`, so a second chunk
  would make it export the first for ever (`CompressedBeforeClear` in the place of
  `CompressedHeld` shows what becomes of a bundle when the order is changed). Bundles with several chunks exist
  (`tests/testData/Bundle`), and `bundle_unpack` covers them.
* `patch_rewind`: when the previous file is the shorter one of a chunk but not of the
  file, `CreatePatch` starts it again ("in hopes of getting a good diff",
  `ResourceGroupImpl.cpp:1603`) and makes the difference from its first bytes. The offset
  the patch records, `patchSourceOffset`, goes on. `Apply` reads at the recorded offset,
  gives bspatch other bytes than bsdiff had, and refuses the file with
  `UNEXPECTED_PATCH_CHECKSUM_RESULT`: the patch was made successfully and can never be
  applied. `ApplyRestores` shows that no wrong file comes of it.

`CountExact` is stated under the condition that excludes the first of these: every
resource and the total have a compressed size. It says that there is no other way for
the number to go wrong.

### Three configurations beside the runs

Three more statements of the repository do not hold. The properties of the runs say
what is left of them; a configuration of each module gives a trace of the rest.

* `BundleChecksum.cfg` (`BundleMC`, `ChunkChecksummed`): `ProcessChunk` reads the chunk
  until a read fails (`ResourceGroupImpl.cpp:1040`) and does not ask whether that was the
  end. A read that fails gives the checksum of what was read before, here of nothing,
  where `resourceGroupFileFormat.rst:83` has the "data checksum of the uncompressed
  resource". The chunk is copied in full and can never be unpacked from a `REMOTE_CDN`,
  where chunks are checked.
* `PatchIndexFile.cfg` (`PatchMC`, `MatchIfExists`): the offsets in an index file are
  relative to its number (`ChunkIndex.cpp:177`). `FindChunkOffsets` adds the base of the
  file (line 309), `FindMatchingChunk`, the one `CreatePatch` calls, adds 0 (line 319). A
  chunk that only the second file knows is compared with other bytes and missed, where
  `ResourceGroupImpl.cpp:1642` says "We find a matching chunk if it exists". `ChunkFound`
  is stated for the first file; `PatchesRebuild` shows that a miss costs size only.
* `PatchFolders.cfg` (`PatchMC`, `NoFolderLeftOver`): `Apply` takes the parent path of a
  removed file once (`PatchResourceGroupImpl.cpp:717`) and removes that folder if it is
  empty, not the one it was in. With the only file in `a/b`, and nothing else in `a`, `a`
  stays, where line 716 says "Remove any empty directories left over". `NoEmptyFolders`
  says which folders stay.

### What the passing runs had to be told

The properties name the cases in which the code does not do what one would expect.
Each is a part of a property that a run would report without it.

* `FailureExplained`, second case: a match is as long as the window in the previous file
  (`ResourceGroupImpl.cpp:1660`), also when the next file ends inside it. `Apply` then
  copies more than the file has, and its checksum is wrong.
* `ChunkFound`: the digest of the previous bytes is made for the first candidate
  only, so that a window with the same checksum hides all others; and only windows in
  the first index file are sought at their place. This costs size and nothing else.
  A previous file of more than 4 GB (`OffsetModulo`) has windows that are sought at the
  wrong place, too: the property is about shorter ones.
* `IndexExact`: the walk from a hit to the last entry reads one entry more
  (`ChunkIndex.cpp:277`). The read fails, `current` is still the checksum if the entry
  before was a match, and the offset that is given was never initialized (line 283).
  `FindMatchingChunk` is not concerned: it never looks at a second candidate with success.
* `CrashExplained`: a stream that does not exist is used when nothing was streamed
  (`BundleStreamOut.cpp:182`), when the raw file could not be opened (`:42`) and when a
  file of the chunk could not be opened again (`:186` drops the result of
  `AddChunkFilesToGetChunk`; `ResourceGroupImpl.cpp:1040` and `:1054` use what it did not
  make).
* `ChunkIsWhole`, `RoundTrip` (`stream.opened`): if only the compressed file could not be
  opened, the bytes of that call are dropped, those after it are written, and the call
  goes on. `Unpack` refuses such a bundle: `UnpackRestores` is a part of `RoundTrip`.
* `NoEmptyFolders`: a folder that loses its last subfolder is looked at again only if one
  of its own removed files comes later in the list.
* `ApplyRestores` (`unnoticed`), `UnpackRestores` (`short`): a file that lost bytes when it
  was closed passes for written, since `FileDataStreamOut::Finish` does not look.
* `ApplyEnds`: the loop at `PatchResourceGroupImpl.cpp:718` repeats `remove` until the
  folder is gone, for ever if it cannot be removed (`FolderStays`). The property says
  that a call ends or stays at that loop, before a folder that is empty, on a disk that
  may fail.
* `NeverBack`: `Diff` divides the removed resources by the number of latest ones
  (`ResourceGroupImpl.cpp:2335`), so that the progress passes 100% or is not a number;
  `CreateFromDirectory` reports the progress of a streamed file as that of the call;
  `Apply` sends its warnings to the wrong object, with progress 0
  (`PatchResourceGroupImpl.cpp:712`).
* `StatusJobs` shows three more, which break no property because they are on the innermost
  level: `Unpack` sends the progress times the number of resources as the size of a
  part, `Apply` never counts the files it removes, and `RequiresStatusUpdates` compares
  with `<=` where `Update` compares with `>=`, so that messages are made for one level
  that is not sent.
* `DocumentsRestoreGroups`: a group without prefixes that is written as CSV is read back with
  paths that lack their first character (`ResourceGroupImpl.cpp:515`); a document of
  version 0.0.0 has no types, and a plain group with resources cannot be read from it; version 0.0.1 counts as
  later than 0.1.0 and is written as 0.1.0.
* `Documents`: the copy of a patch fails always, because `TypeId` is static and the
  copy compares it with that of a plain resource; the copy of a resource that is a group
  gives nothing and reports `SUCCESS`.

## Fairness

`RemoteCache!Spec` has weak fairness of `Proceed`, every step of a call but the
crash: the thread that runs the call goes on, and a transfer ends. The code sets no
`CURLOPT_TIMEOUT`, so the second half is an assumption on the network (curl detects
closed connections), not something the program enforces. `Fetch!Spec` needs the same
of its one step `Answer \/ Die`.

`BundleUnpack!Spec` has weak fairness of `Proceed`, every step of a call: one thread
runs it, without waiting for anybody (the calls to `GetData` end, which is what
`remote_cache` shows). That `UnpackEnds` follows is not obvious: a round that takes no
byte and fetches no chunk would be repeated for ever.

`PatchSpec` has weak fairness of `ApplyStep`: a call of `Apply` is a loop on one thread that
waits for nobody. It does not include `CallApply` (the caller may never call), `Crash`,
nor the removal of a folder: on a disk that may fail nothing says that a folder that
could not be removed (`FolderStays`) can be removed later. Only on a disk without faults
is `RemoveFolder` fair too. Nothing is assumed of `CreatePatch`.

The other modules claim no liveness: their loops run over finite lists. In
`BundleCreate` a loop without end is a stage of its own that `BundleTypeOK` excludes.

## Proofs

All theorems are about every value of the constants that satisfies the named
assumptions below. Every invariant was checked with TLC on the runs' instances before
it was proved.

**Groups** (`ResourceGroupProofs`)

* `ExportedVersionIsValid`: both clamps with the code's `>` end in a valid version;
  with the type invariant, `ExportedVersionCorrect`.
* `TypeCorrect`: inductive as it stands, with lemmas for the lists the algorithms make.
* `CountCorrect`: `CountExact` alone is not inductive: an addition could wrap the
  number. `CountInv` adds `Fits`, that the list and what a call will still add stay
  within `MaxItems`, which is at most `MaxUint`.
* `TotalsCorrect`: the code adds and subtracts sizes one by one, with wrapping, in the
  order of its calls; the property sums over the list. Wrapping is counting modulo
  `MaxUint + 1` (`PlusWraps`, `MinusWraps`), a removal anywhere takes exactly its size
  from the sum (`TotalShortened`), and the sum does not depend on the order a sort
  leaves (`TotalRearranged`).

**Merge and Diff** (`ListPairsProofs`), for lists of any length

* The three set operations are described by what they keep of each path: `UnionFacts`,
  `DifferenceFacts`, `IntersectionFacts`, from `InPathOrderFacts` (a list put together
  from parts has these parts) and `AtPathConcat`.
* `MergeUnionCorrect` follows path by path, repeated paths included.
* `DiffFacts`: `Diff` finds exactly the resources that are new or have other data
  (`Latest`), aligned with their counterparts, and exactly the paths that are gone. From
  it `DiffReconstructsCorrect` and `DiffListsCorrect`; both need that an entry is found
  by its path (`OnlyEntry`), hence `UniquePaths`.

**Documents** (`ListPairsProofs`), for any number of resources and any values

* Only two versions are written (`DocumentVersions`: both clamps, with the code's `>`),
  and the table expects everything in the later one, and all but the types and the
  parameters of packages in the earlier (`ExpectedParameters`,
  `ExpectedGroupParameters`).
* `ExportFacts`, `ImportRestores`: a node is what the resource has of the expected
  parameters (`NodeOf`), and what it lacks is what a new object has. `CreateRestores`
  is where version 0.0.0 fails: without a type no class is found.
* `ExportGroup`, `ImportGroup` put nodes together to groups (`CompleteGroup`), with
  `ImportOwn` for a chunk size, removed paths and the group a package is made of;
  `RowRestores` is about CSV and `CopyRestores` about copies. `DocumentsCorrect`
  follows.

**Reading through the cache** (`RemoteCacheProofs`)

* `TypeCorrect`: inductive as it stands; it includes that a base path is left outside
  `check`.
* `VerifiedCorrect`: needs `ReadIsVerified`, that a checked call which is about to read
  has compared the file.
* `CleanCorrect`: needs to know that every base path passed so far could not have
  satisfied the call (`TriedInVain`, `Useless`) and that without a fault the file
  follows what the server gives (`FileFollowsServer`), whatever was in the cache.
* `SleepCorrect`: needs `SleptBefore`, that the clock, and the reading of it a pause
  is computed from, has seen all earlier pauses.
* `GoodFileCorrect`: an action property, from the type invariant.
* `SafelyImplementsFetch`: `SafeSpec => Abstract!SafeSpec`, one step per action, from
  `VerifiedInv`.

**Bundles** (`BundleProofs`)

* `TypeCorrect` of `Unpack`: inductive as it stands; the lemma `TakenFacts` says that
  `>>` gives no more than the cache holds, also when the difference it computes is
  negative.
* `RestoresCorrect`: needs `PassedAreGood`, that the loop leaves only files behind it
  that were given what was recorded, for all bundles, whole or not, and all damages.
* `CleanCorrect`: needs to know where everything is. Between two files the cache
  begins where the next file does and `dataRead` is 0 (`BetweenFiles`); in a file
  `dataRead` is what was written of it, or the file is full (`InFile`); before a piece
  is taken the cache holds a full piece or all that is left (`Enough`), because every
  chunk but the last is at least a piece long. `TakeFacts` carries this over one `>>`.
* `BundleTypeCorrect`, `ChunkCorrect`, `CrashCorrect`, `DocumentCorrect`: the invariant of
  `CreateBundle` has four parts, the loop with its input (`LoopInv`), where the bytes of
  the resources are in the stream (`SpansInv`), that the one raw file has all bytes read
  but those not yet written and those dropped (`StreamInv`), and what is on the disk (`DiskInv`). That the stage
  `endless` is never reached is a consequence: the buffer that is compared with the
  chunk size has always been cleared.
* `RoundTripCorrect`: `BundleInv` joins the two programs. The bundle `CreateBundle`
  leaves is `WellCut`, so that what is proved of `Unpack` for all such bundles holds
  for it.

**Patches** (`PatchProofs`, `ChunkIndexProofs`)

* `RollingCorrect`, `IndexCorrect`, `ChunkFoundCorrect`: the rolled checksum is the
  checksum of the window (an identity modulo `ChecksumModulo`, along the recursion of
  `Generate`); the index files hold all windows that are asked for, in order and
  without a gap between files; the binary search and the walk to both sides of it give
  all entries with one checksum (`OffsetsOfIndex` says the same of what is read behind the
  last one); the first candidate is a window when the first file has one
  (`FirstFileFacts`).
* `PatchesCorrect`: `CreateInv` has the pair of files (`PairInv`), that only pairs the
  loop has come to have patches (`ListInv`), the two streams (`StreamInv`: the one in
  the next file is where the loop is, the one in the previous file need not be) and the
  index (`IndexInv`).
* `MixtureCorrect`, `RestoresCorrect`, `FoldersCorrect`, `RemovalCorrect`: `ApplyInv` holds
  for every package, made by `CreatePatch` or not, for every build and all crashes. Its
  parts: the lists of the package (`PackageInv`), the loops (`PlaceInv`), that nothing
  but a checked temporary file is copied (`CopyInv`), that files behind the loop are in
  place (`PlacedInv`; a package may list a file twice, which is then written again),
  what was removed (`RemovedInv`), and that an empty folder is one the rest of this call,
  or the next, will look at, or one that has lost a subfolder after its own files
  (`FoldersInv`).
* `PatchTypeCorrect`: `TypeInv`, the two invariants with the types of the streams.
* `FailureCorrect`: for the packages `CreatePatch` makes. `ChainInv` says that the
  patches of every file join and make all of it, `OwnInv` that the package is the one
  that was made, `ProgressInv` that the temporary file of an undisturbed call is what
  the patches so far rebuild of the previous file. A package of another tool can fail
  in other ways; for those of the run's scenarios TLC checks the property.

**Status** (`StatusProofs`)

* Facts about the table of `StatusJobs` come first (`TableOK`): every line names a job
  that exists, parts lie in the range of their job. `StackInv` says that the stack of
  objects is a path through the table.
* `CallerIsInformed`: `InformedInv` relates the last callback to the objects that are
  open: an object is announced exactly when all objects below it are.
* `PartsAreSeamless`, `StatusTypeCorrect`, `NeverGoesBack`: the first by the table; the
  others by the arithmetic of nested ranges (`Worth`, `Parted`: a job of depth d has its
  share of `Unit`; `Rooms`, `ReachedOK`: what was reported is not beyond where the
  next part begins).

Induction. The library's induction theorems take an operator as a parameter, which the
installed provers cannot instantiate. `SequenceLemmas` derives induction over a set
from the fact that a non-empty set of numbers has a least element, and from that what
recursive functions, `FlattenSeq` and `Ascending` compute for every input.

Assumptions: `BundlesAssumption` (files and chunks lie side by side and no chunk but
the last is shorter than the chunk size: `WellCut`, which `BundleTypeCorrect` proves of
what `CreateBundle` makes), `SourcesAssumption`, `EntriesAssumption`,
`NothingAssumption` (`Bundle` imports no bundle but the one it has made),
`ScenariosAssumption` (what builds are, and that a package of another tool has the form
`IsPackage`), `FoldersAssumption`, `NoResultAssumption`, `ChunkIndexAssumption` (a
modulus and room for entries of at least 1), `FilesAssumption` (paths have an order),
`CallsAssumption`, `NotFiniteAssumption`, `ResourcesAssumption`, `SizesAssumption`,
`SentinelsAssumption`, `DocumentsAssumption` (what a resource, a width and a document
are), `GoodAssumption`, `ContentsAssumption`, `NumbersAssumption`, `DiskAssumption`,
`NobodyAssumption`, `ParametersAssumption` (what the parameters of resources are; a
compressed size or an operation of 0 is no value in a row of CSV) and `UnsetAssumption`
(no value is not the value of anything). TLC evaluates them in the runs.

Only model-checked: `FailureExplained` for packages that `CreatePatch` has not made; and
liveness, which TLAPS does not reason about: `UnpackEnds`, `ApplyEnds` and the liveness
half of `ImplementsFetch`.

## Not modelled

* Null and empty parameters, texts of errors and of status messages.
* Resource types other than plain resources and patches in a group that is merged:
  the copy of a bundle or group entry in `ResourceGroup` (`Documents` has it).
* In `RemoteCache`: errors when the cached file is read to be compared; another
  process that uses the same cache.
* In `BundleCreate` and `BundleUnpack`: the content of the compressed file (and so writes
  to it that fail, and the chunk for a `REMOTE_CDN` destination, which is a copy of it), two resources at one path, reading the group inside a bundle
  beyond success or failure, a `fileReadChunkSize` of 0 (the stream would return empty
  pieces for ever) and an imported chunk size of 0.
* In `PatchCreate` and `PatchApply`: the inside of bsdiff and bspatch; a write of a patch
  or an index file that fails half way (that an index file cannot be made at all is
  modelled); two patches with one checksum, which are one file; remote sources, whose
  failures are those of `RemoteCache`; folders that are empty before the call; groups that
  do not describe their files.
* In `StatusSettings`: the rounding of floats.
* `GetGroupSpecificResourcesToBundle`, `IsParameterRequired` (nothing calls it), and the
  files that `CreateFromDirectory` can export while it reads them.
* MD5, gzip, yaml-cpp and curl themselves.
* The command line. It keeps no state: every operation parses its arguments, makes one
  to four of the library calls above one after the other, and returns at the first one
  that fails.

## Plan

All components but the command line are modelled, and all safety properties are proved,
`FailureExplained` for the packages of `CreatePatch` only. What is left:

1. `PatchApply`: which packages of another tool can be applied, so that
   `FailureExplained` can be proved for them too.
2. A read of 0 bytes at a time (`fileReadChunkSize` of 0), once it is said what it means.
