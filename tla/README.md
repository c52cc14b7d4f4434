# Verification of the MongoDB MySQL authentication plugin

This directory holds TLA+ models of `mongosql_auth`, the client plugin with
which a MySQL client logs in to the MongoDB BI Connector, the TLC
configurations that check them on small instances, and theorems about them that
TLAPS checks for every instance. Paths below are relative to
`src/mongosql-auth/` of the repository.

## The system

`mongosql_auth` (`mongosql-auth-plugin.c`) is called by libmysqlclient in the
thread that opens a connection. It exchanges packets with the server through
the `vio` of MySQL, which blocks:

    server                                plugin
      auth-data (version)            ->   _mongosql_auth_start
                                     <-   one empty packet
      mechanism, num_conversations   ->   creates the conversations
                                          while (!is_done) {
                                            _mongosql_auth_step
                                     <-     _mongosql_auth_write_payload
      a frame per conversation       ->     _mongosql_auth_read_payload
                                          }
                                          return CR_OK or CR_ERROR

One login runs several *conversations* at once, one for each server behind the
BI Connector. They use the same mechanism, user and password, and each payload
carries one frame for each of them, finished or not.

### Components

| component | source | state | operations | what makes it correct |
|---|---|---|---|---|
| driver | `mongosql-auth-plugin.c`, `mongosql-auth.c` | status, first error, conversations, the call's position | init, start, step, write_payload, read_payload, has_error (which also adopts errors), is_done, destroy | CR_OK only after all are done and the server knows; the first error stays and is named; no read that nobody answers; no half updated buffer is read; it returns; payloads hold every message |
| conversation | `mongosql-auth-conversation.c` | mechanism, buffer and its length, done, status, message | init (which cuts parameters off the user name), step (one per mechanism), set_error, destroy | done and failed ones are left alone; lockstep; the buffer holds what its length says; the parameter found is the one given |
| SCRAM client | `mongoc/mongoc-scram.c` | step, nonce, keys, transcript | start, step2, step3, SASLprep | done means agreement with the server; minimum iteration count; nothing is written past a buffer; the proof is never dropped; preparing a password leaves nothing behind |
| GSSAPI client | `mongosql-auth-gssapi.c` | target name, credentials, context, last status; SASL state | client_init, negotiate, username, wrap, destroy, log_error | whatever is obtained is released; the first failure is reported; credentials are the user's |
| SSPI client | `mongosql-auth-sspi.c` | the same, and the table of SSPI's functions, **shared by all conversations of all threads** | sspi_init, and as GSSAPI, on Windows | as GSSAPI; no failure of a login makes a step of it call through a table that is not loaded |
| base64 | `mongoc/mongoc-b64.c` | the decoder's place; the reverse map, **shared by all threads** | ntop, pton, initialize_rmap | inverse of each other; stays in the target; the unlocked map never yields wrong values |
| CNG | `mongoc/mongoc-crypto-cng.c`, `mongoc-rand-cng.c`, `mongoc-crypto.c` | global provider handles, **shared by all threads** | init, cleanup, hmac, hash, rand_bytes | a handle in use is open and of the right kind; a connection is not left without one |
| MD5 | `mongoc/bson-md5.c` | bit count, buffer, digest | init, append, finish | hashes the padded message, wherever it is cut |
| helpers | `mongoc/mongoc-misc.c`, `mongoc-memcmp.c` | none | strtoll, memcmp, hex_md5, strdupv_printf | equal to a reference |
| other crypto and random bytes | `mongoc/mongoc-crypto-openssl.c`, `-common-crypto.c`, `mongoc-rand-*.c` | none between calls | | |

The components interact by calls: the driver steps conversations, a
conversation steps its mechanism, SCRAM uses base64, crypto and the helpers.
Results travel through the conversation's buffer (each step replaces its input
by its output) and through the status fields (a mechanism's failure becomes the
conversation's error at once and the driver's at the next `has_error`).

### Hard behaviours

The code is sequential within a login; what is hard in it is

* *partial failure*: a loop over conversations, frames or library calls that
  stops in the middle, and handlers that still run afterwards because every
  handler of the loop runs once per round;
* *protocol order*: conversations with different numbers of rounds that share
  payloads, the done flag that must reach the server, the frame of a finished
  conversation;
* *boundaries*: sizes zero and maximal, 64 bit numbers put into an int, buffers
  filled to the last byte, leftover bits;
* *threads*: several connections opened at once share the reverse map of
  base64 and, on Windows, the CNG handles and SSPI's table of functions, all
  three without a lock.

Nothing is persisted and nothing is retried, so there are no crashes to recover
from and no timeouts. `PROJECT.json` lists the hazards at their lines.

## Modules

| module | models | builds on |
|---|---|---|
| `AuthOutcome` | what the caller of `mongosql_auth` relies on (abstract) | |
| `MongosqlAuth` | driver and conversations, mechanisms left open | refines `AuthOutcome` |
| `ScramLogin` | SCRAM in place, with a server | extends `MongosqlAuth` |
| `ScramBuffers` | the lengths of a SCRAM conversation's buffers | |
| `SaslClient` | what a library holds for a conversation, and calls that change it | |
| `GssapiClient`, `SspiClient` | the functions of either client | extend `SaslClient` |
| `SaslLogin` | GSSAPI in place, with the client it was built with | extends `MongosqlAuth`, instantiates both clients |
| `CngHandles` | threads opening, using and cleaning up the CNG providers | |
| `Iterations` | reading the iteration count: `strtoll` and its checks | |
| `Md5` | MD5's buffering, counting, padding and order of words | |
| `Texts` | the user name's parameters, `memcmp` | |
| `SaslPrep` | SASLprep with and without ICU | |
| `Packets` | the layout of payloads in bytes | |
| `Helpers` | one call of one of these five, for every small input | extends the five |
| `Base64` | encoder (a function) and decoder (a machine) | |
| `Base64Table` | threads filling and reading the reverse map | |
| `MC...` | values of the constants for TLC | the module of that name |
| `...Proofs` | theorems | the module of that name |

### MongosqlAuth

`pc` is the handler the loop enters next. `start` is split at its packets into
`ReadHandshake`, `WriteEmpty` and `OpenConversations`; `TestDone`, `Step`,
`WritePayload` and `ReadPayload` are the condition and the three calls of the
loop; `Finish` takes the status. Each action contains the early return of its
handler and the effect of every `has_error` in it (`AdoptError`). `Faults` says
what may go wrong outside: reads, writes, the version, initialising a GSSAPI
client, a step of a mechanism, memory.

A conversation has the code's `done`, `status`, `error_msg` and `buf_len`. `buf`
is abstracted to who wrote the buffer and `cap` to how much is allocated. The
client's messages are of length 0 or 1; the server's frames have any of
`FrameSizes`, with `MaxBufSize` in place of 65536. `step` counts the steps taken
(for SCRAM it is `scram.step`), `state` is the SASL state. SCRAM-SHA-1 and
SCRAM-SHA-256 behave alike here and are one mechanism. What a step of SCRAM or
GSSAPI answers is any of `Answers`; `ScramLogin` and `SaslLogin` say which.

Two things are parameters because the environment decides them.
`ReallocZeroIsNull` tells whether `realloc(p, 0)` frees and returns NULL, as
glibc and MSVC do. `MaxTokens` bounds a GSSAPI negotiation: the plugin goes on
as long as the library says `GSS_S_CONTINUE_NEEDED`; that a mechanism ends
within some number of tokens is the library's promise, and Kerberos needs one or
two.

### ScramLogin

Each action of the login is the action of `MongosqlAuth` with the variables it
also changes. Cryptography is symbolic: a key is the triple it is derived from,
a proof or a signature is the key with the transcript. Hence equality of
signatures is equality of passwords, salts, counts and transcripts, which is
what the hash functions are trusted for. The server is external. A correct one
keeps a session per conversation; with `Confused` it also sends the answer of
another session, or something that is no answer, or does not repeat the nonce.
`IntRange` is 2^32 in the code; TLC uses 16 with a minimum count of 4, which
leaves counts on both sides of the minimum, and counts that wrap around to it
from either end.

### ScramBuffers

User name, r value and the rest of the server's message have any length of
their sets. What is written between them has fixed lengths, of which the model
keeps the sums. The checks are those of `_mongoc_scram_buf_write`, and the one
unchecked write is the encoding of the proof. TLC uses the real 4096 and
lengths around each value at which a check changes its result.

### SaslClient, GssapiClient, SspiClient and SaslLogin

`mongosql-auth-sasl.h` makes the plugin use one of two clients, so `build` is
chosen once. A client is a record: the objects the library holds for it
(`held`), those it would not take back (`refused`), the last status (`stat`),
the length of its token and what is allocated for it; `cause` and `reason`
record the first call that failed in a handler and the call whose status the
error message describes. A function of the source becomes the set of clients a
call may turn a client into; `Then` is the early return after a failed call.
Any call in `LibraryFaults` may fail.

SSPI needs a table of functions that `sspi_init` loads when a conversation is
initialized (`functions`). It is one static variable of the process
(`mongosql-auth-sspi.c:121`). `InitSecurityInterface` may answer NULL for a
later conversation, which takes the table away from the earlier ones of the
login; and the `sspi_init` of any other login, in another thread, overwrites it
at any time, with a table or with NULL (`OtherLogin`). `functions` is `null`
when the table is NULL from the start or by this login's own doing, and `taken`
when another login wrote the NULL; the code cannot tell the two apart, the
properties do. A call through a NULL table ends the process (`Crash`), also
when the table is taken between the check in `sspi_init` and the call that
follows it (`CrashOpening`).

The handlers stay single steps, because all they do with the table is to call
through it. A write of another login between two calls of a handler is one
after the handler when it leaves a table, and when it leaves NULL the handler
crashes at its next call, which is `Crash` with the write before the handler:
what the dead process had done of the handler does not matter. In the opening a
write between the login's own write and its check looks like an answer of its
own entry point, and one behind the check is `CrashOpening` or comes after the
opening.

A handler of `MongosqlAuth` and the clients' answers are one step: `SaslOpen`,
`SaslClientStep` and `SaslFinish` are the actions of `MongosqlAuth` with the
clients they leave behind, and the conversation fails just when its client
does.

### CngHandles

`mongoc_crypto_cng_init` runs for every conversation, not once: it sets each of
four globals to 0 and opens a provider into it, while other threads compute.
Each read or write of a global is a step. A handle is the provider with the
thread and conversation that opened it, so no two are equal. `cleanup` passes
the address of the global instead of the handle, and examines SHA-256's hash
handle twice: it closes nothing (`Argument`, `Examined`). The digest functions
return without a digest when the global is 0; how a SCRAM step goes on then is
not part of this module. The generator of `mongoc-rand-cng.c` is a fifth
provider that is opened on first use.

### Iterations, Md5, Texts, SaslPrep, Packets and Helpers

Operators for functions without state between calls, each beside a reference
written without reference to the code: `Acceptable` (a text is a number of
which an int is left), `PaddedMessage` and `MixedIn` (RFC 1321), `Keys` and
`IsValueOf` (a parameter in a list), `ClientFrames` and `ServerPayload` (the
server's side of a payload). `Helpers` is the machine that makes one call, so
that a run compares every input of its sets.

Widths are parameters. In `Iterations` the end pointer that `strtoll` leaves
alone is a choice over what lies behind the pointer before the call: a
character, or an address that cannot be read, and then the process ends
(`Ended`). `Md5`
keeps as digest the sequence of words and rotations that were mixed in: two
digests are equal when the same words went through the same rounds, which is
what buffering, counting and padding decide. `SaslPrep` walks through the calls
of ICU with what each allocates and each early return frees.

### Base64 and Base64Table

The decoder reads a string that is chosen while it is read, so one run decodes
every string up to `MaxLength`. A character is its entry of the reverse map.
`target` has its real size, zero at first as the caller's is. `Bytes` is the
reference: the bits of RFC 4648, written without reference to the code.

In `Base64Table` every store to and load from the map is a step. Stores of a
thread take effect in program order; an implementation that reorders the store
of `mongoc_b64rmap_initialized` before the others is the mutant
`DeclareThenFill`, and breaks `NeverWrong`.

## Runs

| run | instance | states | shows |
|---|---|---|---|
| `plugin` | 3 conversations, 4 mechanisms, frames of 0, 1 and 2 with 1 allowed, all faults | 140 737 | the invariants of the loop, that every error has a cause outside, the action properties, the refinement of `AuthOutcome`, termination |
| `scram` | 2 conversations, 4 counts, 2 passwords, confused server, local failures | 50 156 | agreement and the iteration count |
| `scram_buffers` | 4096 bytes, both hashes | 701 | no write leaves a buffer, the proof is sent |
| `sasl` | 2 conversations, both clients; 9 of the 12 calls of GSSAPI and all 11 of SSPI may fail, other logins rewrite the table at any time | 228 253 | releases whatever ends the login and when, reports, contexts, the missing table |
| `cng` | 2 threads with 2 and 1 conversations, one provider that may fail to open | 426 670 | digests compute with open handles; a handle taken away comes back |
| `helpers` | longs of 10 bits, ints of 4, MD5 blocks of 16 bytes, user names of 6 characters, payloads of 2 messages | 119 890 | the helpers equal their references |
| `base64` | 8 characters, digits 0, 17 and 63, targets of 1, 4 and 7 bytes | 57 909 | decoder and encoder agree |
| `base64_table` | 3 threads, two decodings each | 130 161 | no wrong value, the map heals |

Why the bounds are enough:

* Three conversations are the least with a first, a middle and a last one,
  which the loops that stop in the middle need. Frames of 0, 1 and 2 with a
  limit of 1 are the empty, the largest and a too large one.
* Two conversations in `sasl` are enough for one to fail, to finish or to lose
  the shared table before, during and after the other's negotiation; `MaxTokens`
  of 2 has negotiations that are continued and ones that are not.
* Two threads in `cng`, of which one has two conversations: a thread's own
  second init after its first, and the other thread at any step of it. The
  unavailable provider makes the errors happen that are only logged.
* Digits 0, 17 (010001) and 63 make zero and non-zero leftover bits at both
  places of a group, and 8 characters make two groups.
* With longs up to 511 and texts of five characters, numbers end before, at and
  behind the overflow of either sign; with ints of 4 bits the cast changes
  counts in every direction. Messages of 0 to 70 bytes pass every place of a
  16 byte block several times, and the low word of one byte overflows after 32
  bytes. The 256 byte message is too large in the second byte of its length
  only. Names of six characters hold two parameters, or a name within another.

Deadlock is checked in `plugin`, `scram`, `scram_buffers`, `sasl` and `base64`.
The threads of `base64_table` and `cng` stop after their work and a call of
`helpers` returns once.

Canonicalizing a name, describing a status and releasing credentials do not
fail in `sasl` with GSSAPI: the first is the subject of `gssapi_credentials`,
the second only changes the message, and no release follows the third. No run
sets `HasPassword`, which would only replace the default credentials of
`gssapi_credentials` by an error.

Each of four runs finds one property violated that a comment or a message of
the repository states; `PROJECT.json` quotes the lines under `findings`:

| run | property | what happens |
|---|---|---|
| `echo` | `WritesClientMessages` | GSSAPI conversations that finish at different rounds: the finished one's frame is the server's own |
| `empty_frame` | `AllocationErrorMeansNoMemory` | an empty frame is reported as an allocation failure |
| `scram_nonce` | `NonceRepeated` | the nonce check does not end the step; `Agreement` still holds, because the transcript has the client's own nonce |
| `gssapi_credentials` | `CredentialsOfUser` | default credentials replace the user's when the user's name cannot be canonicalized |

What the models show besides, without a run of its own:

* The name of the user stays allocated when the name of the target cannot be
  imported (`mongosql-auth-gssapi.c:408`), and SSPI's copy of the target name
  always does: `HandlesReleased` names both as its only exceptions.
* The CNG cleanup closes no provider (`mongoc-crypto-cng.c:76`). Every
  conversation leaves four handles open, and just that keeps the digests of
  other threads safe: `ComputesWithOpenHandle` fails when cleanup closes what it
  examines, `SkippedOnlyWhileReopening` when it also resets the globals.
* Another login whose `InitSecurityInterface` fails takes SSPI's table away from
  every login of the process (`mongosql-auth-sspi.c:137`): a step of a login in
  which nothing failed then calls through NULL, and so may the opening.
  `OwnFailureCrashesInDestroy` shows that this is the only way a step does; what
  fails for the login itself leads to such a call in `client_destroy` alone.
* An iteration count without a digit makes step 2 read through a pointer that
  was freed or never set (`mongoc-scram.c:585`), which may end the process. No
  character it may find there makes a count of such a text, and no other text
  comes to this (`IterationsAreTheNumber`).
* The name of a parameter that occurs earlier inside another name or value hides
  the parameter (`mongosql-auth-conversation.c:316`): `FindsServiceName` says
  what is found instead.
* Step 2 casts the iteration count to an int before it compares it with 0 and
  with 4096 (`mongoc-scram.c:581`), so it answers counts that are too low or
  negative when what is left of them is large enough.
  `DoneMeansEnoughIterations` shows that no login finishes that way.
* An empty password is refused by a build with ICU and taken by one without
  (`mongoc-scram.c:887`).
* The frames of a packet are never compared with its length; `PayloadsArrive`
  shows that a well formed one is read just to its end.
* A server that asks for no conversations gets CR_OK at once
  (`mongosql-auth.c:124`); `OkMeansComplete` holds vacuously then.
* A GSSAPI negotiation that ends without an output token leaves the
  conversation without a buffer, which the comment at
  `mongosql-auth-conversation.c:249` does not expect; `BuffersFit` shows that
  its length is zero then.

### Fairness

`MongosqlAuth` and what extends it assume weak fairness of the next-state
relation: the thread that called `mongosql_auth` keeps running, and each
`read_packet` and `write_packet` returns, with a packet or an error. MySQL's
own timeouts and the end of the connection provide the latter; nothing is
assumed about what is returned. `Termination` holds under any faults, because
every round steps each unfinished conversation and a conversation takes at most
three SCRAM steps, one PLAIN step, or `MaxTokens` negotiations and a wrap. With
`ErrorHasCause` it also says that an exchange in which nothing fails outside
ends with CR_OK: it ends, and an error would need a cause (one of which is an
empty frame, where `realloc(p, 0)` is NULL).

`SaslLogin` assumes the same of the login's own steps (`LoginNext`) and nothing
of other logins.

`CngHandles` assumes weak fairness of a thread inside `init` only, where it
waits for nothing; a connection may stop anywhere else. `HandlesComeBack` needs
no more.

## Proofs

TLAPS checks each theorem below for all values of the constants, from the named
assumptions on the constants alone (`ConstantsAssumption`, `LoginAssumption`,
`BuffersAssumption`, `SaslAssumption`, `CngAssumption`, `IterationsAssumption`,
`Md5Assumption`, `TextsAssumption`, `PacketsAssumption`, `HelpersAssumption`,
`Base64Assumption`, `TableAssumption`), which state their types and, where the
code fixes them, their values. Three are more than types. A long is at least 10,
so that no first digit overflows. The minimum iteration count is positive: with
a minimum of 0 a text without digits would be taken for the number 0 when a Nul
lies behind the end pointer that `strtoll` left unset. The length of a message
fits the four bytes it is sent in.

* `MongosqlAuthProofs`: `Invariance`, that `IInv` is an invariant. It adds to
  the type invariant: nothing has happened before the conversations are opened
  (`Opened`); the loop steps only unfinished work and is left with an error or
  with all done (`Loop`); a conversation that is done has been reported except
  between its step and the next write (`Told`, which is what makes
  `OkMeansComplete` inductive: the loop's condition alone only says that all
  are done); every buffer holds its length unless there is an error
  (`Buffered`). There is one lemma per action, and lemmas on `AdoptError`,
  `SetError`, `ConversationStep` and `Distribute` that say what these leave
  alone. From it follow `TypeCorrect`, `OkIsComplete`, `ErrorsAreNamed`,
  `BuffersAreWhole`, `NoDrift`, `OwnMessages`, and the action properties
  `FirstErrorStays`, `ReadsAreOwed`, `FinishedStaysFinished`.
  `ErrorsHaveCauses` has a strengthening of its own, `Caused`: SCRAM's counter
  and SASL's states stay below their limits while a conversation is not done.
  `ImplementsOutcomeSafety` is the refinement of `AuthOutcome` without its
  fairness: each action maps to one abstract step or none.
* `ScramLoginProofs`: every behaviour of the login is one of the plugin
  (`LoginImplementsPlugin`), so `IInv` is inherited. `LoginInvariance` adds that
  a signature in a buffer was made by a session that accepted its client
  (`SignaturesAreMade`) and that a prepared client signs a transcript with its
  own nonce and enough iterations (`Prepared`). `LoginAgrees` and
  `LoginIterates` follow: in step 3 equal signatures mean equal keys and
  transcripts.
* `ScramBuffersProofs`: `BuffersInvariance`, with the least length of the
  transcript after step 1 as the strengthening. `ProofAlwaysSent` is the reason
  the ignored result at `mongoc-scram.c:620` is harmless: the transcript is
  checked to hold the server's message, which repeats the nonce and has salt
  and count, besides the client's, so the room the output buffer has left is
  more than the proof's. It holds for every buffer size.
* `SaslLoginProofs`, about either client:
  * `SaslLoginImplementsPlugin`: every step of the login is one of the plugin.
  * `SaslInvariance` adds the fate of a missing SSPI table to `IInv`
    (`MissingTableEndsLoop`): a table that is missing while there are
    conversations, and that no other login took away, was missing for one of
    them when it was opened, so that one carries an error and the loop ends at
    its first test. A write of another login cannot break this, because it
    leaves the table loaded or taken. `OwnFailuresCrashInDestroy` follows: with
    any number of conversations and other logins, a call through a missing
    table is made by `client_destroy` after the error was taken over, or
    another login took the table away.
  * `ClientsInvariance`: while the conversations run, each client is in order
    (`ClientOk`) and reports what failed (`Reports`). `ClientOk` says what a
    client may hold that the library was not asked to release yet: its context,
    target name and credentials, and the user's name after a failed GSSAPI init.
    It also says that whatever passed its init has credentials and that
    whatever passed its negotiation has a complete context with a target.
    There are lemmas for the calls of the library (`CallEffect`,
    `ObtainEffect`, `ReleaseEffect`, `QuietEffect`) and one for each function
    of a client; a step as a whole may add the context and nothing else
    (`Steps`). From it follow `HandlesAreReleased`,
    `FirstFailuresAreReported`, `FailuresAreNotSilent` and `ContextsBeforeWrap`.
* `CngHandlesProofs`: `CngInvariant`, that `CngInv` is an invariant. Its
  conjuncts beside the types: what a global names is open (`GlobalsOpen`), and
  so is what a thread has read from one (`HeldOpen`) and what the generator has
  (`RandomOpen`); a thread in the middle of anything has a conversation
  (`LiveCounts`); a global that is 0 although a connection has opened its
  provider is one that cannot be opened, or another thread is opening it again
  (`OpenedStay`).
  `DigestsComputeWithOpenHandle` and `DigestsSkippedOnlyWhileReopening` follow.
* `HelpersProofs`, for inputs of every length. A loop of the code is a recursive
  function here, and the prover knows neither that such a function exists nor
  what it computes. Both follow from induction over a *set* of numbers
  (`SetInduction`, from the well-foundedness of the naturals): `LoopExists`
  builds the function step by step, and an invariant of the loop is the set of
  the turns after which it holds. `HelpersReturn` is the invariant of the
  machine, that a helper returns what it makes of its arguments. With it:
  * `IterationsAreRead`: `StrtollStaysInLong` says that the cutoff refuses a
    digit exactly when the number with it is no long, for every width.
    `ScanTurn` carries the loop's invariant (`InScan`) through a turn: what has
    been read are digits, and the number is theirs and a long, or the next digit
    is the one that makes it none. Then the last turn has stopped, and either
    the end is not a digit and the number is the reference's, or the end is a
    digit, which step 2 refuses, and the reference's number, which more digits
    only make greater, is no long either. `EndIsStored` says that the end is set
    whenever a number begins in the text, so that only a text without digits
    makes step 2 look through the pointer it had before.
  * `SignaturesAreCompared`: the differences `mongoc_memcmp` collects are empty
    just when all bytes are equal, and its last line is zero just then.
  * `PasswordsArePrepared`: the walk through ICU's calls, one case per early
    return.
  * `ServiceNamesAreFound`: where the last `?`, the first occurrence of the name
    and the next `&` are, for any name, and whether the name is a parameter's or
    hides one.
  * `MessagesArrive`: the frames of a payload lie one behind the other
    (`FlattenLayout`), a length comes back from its four bytes
    (`LengthIsRead`), and both readers go from frame to frame
    (`ClientPayloadIsRead`, `ServerPayloadIsRead`, for any number of
    conversations; the machine has two).
  * `PaddedMessagesAreHashed`: wherever one piece of a message ends and the next
    begins, the digest holds the full blocks of what was taken, the buffer the
    begun one, and the two words the number of its bits (`Taken`). `AppendTakes`
    carries this through `bson_md5_append`, with one case per return;
    `CountAdds` is the carry from the low word to the high one, `BlockIsAdded`
    that a block adds the words and rotations of the RFC. The pieces are the
    message, the padding, which is the shortest (`PaddingIsShortest`), and the
    length, whose bytes `LengthIsWritten` finds in the two words. The theorem
    holds beyond the messages the code can take: both the count and the
    reference's length wrap at the width of the length.
  * `PaddingFillsBlock`: the padding of MD5 for every length of a message and
    every size of a block.
* `Base64Proofs`: `StaysInTarget`, for every string, digit set and target size.
  The strengthening (`Partial`) says which bits of a begun byte are still zero.
  `DecodesOnlyEncodings` is the whole contract of the decoder: it accepts just
  the strings that `ntop` makes and yields the bytes they were made of. Its
  invariant (`DecodingInv`) says what has been read (`HasRead`): some full
  groups of four digits, a begun one, then pads, and in the target the bytes of
  these digits and the begun byte. `EncodingIs` says what `ntop` makes of any
  bytes, group by group, and `GroupOfThree`, `GroupOfTwo` and `GroupOfOne` that
  the two agree on a group; the check of the leftover bits is what makes the
  last two hold.
* `Base64TableProofs`: `TableInvariance`, `NobodyReadsZeros` and
  `MapIsRepaired`, for any number of threads, digits and texts. For the last
  one, an entry that is invalid is one that some thread, still clearing or
  filling, is about to replace (`Mending`).

Only model-checked:

* `Termination`, `HandlesComeBack` and the fairness of the refinement: liveness
  is out of the prover's reach.

So every invariant and every safety property of a passing run is a theorem.

The type invariants of `ScramBuffers`, `Base64` and `Base64Table` are conjuncts
of the invariants proved.

## Not modelled

* The OpenSSL and Common Crypto backends and the other sources of random bytes:
  calls of libraries that keep nothing between them. `ScramLogin` takes a digest
  as a symbolic function.
* The ownership of the strings and buffers of a conversation and of its scram
  struct. The struct's are never released, which is listed as a hazard.
* Calls of malloc and calloc whose result the code does not look at.
* Parsing the server's first message into its parts (`mongoc-scram.c`, step 2):
  `ScramLogin` and `ScramBuffers` start from the parts.
* The arithmetic of an MD5 operation and its table of constants: a digest is
  the sequence of words mixed in.
* `strdupv_printf` and the SSPI client's texts of statuses: formatting.
* Characters above 127 in a base64 string where `char` is signed: `mongoc-b64.c:306`
  then reads below the reverse map. `Base64` models the build whose `char` is
  unsigned, where they are invalid (`Bad`).
* `pton_len`: the only caller passes a target.
* Logging, build files, installers and the unit tests have no behaviour to model.

## Plan

Done: `AuthOutcome`, `MongosqlAuth`, `ScramLogin`, `ScramBuffers`, `SaslClient`,
`GssapiClient`, `SspiClient`, `SaslLogin`, `CngHandles`, `Iterations`, `Md5`,
`Texts`, `SaslPrep`, `Packets`, `Helpers`, `Base64`, `Base64Table`, and the
proofs above. Left, in this order:

1. `ScramMemory`: who owns the strings and buffers of a conversation and of its
   scram struct, from init to destroy, on every error path.
2. The parsing of the server's first message as an operator of `Texts`, compared
   with a reference like the others.
3. Proofs: the refinement of a per-conversation abstract specification by
   `ScramLogin`.
4. What a SCRAM step does with a digest that was not computed, composing
   `CngHandles` with `ScramLogin`.
