# TLA+ models of the SimpleFIN SDKs

Models, model-checking runs and machine-checked proofs for the Go and Node
SDKs of this repository, the generator that renders both, and the script that
compares them.

## The system

The repository generates two SDKs from one specification
(`spec/simplefin.yaml`) and templates. An application uses an SDK to exchange a
setup token for an Access URL (`claim`) and to fetch account data over HTTP. A
response is decoded strictly and normalized, so that both languages give the
same value for the same bytes; `scripts/cross-language-check.sh` compares them.

| component | state it keeps | operations | meets |
|---|---|---|---|
| SDK client over HTTP (`client.go`, `client.ts`, `errors.*`) | per call: timer, response body, result | `GetAccounts`, `Info`, `ResolveCurrency` over `getJSON` | network, server, timer |
| Claiming a setup token (`claim.*`) | none of its own; the server keeps whether the token is spent | `DecodeSetupToken`, `Claim` | network, server, other claimants |
| Account set normalization (`normalize.*`) | connections, ids seen, accounts so far | one pass over the accounts | decoder before it, application after it |
| Wire decoding and error folding (`normalize.*`, `models.*`, `errorcodes.*`) | none | `ParseAccountSet`, `normalizeErrors`, the Node parsing helpers | the client |
| Code generator (`cmd/simplefin-gen`, `internal/gen/gen.go`) | the working tree | `generate`, `verify` | developer, git, other shells |
| Cross-language check (`scripts/`, `cmd/canonicalize`) | counters of the script | two loops over the fixtures | generator, canonicalizers |
| Models (`models.*`, parsers of `normalize.ts`) | none | `UnmarshalJSON`, `parseTransaction`, `parseAccount`: fields and unknown keys of an object | the decoder |
| Specification (`internal/ir/ir.go`) | the loaded specification | `Load`, `validate` | the generator, before anything is rendered |
| View (`internal/gen/view.go`, `types.go`, `names.go`) | the lists of type parameters it collects | `BuildView`, `resolveUnknownParams` | the templates |
| Accessors, canonical JSON, query parameters (`models.*`, `canonical.*`, `params.*`) | none | rendered from the view, in both languages | the application, the check, the server |
| Templates, fixtures, `spec/simplefin.yaml` | none | text and data | |

What makes each correct:

* the client returns once, reports every refusal as one, never takes a cut body
  for an answer and leaves no timer or connection behind;
* a claim returns the URL only to the attempt that spent the token, and a 403
  always means that somebody else did;
* normalization gives every org with an id one connection that its accounts
  refer to, in both languages from the first account of the org;
* the decoders give the same verdict, fields, codes and messages in both
  languages on conforming responses, and lose nothing the server said;
* the generator's files are those the source renders when a command says so,
  and `verify` fails on a commit in which they are not;
* a specification that `validate` lets through is rendered so that the result
  compiles and both SDKs read, date, write and ask for the same things;
* the script passes only if it has compared something and all of it agreed.

What is hard here, and what the properties are aimed at:

* **order and time**: the timer, the response header, the body and a break of
  the connection may come in any order, and the two languages bound different
  parts of a call;
* **partial failure**: a body cut by the network, by the timer or, silently, by
  a read limit; a generator killed between truncating a file and writing it;
* **unreliable delivery**: a `POST` that spends a one-shot token after its
  caller gave up, or whose answer is lost;
* **interleaving**: several claimants of one token; several shells and a
  developer on one working tree;
* **agreement**: two decoders written apart, on every JSON kind in every field
  and on keys that are unknown, repeated, null or in another case;
* **order of passes**: the parameters of types that contain each other are
  collected in a fixed number of passes in the order of the file;
* **stale checks**: what `validate` checks and what the view and the templates
  take for granted of a specification are written in different files;
* **boundaries**: read limits, blank ids, globs that match nothing, epochs of
  zero and before, the first and the last step of an accessor.

`PROJECT.json` lists these hazards with their lines and the properties that
cover each.

## Modules

| module | models | proofs |
|---|---|---|
| `Exchange` | one call of either SDK, from request to result | `ExchangeProofs` |
| `CallContract` | abstract: what a call promises its caller | |
| `ExchangeRefinement` | the mapping of `Exchange` to `CallContract` | `ExchangeProofs` |
| `Claim` | several claims of one token; extends `Exchange` | `ClaimProofs` |
| `TokenContract` | abstract: a token that can be spent once | |
| `ClaimRefinement` | the mapping of `Claim` to `TokenContract` | `ClaimProofs` |
| `Normalize` | the normalization loop | `NormalizeProofs` |
| `Decode` | both decoders on one response | `DecodeProofs` |
| `Fields` | both decoders on the members of one object | `FieldsProofs` |
| `Ir` | the specification and what `validate` accepts | |
| `View` | `BuildView`: load, both passes, the arguments of fields; extends `Ir` | `ViewProofs` |
| `Rendered` | what the templates make of a finished view; extends `View` | `ViewProofs` |
| `Generator` | `generate`, `verify` and the script over a tree | `GeneratorProofs` |
| `CrossCheck` | the fixture loops of the script | `CrossCheckProofs` |
| `MC...` | values for the constants of each | |

Operators called `Faulty...` are defective variants of the definition they
stand before; a run in which one replaces it has to violate a property. They
are part of no specification.

### Exchange

`op[c]` says which function of which SDK the call is. `phase` follows the code:
`Start` builds the request and arms the timer (`http.Client.Timeout`,
`AbortController`); `Answer` is the return of `Do`/`fetch`, where Node clears
its timer and Go does not; `CheckStatus` is `statusError`; `Deliver`, `Break`,
`ReadFails` and `Finish` are the read of the body with the decode after it.
`Settle` is every return, with Go's deferred `Close`. `TimerFires` may happen
in every phase in which the timer is armed.

Bodies are counted in chunks and are of four forms (`Forms`), because that is
all the decoders tell apart here. Go reads through `LimitReader` (`Cap`), which
reports its limit as a plain end of file: `ReadAll`. A JSON body that is cut
there fails to decode; the text of a claim does not, so a URL above 64 KiB
would come back without its end. The model keeps this as result `clipped`.

Connections, redirects, the `Authorization` header and URL assembly are left
out. A canceled `context.Context` looks to the call like a lost connection
(`TransportFails`, `Break`). The idle limit undici itself puts on bodies is not
part of the SDK and not its `timeoutMs`; it is not modelled.

`CallContract` is stated from the doc comments of the public functions: a call
is made once, answered at most once, and returns once with a result permitted
by the answer. `KeepsContract` is the refinement; the mapping is in
`ExchangeRefinement`.

### Claim

Each attempt is one `Exchange` and one `POST`. `Serve` may happen after the
caller gave up, which is the case a retry inside the SDK would turn into a
self-made 403; `LosePost` before. The server is external: it records the first
`POST` it serves as the owner and forbids all others, as the doc of `Claim`
says. Gateways may answer by themselves with an error page or with a page of
their own and status 200, but not with a 403: a proxy's 403 is
indistinguishable from the server's.

`TokenContract` leaves the exchange out: an attempt is made once or declined,
some attempt that was made may spend the token, and an attempt returns once,
failed at any rate, with the URL only if it spent the token, and refused only
if another did or the server does not know the token. In the mapping every
phase between the start and the return is `made`, a token `DecodeSetupToken`
refuses is `declined`, and every error but the auth error is `failed`.
`KeepsTokenContract` says that each step of a claim is a step of the contract
or hidden from it.

### Normalize

One step is one turn of the loop; `AddConnection` and `NextAccount` are its two
outcomes. Strings are values with a `Trim` function, and an instance of the
module is one language: Go's `TrimSpace` and JavaScript's `trim` differ on
U+FEFF, which only the latter takes for white space, and U+0085, which only the
former does, so that an id with one of these at its end is derived differently.
What `Synthesized` copies of an org is represented by the org itself (`of`).

### Decode

`GoOutcome` and `NodeOutcome` are the two verdicts on one payload, with the
errors an accepted one yields. A payload has one field of each declared type,
an org, and the two lists `errlist` (v2) and `errors` (v1); a wire value is its
JSON kind. Message texts are represented by the field they come from. The
prefix and the subcode of an error code are of the set `Words`.

An error entry without a text is shown as its JSON, and the SDKs do not make
the same text of it: Go takes the white space out of what was sent, Node writes
the parsed value anew. An entry is therefore of one of two spellings: `plain`
if, white space aside, it is sent as JavaScript writes it, `other` if not (a
number such as `1.50`, an escape such as `\u00e9`, a key that comes twice, keys
that look like integers and are out of order). `CompactJSON` is `json`, the text
Node shows, for the one and `raw` for the other. Repeated keys are a matter of
spelling only here; which of the values is decoded is in `Fields`.

### Fields

An object is the sequence of its members. `Read` takes one: Go's decode into the
struct assigns it to the field its key spells in any case (`Fold`), leaves the
field alone for a null, and remembers a value of the wrong type but goes on;
Go's second decode, into a map, and `JSON.parse` keep the last value of each
exact key (`last`). `GoFinishes` and `NodeFinishes` are the rest of
`UnmarshalJSON` and of `parseTransaction`/`parseAccount`. Declared fields are
strings, numbers and booleans; `extra`, `transactions` and the optional
`available-balance`, a pointer in Go that a null resets, are left out. Values
are compared as JSON values: that JavaScript's numbers round is not modelled,
nor is the key `__proto__`.

### Ir, View and Rendered

`Ir` is `validate`: one operator for each of its parts (`NamesOK`,
`TypeAccepted` with `FieldOK` and `AccessorOK`, `OneRoot`, `CodesOK`,
`EndpointsOK` with `ParamOK`, `NormalizationOK`, `VersionsOK`) and `Accepted`
for all of them: the code collects every problem and any of them refuses the
file. A kind comes parsed (`kind`, `elem`), an error code split at its dots,
and `Rank` is the order `sort.Strings` puts the codes in. What is required of
docs, methods, statuses and the spelling of names is one flag (`complete`).

`View` loads a specification and then walks over its types as
`resolveUnknownParams` does: `Resolve` is one type in one pass, `NextPass` the
turn of the outer loop, `Finish` the rendering of the fields' arguments.
Parameters are known by the type that brings them and the lists are sets: a
declaration and the arguments that name it render the same list, so that their
order never shows. Types of one name are told apart by position, since
`validate` lets them through; `ArgsFor` takes the last of them, as the code's
map does.

The comment of the function says that a single pass is enough, that another
would find nothing new, and that a deeper model would have to iterate to a fixed
point; the loop makes two. `Shallow` is a condition, independent of which types
capture, under which two passes reach the fixed point: there is a set of *deep* types
that holds every type in front of one it contains (unless that one contains
nothing) and everything that contains a deep type, and no deep type is contained
in one in front of it. The types of `spec/simplefin.yaml` are shallow. Four
types that each contain the next later one are not: the first of them needs
three passes.

`Rendered` says what follows from a finished view in both languages: the codes
an unknown code falls back to, the accessors, the types of fields and the JSON
they are read from, the canonical form, and the query of a request. It follows
the templates and what they render in `src/sdk`: `GoReads` goes by the Go type,
`NodeReads` by the helper the Node template chooses. Texts are told apart only
by whether they are empty and whether they hold a character that Go escapes;
moments are counted in half seconds, so that the start of a second, the middle
of one and both sides of the epoch occur. The accessors of the two languages are
defined apart, as the templates render them: `GoAccessor` over `EpochToTime` and
an `int64` that is zero when nothing was sent, `NodeAccessor` over `EpochToDate`
and a number that may be undefined. `Seconds` are integers that a double holds
exactly; beyond 2^53 JavaScript rounds, and canonical output differs.

### Generator and CrossCheck

A command of `Generator` takes the source as it is when it begins, renders in
memory, and then writes (`Truncate`, `Fill`) or compares (`Compare`) file by
file. `Fail` ends it anywhere: a kill, a full disk, a template that does not
render. `Run` starts a job: a `generate`, a `verify`, or the three commands of
the script. The developer changes the source, edits generated files, commits
and checks out, at any time. `quiet` and `clean` are history variables that say
whether anybody disturbed a job. Rendering is a table (`Rendered`).

`CrossCheck` is the rest of the script: `set -e`, the counters, and bash's
treatment of a glob without a match (`Glob`).

## Runs

| run | what it asks | bounds |
|---|---|---|
| `exchange` | does a call return, once, with a permitted result, leaving nothing behind? | 1 call, 8 kinds of call, limits 1 and 2, bodies of 0 to 3 chunks |
| `exchange_stall` | does every call return? **No**: Node, body of a 2xx | the same |
| `claim` | does a 403 always mean somebody else, who gets the URL, and is a claim one attempt at a one-use token? | 3 attempts, URL of 2 chunks at a limit of 2 |
| `normalize` | unique ids, resolvable orgs, first account decides | up to 1 sent connection, 3 accounts, 7 orgs |
| `decode` | same verdict and errors on conforming payloads; the same errors, with the exceptions named, wherever both accept; no text lost; codes handled | pairs of odd fields; all entries alone; pairs of 20 entries over both lists |
| `decode_emptyMsg` | does Node keep every text? **No**: `"msg": ""` | one entry |
| `fields` | same fields and unknown keys in both SDKs, nothing lost, nothing invented? | every object of up to 3 members over 5 keys and 4 values |
| `view` | is every accepted specification rendered consistently, with epochs that are no integers as the only JSON taken in one language alone? | specifications that differ from a plain one in one part: any three types containing each other in any way, where all capture or only the last does; any four that contain at most one type each; any field; accessors of up to 3 steps; tables of up to 7 codes; up to 2 parameters of 14 |
| `generator` | what does a successful job say of the files and the commit, and what does a complaint of `verify`? | 2 shells, 3 sources, 3 files, 2 edits |
| `generator_script` | does the script guard the commit too? **No** | 1 shell, 3 edits |
| `crosscheck` | does a pass mean agreement, and a failure that a fixture is to blame? | up to 2 golden and 2 malformed fixtures, 2 outputs |
| `crosscheck_empty` | is an empty directory no pass? **No**: `spec/malformed` | the same |

Why the bounds suffice. Calls share no state in the SDK, so one call shows all
behaviours of `Exchange`, and several are needed only where they share the
token. Bodies are shorter than, equal to and longer than each limit. Three
claimants include one that gave up, one that owns the token and one refused.
Three accounts are an org's first, a repetition and one in between. Three members are a key,
its repetition or misspelling, and another key, in any order.
A part of a specification is used only where a property speaks of it, so varying
the parts one at a time loses no case; parameters of different types never meet
in the passes, so it is enough that all types capture or one does; three types
allow every cycle and a nesting that needs the second pass, four the shortest
one that two passes do not resolve. Two shells
and three files (two languages, one with two files) allow a job to be
interrupted before, inside and after a file of either language; two edits are a
change and its commit or its reversal. Calls, the script and the loops end, so
their runs do not look for deadlocks; the generator's does, as a shell can
always start another job.

The four runs marked **No** show the code at odds with a text of the repository;
the findings in `PROJECT.json` quote both. More disagreements were met and have
no run of their own:

* an error of the transport while Node reads a body (`client.ts:152`) reaches
  the caller unwrapped, against `docs/PORTING.md:58`; result `rawread`, which
  the refinement maps to the contract's read error;
* an `org` that is no object is refused by Go and passed over by Node
  (`normalize.ts:343`), and so is `errors` of a wrong type when `errlist` has
  entries; the helpers' comment promises the same verdicts. `Conforming`
  excludes both (`AcceptedAlike` does not: it speaks of every response both
  accept);
* a `msg` that is no string makes Node refuse the response
  (`normalize.ts:281`), for which the comment at line 290 gives the reason not
  to; an entry `null` in a list of errors has an empty message in Go and the
  text `null` in Node. `Conforming` excludes them too;
* an `org` that has only a name derives a blank id (`normalize.go:132`), so it
  gets no connection and its account no id; `normalize.go:82` says "One
  Connection is synthesized per distinct org", and `spec/simplefin.yaml` that a
  domain or a name is required. `OrgsResolve` speaks of orgs with an id;
* on a declared key in another case, and on one that comes twice, the decoders
  differ: Go decodes `Posted` into `posted` and keeps it as unknown as well,
  Node only the latter; a null after a value empties the field in Node only; a
  wrong type overwritten by a later right one is refused by Go only.
  `SameIfConforming` excludes both (`WellSpelled`, `NoRepeats`);
* an error entry without a text is shown as its JSON. Go's `compactJSON` keeps
  what was sent (`normalize.go:197`, `217`), Node's `JSON.stringify` writes the
  value anew (`normalize.ts:288`, `305`), so that `1.50` becomes `1.5`, `\u00e9`
  a letter, a repeated key single, and keys that look like integers move to the
  front; the comments at `normalize.go:194` and `normalize.ts:285` say that the
  text is "identical across language targets". `Conforming` excludes entries
  that are not spelled plainly, and the last disjunct of `AcceptedAlike` is this
  difference;
* `num` takes any finite number (`normalize.ts:71`), so that `1.5` or `1e3` for
  an epoch is accepted by Node and refused by Go, against the comment at
  `normalize.ts:23`; `Conforming` excludes it, and `OnlyFractionsDiffer` says
  that it is the only difference between the kinds of JSON that a field takes;
* an integer beyond 2^53 is exact in Go and rounded by JavaScript, and a string
  with a lone surrogate is kept by JavaScript and replaced by U+FFFD in Go; both
  are outside the models, whose texts and numbers are those both languages hold;
* `TrimSpace` and `trim` differ on U+FEFF and U+0085 (see Normalize);
* a claim answer above 64 KiB is returned without its end (`claim.go:80`), or
  rather would be: no property forbids it, and `UrlFitsAssumption` keeps it out
  of `Claim`;
* `validate` lets through fields of the kinds `ref` and `any`, which the Node
  template reads with `str` (`Rendering` excludes them), and parameters whose
  `unixSeconds` or `valueWithDefault` does not go with their kind, or whose wire
  name another one has (`ir.go:538`; `Encoded` and `OwnKeys`);
* a parameter with `valueWithDefault` must have a default, which is never used:
  both SDKs send `DefaultProtocolVersion`;
* a code such as `con.auth.` counts as naked (`ir.go:119`); of several naked
  codes of a prefix the last in sorted order is taken (`NakedForm`);
* `validate` asks neither for an endpoint `getAccounts` nor for a prefix `gen`,
  which the templates rely on, and takes a name twice within `types`, as long as
  one type is the root;
* Go escapes `<`, `>` and `&` in canonical strings and Node does not
  (`canonical.go:144`); the last conjunct of `CanonicalTellsApart` excludes it;
* `verify` does not look for files that an earlier source rendered and the
  present one does not.

### Fairness

Only `FairSpec` of `Exchange` assumes any: weak fairness of `TimerFires`,
`CheckStatus`, `ReadFails` and `Finish`, the steps of the runtime and of the
call's own code, which nothing outside can hold up. The server and the network
get none: they may never answer, never deliver and never break. Under it
`ReturnsOrReads` holds: a Go call returns; a Node call does too, unless it
waits for the body of a 2xx.

## Proofs

All theorems hold for every value of the constants that meets the named
assumptions: read limits of at least one chunk (`CapAssumption`); a URL that
fits in the limit (`UrlFitsAssumption`, without which `UrlGoesToTheOwner` is
false, see `clipped`); an owner `Nobody` that is no attempt; a `Trim` that
keeps the empty string; connections from the wire marked as sent; declared
names that spell themselves, and marks that are no values (`Fields`); types,
error codes, accessors and parameters that come as lists, and codes that have
a place in the sorted order (`SpecsAssumption`); a mark for what is
absent that is neither a time nor a text nor anything else that is sent
(`NothingAssumption`).

* **`ExchangeProofs`**. `TypeCorrect`, `RefusalsAreReported`,
  `CallsLeaveNothing`, `CutBodiesFail` for `TypeOK`, `RefusalIsReported`,
  `NothingLeftBehind`, `CutBodyIsNoAnswer`. They speak of settled calls only
  and are not inductive: `CallState` adds what each phase says of the other
  variables (no answer and no body before `checking`; a 2xx in `reading`; never
  more read than was sent, nor than Go's limit). `IInv` is their conjunction,
  with a lemma for each action. `ExchangeKeepsContract` proves the refinement:
  `SettleRefines` for every action that returns, `HiddenRefines` for those the
  caller does not see, and `RefusalPermitted` and `DecodedPermitted` for the
  results.
* **`ClaimProofs`**. Every step of a claim is a step of the exchange or leaves
  it alone (`ClaimStepIsExchangeStep`), so `IInv` carries over; `TokenState`
  adds that the server's replies agree with the owner it recorded and that a
  caller's answer is the server's or a gateway's. From both follow
  `ClaimTypeCorrect`, `RefusalIsSomebodyElses` and `OwnerGetsTheUrl`, for any
  number of attempts. `ClaimIsAnExchange` states the first fact of whole
  behaviours, so that every theorem of the exchange is one of the claim.
  `ClaimKeepsTokenContract` proves the refinement, by one lemma for each kind
  of step: that a return is permitted needs `TokenState`, for the answer says
  who spent the token, and `IInv`, for the result says what the answer was.
* **`NormalizeProofs`**. `TypeCorrect`, `OneConnectionPerId` and
  `OrgsAreResolved`. The invariant needed is that `seen` is exactly the set of
  ids of `connections`. `FirstAccountsDecide` says in which order the
  synthesized connections come and what is in them, without a fold over the
  accounts: there is an increasing map from the connections made to the
  accounts, onto those that are the first of an org that was not sent. It is
  carried through the loop as it stands; a turn that adds a connection extends
  the map by the current account, and `BringsNew` shows that this happens
  exactly when the account is such a first one.
* **`DecodeProofs`**. `DecodersAgree`: on every conforming payload, of any
  number of errors, both decoders have the same outcome; a textless entry is
  conforming only if it is spelled plainly, so that `CompactJSON` gives the text
  Node shows. The lemmas compare the two per field, per entry and per list.
  `TypeCorrect`, `GoKeepsEveryText` and `EveryCodeIsHandled` need no
  conformance: an outcome is a rejection or the list of errors of this very
  response (`OutcomeForms`, `ErrorsType`), so that they reduce to what one entry
  gives (`GoErrorType`, `NodeErrorType`). `AcceptedIsAlike` does not either:
  where Node is neither content with an empty text nor throws, it chooses the
  one Go does (`NodeMessageChosen`), so that the finding of `decode_emptyMsg`,
  null entries, and respelled JSON are all there is between the two once both
  accept. Assumed: the words the SDKs write themselves are among `Words`.
* **`FieldsProofs`**. `TypeCorrect` and `DecodersAgree`. Go's struct is filled
  without a look at `last`, Node's fields from `last` alone; the invariant
  (`Gathered`) says that on a conforming object the former is a function of the
  latter, which needs that every value of `last` is the value of some member
  read before: only then does a second value under a key contradict
  `NoRepeats`. `NothingIsLost` and `NothingIsInvented` hold of objects that are
  not conforming too; `Sound` adds for them that `last` has what was sent last
  under a key, that what is in a field was sent under some spelling of it, and
  that, as long as Go's decoder has met no error in a well spelled object, a
  field has what was sent last unless that is null.
* **`ViewProofs`**. `TypeCorrect`, `ForeignFree`, `MissingFree` and
  `ArgumentsAreInScope`, for any number of types that contain each other in any
  way, themselves included. `Gathered` says that a type that is `Settled` has
  exactly what its fields call for: one that is not deep once the first pass has
  come by it, a deep one after the second. A step changes one list; that it
  unsettles nothing is what the definition of the deep types is for. A name may
  stand for several types, of which the last counts: `LastOne` proves that there
  is one, by well-foundedness. `ListsAreWhatIsReached` puts both directions
  together: the lists are exactly what each type reaches, since the types whose
  list is part of a given one's are closed under containment.
* **`ViewProofs`, on `Rendered`**. These properties say of every accepted
  specification what pure functions of the two languages make of it; the
  invariant contributes that a view is finished only for an accepted one.
  `EveryCodeFallsBack` needs that of the naked codes of a prefix one is the
  greatest (`GreatestOne`), and that `validate` asks for one
  (`NakedFormFound`). `AccessorsReturnFirstTime`, `SameIsAsked` and
  `RequestsAreTold` are about recursive functions, over the steps of an
  accessor and over the parameters of an endpoint. What such a function
  computes would be proved by induction, which is out of reach; instead a
  function with its values given outright is shown to satisfy the equations
  (`AccessorStops`, the lemmas on `Given`), and that no other does by a
  minimal counterexample: of the places where two differ there is a first one
  (`FirstOne`, from `WFMin`), and there the equations make them agree. `ReadsAlikeUpToFractions`
  and `CanonicalIsFaithful` go through the kinds that `validate` lets through;
  the former says that what `num` takes of epochs is the only difference there
  is, for whatever fields a specification declares.
* **`GeneratorProofs`**. `TypeCorrect`, `OkIsUpToDate` and `VerifyGuards`, for
  any number of shells, languages, files, sources, jobs and edits. The first is
  what says that only a `generate` that has begun has a file open. The others
  speak of jobs that have ended; `FreshAt` says of a running one, as long as
  nobody disturbs it, that the files of its finished commands, and those of the
  current one that are no longer to do, are up to date or being written by
  somebody (`UpToDate`), unless `verify` has met a stale one. The hard part is
  that other shells truncate and fill the same files: `StepKeeps` shows that
  whatever a shell does without disturbing another job keeps every file
  up to date. `GuardAt` says that `verify` alone, on a checkout nobody touches,
  compares the commit itself. `AlarmsAreTrue` is the converse, of any job that
  runs `verify`; `AlarmAt` says that on such a checkout of an up-to-date commit
  only the file its own `generate` has open may be torn, and that a job does
  not get past a command that leaves one. Assumed: a source renders no file
  that looks torn.
* **`CrossCheckProofs`**. `TypeCorrect` and `AgreementIsMeant`. `Sifted` says
  what each loop has already excluded: in the second, every golden fixture is in
  order, and what has been counted there and was not set aside failed in both
  programs. `FailuresAreMeant` is the converse; `Blamed` says that what is set
  aside, and every exit, has a fixture to blame.

Only model-checked: the liveness property `ReturnsOrReads`, as the prover has no
rules for fairness. The four properties that are violated are not theorems, of
course. Every other property of the runs is stated by one.

## Not modelled, and what comes next

1. `internal/gen/names.go` and the doc comments of `types.go`: the spelling of
   identifiers is text. That different names collide in Go (`connId` and
   `connID` both become `ConnID`) is therefore not seen.
2. Reading the YAML (`ir.Load` up to `validate`, with `KnownFields`) and the
   parsing of a kind: a library and string handling.
3. `Field` of `models.go`, which decodes one unknown value for a caller: one
   call of `json.Unmarshal`.
4. Access URLs, the `Authorization` header and redirects: no state, and the
   header is set before the request is made.
5. Lists inside an account (`transactions`), `extra` and the optional pointer
   `available-balance` in `Fields`.

Templates, names and fixtures are text and data; they are modelled through what
is rendered from them.
