# kdy_server in TLA+

This directory holds a verification project for `kdy_server`, the backend of a
displacement-monitoring system: an HTTP server on port 2250 (behind nginx), a
MySQL database, and an MQTT client that talks to a measuring camera. The modules
model the program's control: who may do what when, what is shared between its
threads, and what becomes of a request, a session, a message or a report. TLC
checks them on small instances; TLAPS checks, for every instance, the theorems
about the pool, the HTTP connection, the MQTT client, the measured points, the
handlers' memory and the process as a whole.

Paths below are relative to the repository.

## 1. The system

The process has two threads that run the repository's code:

* the **event-loop thread**, which runs `main()` (construction of the handlers,
  `src/main.cpp:22-44`) and then muduo's loop, with every HTTP handler on it;
* **Paho's callback thread**, on which `connected`, `connection_lost` and
  `message_arrived` run.

They share the database session pool and the MQTT client object. Everything else
is reached by one thread only.

| Component | State | Operations | Interacts with |
|---|---|---|---|
| Database connection pool `src/db/db_connection_pool.cpp` | queue of idle sessions, mutex | constructor, `getConnection` (take or grow), the returning deleter (push, trim) | called by the login, curve and MQTT code, on both threads |
| Session and statements `src/db/db.cpp`, `include/db/kdy_db_api.h` | one MySQL connection; an open result set | `executeQuery`, `executeUpdate`, `selectAll`, `insert`, `queryDuration` | a session is lent for one full expression |
| HTTP connection `src/server/http_server.cpp` | input buffer, state of the TCP connection | `onMessage`, `onRequest`, error answers | called by muduo for every piece of the stream, calls one handler |
| Routing table | `api_maps`, `wildcard_routes` | `addApi` before the loop starts, exact lookup | — |
| MQTT client `src/rtp/mqtt.cpp` | link, subscriptions, last camera configuration under `client_mtx`, a once-flag | `getInstance`/`connect`, the callbacks, `send_control_command`, `setCameraConfig`, `getCameraConfig` | handlers on one side, broker and camera on the other; `process_distance_data` uses the pool |
| Device registry `src/rtp/device_manager.cpp`, `src/rtp/device.cpp` | `device_map` | `instance`, `freshDevice`, `getActiveDeviceList`, `timeover` | heartbeat and stream-list handlers |
| Login `src/api/api_login_handler.cpp` | `user_table`, a copy of `users` | constructor, `handle` | pool (once), table `users` |
| Lens parameters, MQTT configuration `src/api/api_camera_1_lens_params_handler.cpp`, `src/api/api_config_mqtt_handler.cpp` | — | GET, POST / GET (a PUT is refused before it gets there) | MQTT client |
| Measure points and curve `src/api/api_measure_points*.cpp` | constant list; table `point_data` | GET | pool (curve) |
| Row mapping `include/db/api_utils.h`, `include/db/kdy_db_api.h` | none | `insertToDB`, `fromDB`, `queryDuration` | the two tables |
| URL parser, MIME table, response text | none | pure functions | — |
| Startup `src/main.cpp` | — | constructs everything in a fixed order, on the thread that then runs the loop | all |

The components that are left out, with the reason for each, are listed in
`PROJECT.json` under `components`.

### What is hard about it

* **Interleaving.** Both threads take and return sessions; a session lent twice
  would corrupt the MySQL protocol. The mutex is held across a network connect.
* **Lifetime.** `queryDuration` keeps reading rows after the temporary that held
  its session has died and the session is back in the queue, where trimming may
  delete it.
* **Partial failure.** A failed growth is a null pointer nobody tests; a request
  that throws, in a handler or in the reading of a static file, ends the process.
* **The stream.** `onMessage` parses from scratch at every call but retrieves as
  it goes; TCP may cut the stream anywhere.
* **The link.** A clean session loses its subscriptions with every connection;
  the CONNACK may come after `connect()` has given up; a publish is waited for
  on the event loop without a timeout; reports are applied by another thread.
* **Time and staleness.** Devices time out between requests; logins are answered
  from a copy made at startup; points are stamped by one clock and selected by
  another.
* **Startup.** From the constructor of the first `ConfigMQTTHandler` on, the callback
  thread runs and uses the pool while `main()` is still constructing handlers.

Every one of these is listed at its line under `hazards` in `PROJECT.json`,
with the properties that would catch it or the reason why none does yet.

### What makes each component correct

* Pool: a session is with one borrower at most; the number of open sessions has
  a floor and a ceiling; the deployed program never gets a null session; rows
  are not read from a deleted session; a statement that was begun ends.
* HTTP connection: a request reaches a handler once, in order, with its own body
  and all of it; it is answered once; nothing follows a closing answer.
* MQTT client: the server starts without a broker; both subscriptions are asked
  for on every connection that lasts; a received report is applied or overtaken
  by a newer one; neither the event loop nor the callback thread is held up for
  ever.
* Device registry: a device that registered recently is listed; the test camera
  always is.
* Login: answers agree with the users of the database, or at least with those
  the process has read.
* Curve: what is shown was measured, then and there; it is a function of time;
  its window is right; its past does not change.
* Process: it comes up or ends; once it is up only a request ends it, by a body
  that cannot be parsed or a path that is a directory; the two threads do not
  starve each other.

## 2. Modules

### `SessionLending`, `DBConnectionPool`, `DBConnectionPoolProofs`

`SessionLending` is the promise: sessions are opened, borrowed exclusively,
given back and perhaps closed, and no more than `Limit` are open. It knows no
queue, no order and no mutex.

`DBConnectionPool` is the code. `connections` is `_connections`, `mutex` is the
thread inside `_mutex` when it stays there across a connect (all other critical
sections are one step), `held[t]` is the session behind thread `t`'s temporary
`shared_ptr`, `rows[t]` the session its open result set came from. `Construct`
and `ConstructFails` are rounds of the constructor; `TakeIdle`, `BeginGrow`,
`GrowOk`, `GrowFails` are the ways through `getConnection`; `Execute` is a
statement with any outcome; `GiveBack` is the deleter with its trimming;
`ReadAll` is the reading of `selectAll`, which happens while the session is
still held, `FinishRows` the end of `queryDuration`, which comes after. `SessionBounds` gives the ceiling
`max(PoolSize, threads)`. `LendsExclusively` states that this is an
implementation of `SessionLending`, with the queue read as a set.

`FairSpec` lets a thread inside a statement run on (`Proceed`). The code
justifies it: the scheduler runs every thread, and a connect ends, with a
session or an exception. Nothing makes a thread *start* a statement, and the
mutex is not assumed to be fair. That is why `StatementsEnd` has a bound on the
number of threads: with more than `2 * PoolSize + 1` of them a return could be
overtaken for ever by others that grow the pool and are trimmed again.

### `RequestReply`, `HTTPConnection`, `HTTPConnectionProofs`, `HTTPExchangeProofs`

`RequestReply` is what a client counts on: each question is answered once, in
order, until an answer closes the connection.

`HTTPConnection` is `onMessage` with `onRequest` on one connection. The stream
is a sequence of atoms (request line, header line, CRLF, unit of a body), each
marked with the request it belongs to; `Receive(n)` delivers the next `n` of
them and runs `OnMessage`, in one step, because muduo calls it from the loop's
only thread. `calls` and `out` record what handlers were given and what the
client got. The constant `Cuts` says after which kinds of atom a piece may end,
`Pipelined` whether the client waits for its answers. Headers of two words and
of more than two are told apart, because a header that an earlier call left
behind is read as a request line, and `iss >> a >> b >> c` fails on the first
and not on the second.

A handler that cannot parse its body throws through `onMessage` and the event
loop (`Throws`): `crashed`. So does a static file whose size is none
(`MayThrow`): a directory under `www` opens like a file on most file systems,
`tellg()` is then huge or -1, and `content.resize` throws. Whether it opens and
what it reports is the file system's affair, so a request of a directory may
also get the 404 of a file that cannot be opened or read.

### `MQTTClient`, `MQTTClientProofs`

`loop` and `cb` are the control states of the two threads, `link`, `subs`,
`queue` and `token` stand for Paho and the broker, `asked` is what the program
has done about the subscriptions of the present connection, `config` is
`current_camera_config`, `shown` what the last GET answered. The camera numbers
its reports, so that "older" has a meaning.

`SetConfig` waits for the call-once, as `getInstance()` does. `ConnAck` needs an
idle callback thread, which is the thread that reads the socket, and may come
after `ConnectReturns`. `subscribe()` only queues a SUBSCRIBE, and nobody looks
at its token (`mqtt.cpp:15`, `:18`): `Subscribe` adds to `asked`, and whether the
broker ever grants it (`Granted`, which puts the topic into `subs` and lets
messages come) is its own affair. `LinkDown` is Paho's and the network's; it may
strike in any state, between the two `subscribe` calls too, ends the session with
what was asked and granted in it, may drop received messages, and a publish under
way may fail or stay in Paho's queue. `MaySet` is what `setCameraConfig` waits
for.

Fairness: both threads run when they can, and Paho's sender thread writes what
it has while there is a connection. Network and broker owe nothing: `ConnAck`,
`Granted` and `LinkDown` are not fair, so every liveness property holds without a
broker, or says what happens when the link goes down.

### `DeviceRegistry`

`Heartbeat` and `ListStreams` are the two handlers, `Freshed`, `Instance`,
`Timeover` and `ActiveDevices` the functions of `DeviceManager` and `Device`,
`Tick` the clock. `Members` is what `json(body)` makes of a text: a JSON string,
which has no members. The branch of `Heartbeat` after the test for members is
therefore never taken; it is kept because it is in the code. Seconds are whole,
as `duration_cast` makes them.

`Restart` is the end of a process and the beginning of the next, with an empty
map.

### `LoginHandler`

`Start` makes the copy (`insert` keeps the first row of a name), `Login`
answers from it, `LoginThrows` is a body that is no JSON, `ChangeUsers` is a
developer at the table (`doc/mysql.md`; nothing in `src/` writes `users`). Two
histories serve the properties: `read` is the table as the running process read
it, `replies` what each pair of name and password was last answered.

### `EventLoop`, `EventLoopProofs`

The two modules above are the handlers that keep something in memory. They share
one thread and one end: a body that cannot be parsed, or a path that is a
directory, throws through the loop and takes `user_table` and `device_map` with
it. `EventLoop` extends
`DeviceRegistry`, has `LoginHandler` as an instance, and says which of their
steps are one step of the process: `ProcessStarts` only reads the table,
`ProcessEnds` ends both, a request is a step of one of them, and clock and
developers (`Outside`) go on whether the process runs or not.

### `KdyServer`, `KdyServerProofs`

The process: `main()` and the event loop as one thread, Paho's callback thread
as the other. `Pool` and `Client` are instances of `DBConnectionPool` (with the
two threads as `Threads`) and `MQTTClient`; every change of their variables is a
step of theirs, so that `ImplementsPool` and `ImplementsClient` hold, which is
proved. What `KdyServer` adds:

* `constructed` and `page` follow `main()` through its nine handlers, in their
  order. `ReadPage` is the constructor of the base class, which every one runs
  first and which may throw; `BuildPool` is the pool's constructor inside
  `LoginHandler`'s; `ConnectClient` is `getInstance()` inside
  `ConfigMQTTHandler`'s.
* `use[t]` says that thread `t` wants a statement or has begun one. `EnterPool`
  and `UsePool` are a statement on either thread. What differs between the three
  statements of the program is said there: `selectAll` (only in a constructor)
  throws when there is no result set and reads its rows before the session goes
  back; `queryDuration` does neither; `insert` has no rows.
* `ended` says what ended the process: a page that cannot be read, a failed
  connect, a failed `selectAll` at startup, a request's body (`BadBody`), or the
  path of a directory (`GetDirectory`).

Requests that touch neither pool nor client and are answered are left out; they
are in `EventLoop` and `HTTPConnection`.

Fairness is that of the two threads as wholes, `WF` of `Main` and of `Paho`, and
of Paho's sender thread (`Written`): the scheduler runs every thread, connects
and statements end, but nothing says that MySQL or the broker answers well, or
that a request comes. `MQTTClient`'s own fairness is stronger where it takes for
granted that a callback which is inserting returns; `ClientRuns` shows that the
process earns it, although the callback thread waits behind the event loop's use
of the pool.

### `PointData`, `PointDataProofs`

A displacement from the device to the page. `Measure` stamps it with the
device's clock, which is `skew` ticks off the database's and may be set anew
(`SetDeviceClock`); the message is lost or queued; `ProcessDistanceData` inserts
the row or forgets it, whatever the reason (a member is missing, the value does
not fit its column, the key exists, MySQL fails); `GetCurve` selects what
`queryDuration` selects and shows what `fromDB` reads, or nothing when the query
fails; `Restart` loses everything but the table. `Rounded` is what becomes of a
`double`, of either sign, on its way through `std::to_string`, which keeps six
digits (`ToString`), into a `DECIMAL(10, 4)` (`Stored`). That is two roundings,
and both can go the same way: 0.00004999996 is written as 0.000050 and stored as
0.0001. A shown value can therefore be off by half a unit of the fourth digit
and half a unit of the sixth (`Near`). `UnixTimestamp` cuts the fraction of the
second off, as MySQL does. `measured` is a history of what the device has
measured.

Every `MC*` module extends one of these for TLC. Names that end in a suffix
after an underscore (`Popped_Forgotten`, `AfterHeader_NotRetrieved`, ...) are
faulty versions of the definition that follows them; `PROJECT.json` says under
`mutants` which property notices which of them.

## 3. What the runs check

| Run | Instance | Shows |
|---|---|---|
| `pool_lend` | 3 threads, pool of 1 | `TypeOK`, `Exclusive`, `SessionBounds`, `LendsExclusively`, `StatementsEnd` |
| `pool_rows` | 4 threads, pool of 2 | `RowsHaveSession` |
| `http_whole` | 3 requests, whole or cut before the first CRLF, no pipelining | `BodiesWhole`, `NothingStranded`, `AnswersEachOnce` (refines `RequestReply`) |
| `http_cut` | 3 requests, any cut, pipelined | `TypeOK`, `HandledInOrder`, `OwnBodyOnly`, `SilentAfterClose` |
| `http_split_body` | 1 request, cut inside the body | `IncompleteBodyWaits` fails |
| `http_keep_alive` | 1 request | `KeepAliveDecides` fails |
| `mqtt` | 3 reports, 2 losses, queue of 3 | `TypeOK`, `AskedInService`, `NoReportDropped`, `StartupEnds`, `LoopComesBack`, `CallbackReturns`, `Resubscribes`, `ReportsArrive` |
| `devices_registered` | 2 cameras, timeout 2, 6 seconds | `RegisteredIsListed` fails |
| `event_loop` | 1 camera, timeout 1, 3 seconds; 2 names, 2 passwords, 2 rows, 1 change | `LoopTypeOK`, `AnsweredAsRead`, `TestCameraAlwaysListed` |
| `login_database` | 2 names, 2 passwords, 2 rows, 2 changes | `AnsweredFromDatabase` fails |
| `kdy_server` | 2 sessions, 1 report, 1 loss, queue of 2 | `TypeOK`, `ProcessSurvives`, `PoolBuiltFirst`, `NeverNull`, `ClientRuns`, `ServerStarts`, `CurvesAnswered` |
| `point_data` | 2 measurements, 5 half seconds, window of 1 second, 3 skews | `TypeOK`, `ShownIsMeasured`, `OnePointPerStamp`, `WindowBounds`, `ShownStays` |

### The bounds and why they are enough

* Pool. What matters is the number of threads relative to `PoolSize`. With one
  session and three threads the queue runs empty, grows, reaches
  `2 * PoolSize + 1` idle sessions and is trimmed, which is the smallest
  instance in which all of that happens. Four threads on two sessions are the
  most for which trimming is impossible, so an error of one in its condition
  shows. The proofs below remove these bounds for the safety properties.
  `Sessions` has one address more than can be live.
* HTTP. The parser carries nothing from one call to the next but the buffer, and
  what it leaves there is the rest of at most one request; a third request
  meets whatever the first two left behind. Requests have at most two headers
  and a body of two units: enough to cut between, before and after.
* MQTT. Two losses put a loss before, between and after the two subscriptions
  and around a publish; three reports let one be received, one lost and one be
  queued across a loss. `MaxQueue` only bounds how much is under way.
* Devices and logins. The clock runs past the timeout twice in
  `devices_registered` and once in `event_loop`.
  `DEVICE_TIMEOUT_SECOND` is small instead of 30: nothing depends on its value
  but the comparison. Two rows may have one name, and a change can fall before,
  during and after a run of the process.
* The process. Two sessions for two threads is the tightest case of the deployed
  program (ten sessions), and the assumption of the module: with one session the
  threads would have to connect. One loss and one report suffice to put either
  between any two steps of startup or of a curve; more of them is what the run
  `mqtt` is for.
* Points. Two measurements are the fewest that can collide on a key or be
  swapped; the window of one second lets points leave it within five half
  seconds; of the placements one is negative, lies in the middle and is rounded
  away from 0 twice, so that it is as far off as `Near` allows, one is rounded
  down and one does not fit the column.

Deadlock is checked in all runs but those of `HTTPConnection`, where the client
sends a bounded number of requests and then the connection is quiet.

## 4. Where the code and its documents disagree

* `http_split_body` — `src/server/http_server.cpp:140` says that an incomplete
  body waits for more data. By then the request line and the headers have been
  retrieved into local variables, so the rest of the body is read as a new
  request line and the request is never answered.
* `http_keep_alive` — `src/server/http_server.cpp:36` says that keep-alive
  decides whether the connection becomes long. For HTTP/1.0 nothing undoes the
  `setCloseConnection(true)` of line 83.
* `devices_registered` — `doc/api.md:41` describes `POST /device/heartbeat` as
  the registration of a stream. `json(body)` in
  `src/api/device_heartbeat_handler.cpp:9` does not parse; every heartbeat is
  refused.
* `login_database` — `doc/api.md:20` says that a login queries the database. It
  is answered from a copy made at startup.

Smaller ones, seen while modelling and without a run of their own: after a
malformed `Content-Length` the answer says keep-alive and the connection is
shut down (`http_server.cpp:151`); `handleMethodNotAllowed` answers 400 where
`http_server.h:48` says 405 (and a PUT, for which two handlers
have a branch, gets that 400 too; the model keeps the 400 of the code);
`connected()` logs a subscription before the broker has answered it, and never
learns of a refusal (`mqtt.cpp:15`, `:18`); `mqtt.cpp:108` logs a timeout of 30 seconds after
10; `doc/api.md:24` names `www/main/main.html`, the handler `/main/index.html`;
the points of a curve have an empty `id`, because the query does not select it;
a curve whose query failed is answered with success and an empty list.

## 5. What is proved

### The pool

`DBConnectionPoolProofs` proves, for every set of threads and every pool size
(`PoolAssumption`: finitely many threads, at least one session in the pool, and
the two null values are not sessions or threads):

* `TypeCorrect`, `ExclusiveSafe`, `SessionBoundsSafe`: `Spec` implies `[]` of
  `TypeOK`, `Exclusive`, `SessionBounds`;
* `NeverNullSafe`: with at most `PoolSize` threads no caller gets a null
  session, although each of them may be between any two steps of its use;
* `RowsSafe`: with at most `2 * PoolSize` threads no result set loses its
  session;
* `Refinement`: every behaviour of the pool is one of `SessionLending`.

**The argument.** `Exclusive` alone is not inductive: that a new session can be
put into the queue and taken out at once needs that the queue is empty when a
connect ends, which holds because the connecting thread has the mutex; and the
floor of `SessionBounds` needs to know how much the constructor has built.
`IInv` therefore adds to the three properties

* `MutexInv`: the mutex belongs to the one thread that is connecting, and then
  the queue is empty and the constructor has finished;
* `HoldInv`: a thread holds a session exactly in the states between taking and
  returning it;
* `BuildInv`: until the constructor has finished nobody holds anything, and the
  queue has as many sessions as rounds were done.

There is one lemma for each action (`ConstructInv` and so on) and, below them,
lemmas about the queue (`AppendFacts` and its companions: what appending,
popping and trimming do to length, elements and distinctness) and about the
number of borrowers when one is added or removed. `Limit` enters through
`LimitFacts`.

### The MQTT client

`MQTTClientProofs` proves, for any number of reports, of losses of the link and
of waiting messages (`MQTTAssumption`: the three bounds are natural numbers):

* `TypeCorrect`: `Spec` implies `[]TypeOK`;
* `AskedInServiceSafe`: whenever `connected` is not running, both topics have
  been asked for on an open connection;
* `NoReportDroppedSafe`: only a loss of the link makes the client drop a report
  it has received;
* `QuietBeforeConnect`: until the connect no callback runs and nothing waits.

**The argument.** `TypeOK` is inductive; the queue needs most of it (`TailFirst`
and `AppendLast` say what taking out and appending do to its positions,
`QueuedType` is the part that a report and another message share). The
subscriptions need one more fact (`AskedInv`): `connected` is between its two
calls only with the first topic asked for. That it cannot be overtaken by the
next CONNACK is in the model because the callback thread reads the socket
(section 6). `NoReportDropped` follows from `TypeOK` step by step (`KeptStep`): a
report that waits stays, comes one place nearer (`WaitingReport`) or is taken
(`TakenReport`), and one that is applied has just become the configuration.

### The HTTP connection

`HTTPConnectionProofs` proves, for any list of requests with any headers and
bodies, any way of cutting their stream and any handlers: `TypeCorrect`,
`HandledInOrderSafe`, `OwnBodyOnlySafe`, `SilentAfterCloseSafe`.

**The argument.** `onMessage` loses its place: what it left in the buffer may
begin in the middle of a request. The properties hold all the same because
`Stream` (the buffer and what is on the way to it) is always an end of what the
client has sent. `IInv` says it in three parts:

* `LinesGrow`: the request lines in the stream are in order and newer than
  everything handled, so a request whose line is retrieved never comes again;
* `Whole(Stream)`: after a request line comes all of its request, so the body a
  handler gets, counted from there, is its own;
* `Announced`: all that is in the stream has been sent.

`Closing` adds that only a disconnecting connection has sent a closing answer.
`OnMessageEffect` is the heart: one call retrieves a prefix, calls at most one
handler, for a request line at the front, and sends at most one answer. `Moved`
carries the three parts over to what is left; `Lines` and `RequestLine` say that
a line `onRequest` accepts is a request line and nothing else.

`HTTPExchangeProofs` proves what a well-behaved client gets: `BodiesWholeSafe`,
`NothingStrandedSafe`, and `AnswersEachOnceSafe`, the refinement of
`RequestReply`. These are false of clients in general (`http_split_body`, and the
pipelined second request of `http_server.cpp:39`), so the theorems say under
which hypotheses they hold: the client waits for its answers (`Waits`), a piece
ends with its request or inside the text of its first line (`WholePieces`), and a
request with a body announces its length (`Announces`); the refinement also
wants every `Content-Length` to be a number (`Numeric`). The instance of
`http_whole` satisfies all four; requests, headers, bodies and their number are
arbitrary.

**The argument.** `Exchange` says that, while the process runs, the stream is
empty or is exactly the request sent last, with some of it still on its way
(`InTransit`); that the `k`-th answer is about the `k`-th request (`Numbered`);
and that only a request on its way is without one (`Served`). `ReadWhole` and
`ServesWhole` are the heart: of the atoms of one whole request, `onMessage` finds the CRLF that ends
the headers at the position where it is, reads the length from them and hands
over what follows, all of it. `Pieces` shows that there is no third kind of
call: a piece brings the whole request, or ends before the first CRLF and is
left where it is. `Stopped` is what the refinement needs of a connection that has
been shut down: the client was told.

### The points

`PointDataProofs` proves all five properties of the run, for any points, signed
placements, clocks, units of both roundings and window (`PointAssumption`).
`IInv` adds to `TypeOK` that every row is the rounding of a measurement and no
key has two rows (`RowsInv`), and that what was shown is still in the table
(`AnswerInv`): the curve's past does not change because rows never do.
`ToStringFacts` and `StoredFacts` bound the two roundings one by one, and
`RoundedFacts` adds the bounds up. `WindowBounds` follows from
`UnixTimestampFacts`: the truncated time is less than a second behind.

### The handlers' memory

`EventLoopProofs` proves `LoopTypeOK`, `AnsweredAsRead` and
`TestCameraAlwaysListed` for any names, tables, cameras and timeouts. `IInv`
adds `CopyOfRead`: while the process runs, the copy has exactly the names that
were read, each with the password of its first row.

`LoginsImplemented` and `DevicesImplemented` prove that the event loop is a
behaviour of `LoginHandler` and of `DeviceRegistry`: a request that ends the process
in the one is the `Restart` of the other, and no request disturbs the other
component.

### The process

`KdyServerProofs` proves for every pool of two or more sessions
(`ServerAssumption`):

* `PoolImplemented`, `ClientImplemented`: the process is a behaviour of
  `DBConnectionPool` and of `MQTTClient`;
* carried over from the pool: `NeverNullSafe`, `SessionsExclusive`, `RowsLive`
  (with two threads and two sessions or more its hypothesis is met, so no result
  set of this process loses its session) and `ProcessLendsExclusively`, the
  refinement of `SessionLending`;
* carried over from the client: `ServerAsks` (`AskedInService`) and
  `ServerKeepsReports`;
* `TypeCorrect` and `ProcessSurvivesSafe`: once it serves, only a request ends
  the process, by its body or by the path of a directory;
* `PoolBuiltFirstSafe`: when the callback thread wants a session the pool is
  complete.

**The argument.** Each action is a step of the pool or leaves it alone
(`PoolStep`), and the same for the client. For `ProcessSurvives`, `StartInv`
says what the place in `main()` tells of the pool (it is built before the
callback thread can ask for it, and no handler after the login's is constructed
before it is), and `UseInv` that a thread is in the pool only for a statement its
code has; `NeverNull` excludes the failed connect. `PoolBuiltFirst` joins both
components: what `QuietBeforeConnect` says of the client, that only the fifth
handler connects (`ConnectInv`), and that the second has built the pool.

### Only model-checked

* Everything about fairness, which the prover does not treat: `StatementsEnd`,
  the liveness of `MQTTClient`, and `ClientRuns`, `ServerStarts`,
  `CurvesAnswered` of `KdyServer`.

Every other property of a passing run is a theorem.

## 6. Assumptions about code outside `src/`

* muduo: `onMessage` calls of a connection do not overlap; after `shutdown()`
  what is sent is dropped and what is received is still delivered.
* Paho: the callback thread also reads the socket, so that no CONNACK is seen
  while a callback runs; `connected` runs after every connection; messages are
  passed to `message_arrived` in the order in which they came; `subscribe()`
  throws only when there is no connection, and a SUBSCRIBE does not outlive its
  connection. The broker may refuse a SUBSCRIBE or leave it unanswered.
* The file system decides what opening a directory gives, and what size it has;
  the model allows a throw and a 404.
* MySQL: rows of `users` come in the order of the primary key. Whether a
  buffered result set may be read while its connection is in use by another
  thread is left to the connector.
* MySQL also: the insertion checks the primary key `(id, ts)`, the columns are
  those of `doc/mysql.md`, a value out of range is refused (strict mode).
* The result set of a query is buffered, so that reading it does not fail.
* The clients of the HTTP server send well-formed requests with the body they
  announce.

## 7. Not modelled

* **Code that is not this program's.** `include/json/json.hpp` is a vendored
  library; it has 25712 of the 27961 lines of code in the repository, so the
  models stand for a small share of all lines whatever they contain. Where its
  behaviour matters (a parse throws, `json(text)` is a string) it is in the model
  of the handler that uses it. The web pages, nginx and the build files are data
  or configuration, and `test/mqtt_test.cpp` shares no code with the server.
* **Records and text.** `include/rtp/mqtt_types.h`, the response structs and
  `HttpResponse::appendToBuffer` have no control: each is a list of fields, or a
  text put together. What their users do with them is modelled.
* **Code without a caller.** `UrlParser`; `wildcard_routes`, which is filled and
  never read; `updateToDB`, `deleteFromDB` (whose text for a point names a column
  `timestamp` the table does not have) and the insertion of a user (which names
  `previlege`, the table `privilege`); the camera parameters in `Device`; the
  PUT branches of the handlers. No state of the program comes from them.
* **Logging, and the content of static files.**

## 8. Plan

Done, in the order of importance: the pool, the HTTP connection and the MQTT
client, each with its proofs, for the HTTP connection also that it serves a client that
waits; the device registry and the login, and the event loop that joins them;
the way of the points; the process as a whole, with what it inherits from its
parts.

What could follow:

1. Two or more HTTP connections on one event loop: their buffers are apart, and
   they share nothing but the handlers, which are in `EventLoop`.
2. Should `json(body)` become `json::parse(body)` in
   `src/api/device_heartbeat_handler.cpp:9`, `Members` in `DeviceRegistry` is the
   definition to change; registered cameras, their timeout and the growth of
   `device_map` are then reachable, and `RegisteredIsListed` should hold.
