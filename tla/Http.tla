-------------------------------- MODULE Http --------------------------------
(***************************************************************************)
(* One request of src/http.c, from http_get to its only callback, and what *)
(* the plugins rss.c, search.c and weather.c do with it.  search and       *)
(* weather are the same here.                                              *)
(*                                                                         *)
(* The answer of a server is a sequence of cells: a cell is the contents   *)
(* of a line, a line end ("nl") or a byte of the body.  The socket object  *)
(* underneath is that of Connection and LineReader: it keeps what recv     *)
(* brought in a ring that loses a piece that does not fit, and everything  *)
(* when a byte is taken while it is full (buffer.c:74).                    *)
(***************************************************************************)
EXTENDS Integers, Sequences, SequencesExt

CONSTANTS
  Size,    \* size of recvbuf
  Piece,   \* most bytes of one recv
  Sizes    \* sets of answers: the sequences of chunk sizes a body comes in

ASSUME HttpAssumption == Size \in Nat \ {0} /\ Piece \in Nat \ {0} /\ Sizes \subseteq Seq(Nat \ {0})

VARIABLES
  stage,   \* "none", "waiting" for an address and a connection, "up", or for
           \* good "lost", "silent", "leaked" or "crashed"
  owner,   \* the plugin: "rss" or "search"
  loaded,  \* the plugin is
  req,     \* what http_parse keeps of the request, and recvbuf
  net,     \* cells under way from the server
  closed,  \* the server has closed behind them
  \* ghosts
  answer,  \* what the server answers: [frame, status, sizes]
  cut,     \* what the connection broke in: "no", "header" or "body"
  overrun, \* recvbuf was full, or a piece did not fit
  told     \* what the plugin was called back with

request == <<stage, owner, req, net, closed, answer, cut, overrun, told>>
httpVars == <<request, loaded>>

-----------------------------------------------------------------------------
(* Answers. *)

Cell(t, v) == [t |-> t, v |-> v]
NL == Cell("nl", 0)
HttpLine(t, v) == <<Cell(t, v), NL>>

\* The bytes of the first n chunks
Total(sizes, n) ==
  LET upto[i \in 0 .. n] == IF i = 0 THEN 0 ELSE upto[i - 1] + sizes[i]
  IN  upto[n]
Bytes(from, n) == [i \in 1 .. n |-> Cell("byte", from + i)]
Length(a) == Total(a.sizes, Len(a.sizes))
Body(a) == Bytes(0, Length(a))

Answers == [frame : {"close", "length", "chunked"}, status : {200, 404}, sizes : Sizes]

Chunk(sizes, i) ==
  HttpLine("size", sizes[i]) \o Bytes(Total(sizes, i - 1), sizes[i]) \o <<Cell("cr", 0), NL>>

\* What follows the last chunk but its size is not sent: nothing reads it.
Stream(a) ==
  HttpLine("status", a.status)
  \o (CASE a.frame = "length"  -> HttpLine("content-length", Length(a)) \o <<NL>> \o Body(a)
        [] a.frame = "close"   -> <<NL>> \o Body(a)
        [] a.frame = "chunked" -> HttpLine("chunked", 0) \o <<NL>>
             \o FlattenSeq([i \in DOMAIN a.sizes |-> Chunk(a.sizes, i)]) \o HttpLine("size", 0))

HeaderLength(a) == IF a.frame = "close" THEN 3 ELSE 5

-----------------------------------------------------------------------------
(* http_parse.  r is a request. *)

NewRequest ==
  [state |-> "none", status |-> 0, header |-> FALSE, fields |-> {}, chunked |-> FALSE,
   length |-> 0, chunk |-> 0, body |-> <<>>, buf |-> <<>>]

FirstEol(r) == SelectInSeq(r.buf, LAMBDA c : c.t = "nl")

\* buffer_delete, and buffer_get
Taken(r, n) ==
  [r EXCEPT !.buf = IF Len(@) = Size \/ n >= Len(@) THEN <<>> ELSE SubSeq(@, n + 1, Len(@))]
First(r, n) == SubSeq(r.buf, 1, IF n < Len(r.buf) THEN n ELSE Len(r.buf))

ParseStatus(r) ==
  IF r.status > 0 \/ FirstEol(r) = 0 THEN r
  ELSE Taken([r EXCEPT !.status = IF r.buf[1].t = "status" THEN r.buf[1].v ELSE 999], FirstEol(r))

\* Transfer-Encoding comes before Content-Length.
HeaderDone(r) ==
  LET chunked == \E f \in r.fields : f.t = "chunked"
      lengths == {f \in r.fields : f.t = "content-length"}
  IN [r EXCEPT !.header = TRUE, !.chunked = chunked,
               !.length = IF chunked \/ lengths = {} THEN 0 ELSE (CHOOSE f \in lengths : TRUE).v]

\* A turn of the loop over the lines of the header.  It leaves r alone when the loop has ended.
HeaderTurn(r) ==
  LET pos == FirstEol(r) IN
  IF r.status <= 0 \/ r.header \/ pos = 0 THEN r
  ELSE IF pos = 1 THEN HeaderDone(Taken(r, 1))
  ELSE Taken([r EXCEPT !.fields = @ \cup {r.buf[1]}], pos)

\* Each turn takes a cell at least.
ParseHeader(r) ==
  LET after[n \in 0 .. Len(r.buf)] == IF n = 0 THEN r ELSE HeaderTurn(after[n - 1])
  IN  after[Len(r.buf)]

\* The chunk is there with its line end.
Whole(r) == Len(r.buf) >= r.chunk + 2

\* Mutant: each chunk takes the place of the one before.
LastChunk(r) == [Taken(Taken(r, r.chunk), 2) EXCEPT !.chunk = 0, !.body = First(r, r.chunk)]

AddChunk(r) == [Taken(Taken(r, r.chunk), 2) EXCEPT !.chunk = 0, !.body = @ \o First(r, r.chunk)]

\* A turn of the loop over the chunks
ChunkTurn(r) ==
  LET pos == FirstEol(r) IN
  IF r.state # "none" THEN r
  ELSE IF r.chunk > 0 THEN IF Whole(r) THEN AddChunk(r) ELSE r
  ELSE IF pos = 0 THEN r
  ELSE IF pos < 2 THEN [r EXCEPT !.state = "err"]
  ELSE IF r.buf[1].t # "size" THEN [Taken(r, pos) EXCEPT !.state = "err"]
  ELSE IF r.buf[1].v = 0 THEN [Taken(r, pos) EXCEPT !.state = "done"]
  ELSE [Taken(r, pos) EXCEPT !.chunk = r.buf[1].v]

\* Mutant: one turn for each piece
OneTurn(r) == ChunkTurn(r)

ParseChunks(r) ==
  LET after[n \in 0 .. Len(r.buf)] == IF n = 0 THEN r ELSE ChunkTurn(after[n - 1])
  IN  after[Len(r.buf)]

ParseLength(r) ==
  IF r.length > 0 /\ Len(r.buf) >= r.length
  THEN [Taken(r, r.length) EXCEPT !.body = First(r, r.length), !.state = "done"] ELSE r

ParseBody(r) ==
  IF ~r.header THEN r ELSE IF r.chunked THEN ParseChunks(r) ELSE ParseLength(r)

\* The end of http_parse with nomoredata: without any framing the rest is the
\* body, be it a piece of the header.
NoMoreData(r) ==
  LET last ==
    IF ~r.chunked /\ r.length = 0
    THEN IF r.buf = <<>> THEN [r EXCEPT !.state = "err"]
         ELSE [r EXCEPT !.body = r.buf, !.buf = <<>>, !.state = "done"]
    ELSE IF r.state = "done" THEN r ELSE [r EXCEPT !.state = "err", !.body = <<>>]
  IN IF last.state = "err" /\ last.status = 200 THEN [last EXCEPT !.status = 0] ELSE last

HttpParse(r, nomoredata) ==
  IF r.state = "done" THEN r
  ELSE LET parsed == ParseBody(ParseHeader(ParseStatus(r)))
       IN IF nomoredata THEN NoMoreData(parsed) ELSE parsed

-----------------------------------------------------------------------------
(* The life of a request. *)

Nothing == [state |-> "none", status |-> 0, body |-> <<>>]

HttpInit ==
  /\ stage = "none" /\ owner = "rss" /\ loaded = TRUE /\ req = NewRequest
  /\ net = <<>> /\ closed = FALSE
  /\ answer \in Answers /\ cut = "no" /\ overrun = FALSE /\ told = Nothing

\* http_new and http_get by plugin p.  A name or a connection that cannot even
\* be asked for is -1, which only rss looks at.
Start(p) ==
  /\ owner' = p /\ answer' \in Answers
  /\ req' = NewRequest /\ net' = <<>> /\ closed' = FALSE
  /\ cut' = "no" /\ overrun' = FALSE /\ told' = Nothing
  /\ stage' \in {"waiting", IF p = "rss" THEN "none" ELSE "leaked"}
  /\ UNCHANGED loaded

\* No callback will come; the module follows the next request.
Over == stage \in {"none", "lost", "silent", "leaked"}

\* The timer of rss.c frees a request of the minute before.
RssTimer == loaded /\ (Over \/ (owner = "rss" /\ stage # "crashed")) /\ Start("rss")

Search == loaded /\ Over /\ Start("search")

\* destroy of rss.c frees the request, the others have no destroy.
Destroyed(p) == IF p = "rss" THEN "none" ELSE stage

HttpUnload ==
  /\ loaded /\ stage # "crashed" /\ loaded' = FALSE /\ stage' = Destroyed(owner)
  /\ UNCHANGED <<owner, req, net, closed, answer, cut, overrun, told>>

HttpLoad == ~loaded /\ stage = "none" /\ loaded' = TRUE /\ UNCHANGED request

\* req->cb: the plugin reads the result and frees the request.  The code of
\* one that is unloaded is gone.
CallBack(r) ==
  /\ stage' = IF loaded THEN "none" ELSE "crashed"
  /\ req' = NewRequest /\ net' = <<>> /\ closed' = FALSE
  /\ told' = [state |-> IF r.state = "done" THEN "done" ELSE "err", status |-> r.status, body |-> r.body]
  /\ UNCHANGED <<owner, loaded, answer>>

\* http_cb_err
CbErr(r) == CallBack(HttpParse(r, TRUE))

\* http_cb_data: bufsock_discon clears recvbuf before the second http_parse.
CbData(r, rest) ==
  LET parsed == HttpParse(r, FALSE) IN
  IF parsed.state \in {"err", "done"} \/ Len(parsed.buf) = Size
  THEN CallBack(HttpParse([parsed EXCEPT !.buf = <<>>], TRUE))
  ELSE req' = parsed /\ net' = rest /\ UNCHANGED <<stage, owner, loaded, closed, answer, told>>

Connected ==
  /\ stage = "waiting" /\ stage' = "up" /\ net' = Stream(answer)
  /\ UNCHANGED <<owner, loaded, req, closed, answer, cut, overrun, told>>

\* No address, or no connection: cb_err, with an empty recvbuf.
NotConnected ==
  /\ stage = "waiting" /\ CbErr(req) /\ cut' = "header" /\ UNCHANGED overrun

\* dns_canwrite drops a query without a word; a server may stop to talk.
\* Nothing ends such a request but the timer of rss.c.
GoesSilent ==
  /\ \/ stage = "waiting" /\ stage' = "lost"
     \/ stage = "up" /\ ~closed /\ stage' = "silent"
  /\ UNCHANGED <<owner, loaded, req, net, closed, answer, cut, overrun, told>>

\* With "Connection: close" the server closes when all is sent, or it breaks off.
ServerCloses ==
  /\ stage = "up" /\ ~closed /\ closed' = TRUE
  /\ \E n \in 0 .. Len(net) :
       /\ net' = SubSeq(net, 1, n)
       /\ cut' = IF n = Len(net) THEN "no"
                 ELSE IF Len(Stream(answer)) - Len(net) + n < HeaderLength(answer) THEN "header" ELSE "body"
  /\ UNCHANGED <<stage, owner, loaded, req, answer, overrun, told>>

Fits(have, n) == have < Size /\ have + n <= Size

\* bufsock_canread: recv brings any part of what is under way; the piece that
\* does not fit is dropped.  With the end of the stream http_cb_err is called.
CanRead ==
  /\ stage = "up"
  /\ \E n \in 0 .. Len(net), dropped \in 0 .. Piece :
       LET have == Len(req.buf) + n
           got == [req EXCEPT !.buf = @ \o SubSeq(net, 1, n)]
       IN /\ n + dropped <= Len(net) /\ (n > 0 => Fits(Len(req.buf), n))
          /\ (dropped > 0 => ~Fits(have, dropped))
          /\ n + dropped > 0 \/ closed
          /\ overrun' = (overrun \/ dropped > 0 \/ have = Size)
          /\ IF closed /\ n = Len(net) THEN CbErr(got)
             ELSE CbData(got, SubSeq(net, n + dropped + 1, Len(net)))
  /\ UNCHANGED cut

HttpNext ==
  \/ RssTimer \/ Search \/ HttpUnload \/ HttpLoad
  \/ Connected \/ NotConnected \/ GoesSilent \/ ServerCloses \/ CanRead

HttpSpec == HttpInit /\ [][HttpNext]_httpVars

-----------------------------------------------------------------------------
\* An empty body is an error unless it comes in chunks.
Expected(a) ==
  IF a.sizes = <<>> /\ a.frame # "chunked"
  THEN [state |-> "err", status |-> IF a.status = 200 THEN 0 ELSE a.status, body |-> <<>>]
  ELSE [state |-> "done", status |-> a.status, body |-> Body(a)]

\* However recv splits an answer, the plugin is called back with its status and
\* its body, if the connection does not break and recvbuf never fills up
\* (http.c:139-289: the parser is entered anew with each piece).
\* A body of known length that does not come to its end is not handed over as a
\* page.  A connection that breaks within the header may be: the rest of it is
\* then taken for a body (http.c:270-274).
RightAnswer ==
  ~overrun =>
    /\ told # Nothing /\ cut = "no" => told = Expected(answer)
    /\ cut = "body" /\ answer.frame # "close" /\ told.state = "done" => told = Expected(answer)

\* A page is not held back: once all of an answer has come, in whatever pieces,
\* the plugin has been called back, and the server need not close first (a
\* piece may bring the end of one chunk and more behind it, http.c:198-262).
\* Only the close ends an answer without framing, and an empty page with a
\* length, since a length of 0 is none (http.c:250).
NotHeldBack ==
  stage = "up" /\ net = <<>> /\ cut = "no" /\ ~overrun
    => answer.frame = "close" \/ (answer.frame = "length" /\ answer.sizes = <<>>)
=============================================================================
