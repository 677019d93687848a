------------------------------ MODULE Records ------------------------------
(***************************************************************************)
(* The tables of Catalog, Orders and Administration, their queries, and    *)
(* the cached answers to them.                                             *)
(*                                                                         *)
(* A table is the sequence of its rows in heap order, which is what        *)
(* "ORDER BY ctid" answers: an UPDATE writes the row anew, wherever there  *)
(* is room.  The program writes genres, an invoice's status, and what the  *)
(* handlers of InvoiceFinalized add up; every other table is as seeded.    *)
(*                                                                         *)
(* A read is answered from the cache or loaded and kept: one step here,    *)
(* and so is a write with the invalidation that follows it.  What happens  *)
(* between the two is ReadCache's; what is asked here is whether every     *)
(* write invalidates every answer it changes.  The service layer composes  *)
(* an answer from several rows and tables, in several statements.          *)
(***************************************************************************)
EXTENDS Integers, Sequences, FiniteSets, SequencesExt, Sums

CONSTANTS
    Artist, Album, Track, Playlist, PlaylistTrack,      \* catalog
    Customer, Employee, MediaType, SeededGenre,         \* administration
    InvoiceLine, SeededInvoice,                         \* orders
    Null,
    ReadKeys,  \* the reads that are made: [entity, kind, id]
    Names,     \* names a genre is given: "" and TooLong among them, and Null
    TooLong,   \* a name of more than 120 characters
    MaxGenres, \* bound: genres ever created
    MaxWrites, \* bound: renamed genres
    MaxCached  \* bound: entries in the cache

ASSUME RecordsAssumption ==
    /\ Null \notin Int
    /\ MaxGenres \in Nat /\ MaxWrites \in Nat /\ MaxCached \in Nat

\* The reads the services cache, and no others.
ASSUME ReadKeysAssumption ==
    \A k \in ReadKeys :
        \/ k.entity = "album" /\ k.kind \in {"by-id", "all", "by-artist"}
        \/ k.entity = "artist" /\ k.kind \in {"by-id", "all"}
        \/ k.entity = "track" /\ k.kind \in {"by-id", "all", "by-artist", "by-playlist",
                                            "by-album", "by-genre", "by-mediatype"}
        \/ k.entity = "playlist" /\ k.kind \in {"by-id", "all"}
        \/ k.entity = "customer" /\ k.kind \in {"by-id", "all", "by-supportrep"}
        \/ k.entity = "employee" /\ k.kind \in {"by-id", "all", "direct-reports", "reports-to"}
        \/ k.entity = "genre" /\ k.kind \in {"by-id", "all"}
        \/ k.entity = "mediatype" /\ k.kind \in {"by-id", "all"}
        \/ k.entity = "invoice" /\ k.kind \in {"by-id", "all", "by-customer"}
        \/ k.entity = "invoiceline" /\ k.kind \in {"by-id", "all", "by-invoice", "by-track"}

\* A primary key: GENERATED ... AS IDENTITY.
UniqueIds(table) == \A m, n \in DOMAIN table : table[m].id = table[n].id => m = n

\* A table's rows, each with its columns and no other.
IsTable(table, columns) ==
    /\ table \in Seq(Range(table)) /\ UniqueIds(table)
    /\ \A row \in Range(table) : row # Null /\ DOMAIN row = columns /\ row.id \in Int

\* "Total" numeric(10,2) NOT NULL, "Quantity" integer NULL.
InvoiceRow == [id : Int, customer : Int \cup {Null}, date : Int, total : Int,
               status : {"Draft", "Finalized"}]
LineRow    == [id : Int, invoice : Int \cup {Null}, track : Int \cup {Null},
               price : Int \cup {Null}, quantity : Int \cup {Null}]

ASSUME SeedAssumption ==
    /\ IsTable(Artist, {"id", "name"}) /\ IsTable(Album, {"id", "title", "artist"})
    /\ IsTable(Track, {"id", "name", "album", "genre", "mediaType"})
    /\ SeededInvoice \in Seq(InvoiceRow) /\ UniqueIds(SeededInvoice)
    /\ InvoiceLine \in Seq(LineRow) /\ UniqueIds(InvoiceLine)
    /\ Null \notin InvoiceRow \cup LineRow
    /\ \A row \in Range(Customer) : row.id \in Int

VARIABLES
    genre,     \* administration."Genre"
    lastGenre, \* its identity sequence
    invoice,   \* orders."Invoice"
    pending,   \* InvoiceFinalized events with the handlers still to apply them
    sales,     \* catalog."TrackSales": [times, last] by track id
    summary,   \* administration."CustomerPurchaseSummary": [spent, count, last]
    cache,     \* answers by key
    writes

tableVars   == <<genre, lastGenre, invoice, pending, sales, summary>>
recordsVars == <<tableVars, cache, writes>>

-----------------------------------------------------------------------------
(* Rows *)

Ids(table) == {row.id : row \in Range(table)}

\* WHERE "Id" = $1: no id is null, so a null reference finds nothing.
Find(table, id) == IF id \in Ids(table) THEN CHOOSE row \in Range(table) : row.id = id ELSE Null

\* The members of a finite set of integers in ascending order.
Ascending(S) == [n \in 1..Cardinality(S) |-> CHOOSE x \in S : Cardinality({y \in S : y <= x}) = n]

\* ORDER BY "Id"
ById(table) == LET ids == Ascending(Ids(table)) IN [n \in DOMAIN ids |-> Find(table, ids[n])]

\* WHERE: those of rows, as they are ordered in the table.
Where(table, rows) ==
    LET places == Ascending({n \in DOMAIN table : table[n] \in rows})
    IN  [n \in DOMAIN places |-> table[places[n]]]

\* A row and the columns that another table gives it.
With(row, columns) ==
    [c \in DOMAIN row \cup DOMAIN columns |-> IF c \in DOMAIN row THEN row[c] ELSE columns[c]]

\* A column of a LEFT JOIN.
Column(row, Of(_)) == IF row = Null THEN Null ELSE Of(row)

\* "FirstName" || ' ' || "LastName": null when either is.
FullName(row) == IF row = Null \/ row.first = Null \/ row.last = Null THEN Null
                 ELSE <<row.first, row.last>>

Greatest(a, b) == IF a = Null \/ b > a THEN b ELSE a

\* SUM(...)
Total(rows, Of(_)) == SumOf([row \in rows |-> Of(row)], rows)

-----------------------------------------------------------------------------
(* Catalog's queries *)

AlbumTitle(t) == Column(Find(Album, t.album), LAMBDA a : a.title)

\* TRACK_COLUMNS and TRACK_WITH_ALBUM
Plain(tracks)     == [i \in DOMAIN tracks |-> With(tracks[i], [albumName |-> Null])]
WithAlbum(tracks) ==
    [i \in DOMAIN tracks |-> With(tracks[i], [albumName |-> AlbumTitle(tracks[i])])]

\* WHERE "AlbumId" = $1
OfAlbum(id) == Where(Track, {t \in Range(Track) : t.album = id})

\* INNER JOIN "Album" ... WHERE al."ArtistId" = $1
OfArtist(id) ==
    Where(Track, {t \in Range(Track) : Column(Find(Album, t.album), LAMBDA a : a.artist) = id})

\* INNER JOIN "PlaylistTrack" ... WHERE pt."PlaylistId" = $1
OfPlaylist(id) ==
    Where(Track, {t \in Range(Track) : [playlist |-> id, track |-> t.id] \in Range(PlaylistTrack)})

AlbumApi(a) == With(a, [artistName |-> Null, tracks |-> <<>>])

GetAlbumById(id) ==
    LET a == Find(Album, id)
    IN  IF a = Null THEN Null
        ELSE With(a, [artistName |-> Column(Find(Artist, a.artist), LAMBDA r : r.name),
                      tracks |-> WithAlbum(ById(OfAlbum(id)))])

GetAllAlbums == [i \in DOMAIN Album |-> AlbumApi(Album[i])]

GetAlbumsByArtistId(id) ==
    LET mine == Where(Album, {a \in Range(Album) : a.artist = id})
    IN  [i \in DOMAIN mine |->
            With(mine[i], [artistName |-> Column(Find(Artist, id), LAMBDA r : r.name),
                           tracks |-> <<>>])]

\* The artist, its albums, and the tracks of those albums: three statements.
GetArtistById(id) ==
    LET artist == Find(Artist, id)
        mine   == ById(Where(Album, {a \in Range(Album) : a.artist = id}))
        tracks == WithAlbum(ById(OfArtist(id)))
        under(i) == Where(tracks, {t \in Range(tracks) : t.album = mine[i].id})
    IN  IF artist = Null THEN Null
        ELSE With(artist, [albums |-> [i \in DOMAIN mine |->
                With(mine[i], [artistName |-> artist.name, tracks |-> under(i)])]])

GetAllArtists == [i \in DOMAIN Artist |-> With(Artist[i], [albums |-> <<>>])]

GetTrackById(id) == LET t == Find(Track, id)
                    IN  IF t = Null THEN Null ELSE Head(WithAlbum(<<t>>))

GetAllTracks               == Plain(Track)
GetTracksByArtistId(id)    == Plain(OfArtist(id))
GetTracksByPlaylistId(id)  == Plain(OfPlaylist(id))
GetTracksByAlbumId(id)     == Plain(OfAlbum(id))
GetTracksByGenreId(id)     == Plain(Where(Track, {t \in Range(Track) : t.genre = id}))
GetTracksByMediaTypeId(id) == Plain(Where(Track, {t \in Range(Track) : t.mediaType = id}))

\* The row of a track or a customer, or what is counted from.
SalesOf(t)     == IF t \in DOMAIN sales THEN sales[t] ELSE [times |-> 0, last |-> Null]
PurchasesOf(c) == IF c \in DOMAIN summary THEN summary[c] ELSE [spent |-> 0, count |-> 0, last |-> Null]

\* Not cached.
GetTrackSales(id) ==
    IF id \notin Ids(Track) THEN Null
    ELSE [track |-> id, times |-> SalesOf(id).times, last |-> SalesOf(id).last]

GetPlaylistById(id) ==
    LET p == Find(Playlist, id)
    IN  IF p = Null THEN Null ELSE With(p, [tracks |-> WithAlbum(ById(OfPlaylist(id)))])

GetAllPlaylists == [i \in DOMAIN Playlist |-> With(Playlist[i], [tracks |-> <<>>])]

-----------------------------------------------------------------------------
(* Administration's queries *)

\* The support rep is in the answer to the by-id query only.
GetCustomerById(id) ==
    LET c   == Find(Customer, id)
        rep == Column(c, LAMBDA r : Find(Employee, r.rep))
    IN  IF c = Null THEN Null
        ELSE With([c EXCEPT !.company = Null], [repName |-> FullName(rep), supportRep |-> rep])

CustomerApi(c) == With([c EXCEPT !.rep = Null], [repName |-> Null, supportRep |-> Null])

GetAllCustomers == [i \in DOMAIN Customer |-> CustomerApi(Customer[i])]

GetCustomersBySupportRepId(id) ==
    LET mine == Where(Customer, {c \in Range(Customer) : c.rep = id})
    IN  [i \in DOMAIN mine |-> CustomerApi(mine[i])]

\* Not cached.
GetCustomerPurchases(id) ==
    IF id \notin Ids(Customer) THEN Null
    ELSE [customer |-> id, spent |-> PurchasesOf(id).spent, count |-> PurchasesOf(id).count,
          last |-> PurchasesOf(id).last]

EmployeeApi(e) == With(e, [manager |-> Null])

GetEmployeeById(id) ==
    LET e == Find(Employee, id)
    IN  IF e = Null THEN Null ELSE With(e, [manager |-> FullName(Find(Employee, e.reportsTo))])

GetAllEmployees == [i \in DOMAIN Employee |-> EmployeeApi(Employee[i])]

GetDirectReports(id) ==
    LET theirs == Where(Employee, {e \in Range(Employee) : e.reportsTo = id})
    IN  [i \in DOMAIN theirs |-> EmployeeApi(theirs[i])]

\* The employee some row names as the manager of $1.
GetReportsTo(id) ==
    LET managers == Where(Employee, {e \in Range(Employee) :
                        \E report \in Range(Employee) : report.id = id /\ report.reportsTo = e.id})
    IN  IF managers = <<>> THEN Null ELSE EmployeeApi(Head(managers))

GetGenreById(id) == Find(genre, id)
GetAllGenres == genre

GetMediaTypeById(id) == Find(MediaType, id)
GetAllMediaTypes == MediaType

-----------------------------------------------------------------------------
(* Orders' queries *)

InvoiceApi(i) == With(i, [lines |-> <<>>])

GetInvoiceLineById(id) == Find(InvoiceLine, id)
GetAllInvoiceLines == InvoiceLine
GetInvoiceLinesByInvoiceId(id) == Where(InvoiceLine, {l \in Range(InvoiceLine) : l.invoice = id})
GetInvoiceLinesByTrackId(id)   == Where(InvoiceLine, {l \in Range(InvoiceLine) : l.track = id})

GetInvoiceById(id) ==
    LET i == Find(invoice, id)
    IN  IF i = Null THEN Null ELSE With(i, [lines |-> ById(GetInvoiceLinesByInvoiceId(id))])

GetAllInvoices == [i \in DOMAIN invoice |-> InvoiceApi(invoice[i])]

OfCustomer(invoices, id) == Where(invoices, {i \in Range(invoices) : i.customer = id})

GetInvoicesByCustomerId(id) ==
    LET mine == OfCustomer(invoice, id)
    IN  [i \in DOMAIN mine |-> InvoiceApi(mine[i])]

-----------------------------------------------------------------------------
(* Reporting's views, read across the modules and never cached *)

\* Counts the rows, not the sales.
Times_Rows(t) == IF t.id \in DOMAIN sales THEN 1 ELSE 0

Times(t) == IF t.id \in DOMAIN sales THEN sales[t.id].times ELSE 0

\* sales_by_genre
SalesByGenre ==
    {LET mine == {t \in Range(Track) : t.genre = g.id}
     IN  [genre |-> g.id, name |-> g.name, tracks |-> Cardinality(mine),
          units |-> Total(mine, Times)] : g \in Range(genre)}

\* The first join is an inner one: a line's track and customer may be missing.
InvoiceLinesWithNames(id) ==
    LET i    == Find(invoice, id)
        mine == IF i = Null THEN <<>> ELSE ById(GetInvoiceLinesByInvoiceId(id))
    IN  [n \in DOMAIN mine |->
            With(mine[n], [trackName    |-> Column(Find(Track, mine[n].track), LAMBDA t : t.name),
                           customer     |-> i.customer,
                           customerName |-> FullName(Find(Customer, i.customer))])]

-----------------------------------------------------------------------------
(* The cache *)

\* What a key's factory loads.
Query(k) ==
    CASE k.entity = "album" /\ k.kind = "by-id"         -> GetAlbumById(k.id)
      [] k.entity = "album" /\ k.kind = "all"           -> GetAllAlbums
      [] k.entity = "album" /\ k.kind = "by-artist"     -> GetAlbumsByArtistId(k.id)
      [] k.entity = "artist" /\ k.kind = "by-id"        -> GetArtistById(k.id)
      [] k.entity = "artist" /\ k.kind = "all"          -> GetAllArtists
      [] k.entity = "track" /\ k.kind = "by-id"         -> GetTrackById(k.id)
      [] k.entity = "track" /\ k.kind = "all"           -> GetAllTracks
      [] k.entity = "track" /\ k.kind = "by-artist"     -> GetTracksByArtistId(k.id)
      [] k.entity = "track" /\ k.kind = "by-playlist"   -> GetTracksByPlaylistId(k.id)
      [] k.entity = "track" /\ k.kind = "by-album"      -> GetTracksByAlbumId(k.id)
      [] k.entity = "track" /\ k.kind = "by-genre"      -> GetTracksByGenreId(k.id)
      [] k.entity = "track" /\ k.kind = "by-mediatype"  -> GetTracksByMediaTypeId(k.id)
      [] k.entity = "playlist" /\ k.kind = "by-id"      -> GetPlaylistById(k.id)
      [] k.entity = "playlist" /\ k.kind = "all"        -> GetAllPlaylists
      [] k.entity = "customer" /\ k.kind = "by-id"      -> GetCustomerById(k.id)
      [] k.entity = "customer" /\ k.kind = "all"        -> GetAllCustomers
      [] k.entity = "customer" /\ k.kind = "by-supportrep" -> GetCustomersBySupportRepId(k.id)
      [] k.entity = "employee" /\ k.kind = "by-id"      -> GetEmployeeById(k.id)
      [] k.entity = "employee" /\ k.kind = "all"        -> GetAllEmployees
      [] k.entity = "employee" /\ k.kind = "direct-reports" -> GetDirectReports(k.id)
      [] k.entity = "employee" /\ k.kind = "reports-to" -> GetReportsTo(k.id)
      [] k.entity = "genre" /\ k.kind = "by-id"         -> GetGenreById(k.id)
      [] k.entity = "genre" /\ k.kind = "all"           -> GetAllGenres
      [] k.entity = "mediatype" /\ k.kind = "by-id"     -> GetMediaTypeById(k.id)
      [] k.entity = "mediatype" /\ k.kind = "all"       -> GetAllMediaTypes
      [] k.entity = "invoice" /\ k.kind = "by-id"       -> GetInvoiceById(k.id)
      [] k.entity = "invoice" /\ k.kind = "all"         -> GetAllInvoices
      [] k.entity = "invoice" /\ k.kind = "by-customer" -> GetInvoicesByCustomerId(k.id)
      [] k.entity = "invoiceline" /\ k.kind = "by-id"   -> GetInvoiceLineById(k.id)
      [] k.entity = "invoiceline" /\ k.kind = "all"     -> GetAllInvoiceLines
      [] k.entity = "invoiceline" /\ k.kind = "by-invoice" -> GetInvoiceLinesByInvoiceId(k.id)
      [] k.entity = "invoiceline" /\ k.kind = "by-track" -> GetInvoiceLinesByTrackId(k.id)

Without(keys) == [k \in DOMAIN cache \ keys |-> cache[k]]

\* Only the row's own entry.
Invalidated_OneEntry(entity, id) == {[entity |-> entity, kind |-> "by-id", id |-> id]}

\* remove_by_tag(tags[0]), which every entry of the entity carries, and remove.
Invalidated(entity, id) ==
    {k \in ReadKeys : k.entity = entity} \cup {[entity |-> entity, kind |-> "by-id", id |-> id]}

\* A list is kept though empty; a row that is not there is asked for again.
Fetch(k) ==
    /\ k \notin DOMAIN cache /\ Cardinality(DOMAIN cache) < MaxCached
    /\ Query(k) # Null
    /\ cache' = [x \in DOMAIN cache \cup {k} |-> IF x = k THEN Query(k) ELSE cache[x]]
    /\ UNCHANGED <<tableVars, writes>>

\* An entry runs out, or makes room.
Lapse(k) ==
    /\ k \in DOMAIN cache
    /\ cache' = Without({k})
    /\ UNCHANGED <<tableVars, writes>>

-----------------------------------------------------------------------------
(* Genres *)

\* The request's validator, and the service's own behind it.
ValidRequest(name) == name # Null /\ name # "" /\ name # TooLong
ValidGenre(name)   == name # Null /\ name # TooLong

CreateGenre(name) ==
    /\ ValidRequest(name) /\ ValidGenre(name)
    /\ lastGenre < MaxGenres
    /\ lastGenre' = lastGenre + 1
    /\ \E place \in 1..(Len(genre) + 1) :
          genre' = InsertAt(genre, place, [id |-> lastGenre', name |-> name])
    /\ cache' = Without(Invalidated("genre", lastGenre'))
    /\ UNCHANGED <<invoice, pending, sales, summary, writes>>

\* An UPDATE of row n: it is written anew, at place.
Rewritten(table, n, place, row) == InsertAt(RemoveAt(table, n), place, row)

\* No row: nothing is invalidated, and the answer is 404.
UpdateGenre(id, name) ==
    /\ ValidRequest(name) /\ ValidGenre(name)
    /\ writes < MaxWrites
    /\ writes' = writes + 1
    /\ \E n, place \in DOMAIN genre :
          /\ genre[n].id = id
          /\ genre' = Rewritten(genre, n, place, [id |-> id, name |-> name])
    /\ cache' = Without(Invalidated("genre", id))
    /\ UNCHANGED <<lastGenre, invoice, pending, sales, summary>>

DeleteGenre(id) ==
    /\ \E n \in DOMAIN genre : genre[n].id = id /\ genre' = RemoveAt(genre, n)
    /\ cache' = Without(Invalidated("genre", id))
    /\ UNCHANGED <<lastGenre, invoice, pending, sales, summary, writes>>

-----------------------------------------------------------------------------
(* Invoices *)

\* A line without a quantity is sold as none.
Quantity(l) == IF l.quantity = Null THEN 0 ELSE l.quantity

LinesOf(id) == {l \in Range(InvoiceLine) : l.invoice = id}

\* What lines sell of track t.
Units(lines, t) == Total({l \in lines : l.track = t}, Quantity)

\* The event: the lines that name a track, with their quantities. No two lines
\* are alike, and their order is in no sum.
EventOf(i) ==
    [invoice |-> i.id, customer |-> i.customer, date |-> i.date, total |-> i.total,
     lines |-> {l \in LinesOf(i.id) : l.track # Null}]

FinalizeInvoice(id) ==
    /\ \E n, place \in DOMAIN invoice :
          /\ invoice[n].id = id /\ invoice[n].status # "Finalized"
          /\ invoice' = Rewritten(invoice, n, place, [invoice[n] EXCEPT !.status = "Finalized"])
          /\ pending' = pending \cup {[event |-> EventOf(invoice[n]), handler |-> h]
                                          : h \in {"catalog", "administration"}}
    /\ cache' = Without(Invalidated("invoice", id))
    /\ UNCHANGED <<genre, lastGenre, sales, summary, writes>>

\* The second invoice's total replaces the first's.
Spent_Replaced(old, e) == [spent |-> e.total, count |-> old.count + 1, last |-> Greatest(old.last, e.date)]

\* The upsert of the customer's row.
Spent(old, e) == [spent |-> old.spent + e.total, count |-> old.count + 1,
                  last |-> Greatest(old.last, e.date)]

\* Administration's handler: an event without a customer is ignored.
HandlePurchase(e) ==
    summary' = IF e.customer = Null THEN summary
               ELSE [c \in DOMAIN summary \cup {e.customer} |->
                        IF c = e.customer THEN Spent(PurchasesOf(c), e) ELSE summary[c]]

\* Catalog's handler: one upsert for every track of the event.
HandleSale(e) ==
    LET sold == {l.track : l \in e.lines}
    IN  sales' = [t \in DOMAIN sales \cup sold |->
                     IF t \in sold THEN [times |-> SalesOf(t).times + Units(e.lines, t),
                                         last  |-> Greatest(SalesOf(t).last, e.date)]
                     ELSE sales[t]]

Handle(p) ==
    /\ p \in pending
    /\ pending' = pending \ {p}
    /\ \/ p.handler = "catalog" /\ HandleSale(p.event) /\ UNCHANGED summary
       \/ p.handler = "administration" /\ HandlePurchase(p.event) /\ UNCHANGED sales
    /\ UNCHANGED <<genre, lastGenre, invoice, cache, writes>>

-----------------------------------------------------------------------------

RecordsInit ==
    /\ genre = SeededGenre /\ lastGenre = Len(SeededGenre)
    /\ invoice = SeededInvoice
    /\ pending = {}
    /\ sales = <<>> /\ summary = <<>> /\ cache = <<>>
    /\ writes = 0

RecordsNext ==
    \/ \E k \in ReadKeys : Fetch(k) \/ Lapse(k)
    \/ \E name \in Names : CreateGenre(name) \/ \E id \in 1..MaxGenres : UpdateGenre(id, name)
    \/ \E id \in 1..MaxGenres : DeleteGenre(id)
    \/ \E id \in Ids(SeededInvoice) : FinalizeInvoice(id)
    \/ \E p \in pending : Handle(p)

RecordsSpec == RecordsInit /\ [][RecordsNext]_recordsVars

-----------------------------------------------------------------------------
(* Properties *)

\* Whatever is cached is what its query would answer now: every write drops
\* every entry, of a row, a list or a composed answer, it makes untrue, and
\* nothing that changes without an invalidation (the counters the handlers add
\* up) is part of a cached answer.
CachedReadsAreCurrent == \A k \in DOMAIN cache : cache[k] = Query(k)

\* What the events a handler has still to apply add up to.
Outstanding(handler, Of(_)) ==
    Total({p \in pending : p.handler = handler}, LAMBDA p : Of(p.event))

\* The invoices the program finalized.
Finalized == {i \in Range(invoice) : i.status = "Finalized"
                                     /\ Find(SeededInvoice, i.id).status # "Finalized"}

Paid(c, e) == IF e.customer = c THEN e.total ELSE 0

\* Nothing a customer paid for is counted twice or lost between the modules:
\* what GET purchases answers, and the events on their way, are the customer's
\* invoices finalized by the program; and so a track's sales.
CountersAddUp ==
    /\ \A c \in Ids(Customer) :
          GetCustomerPurchases(c).spent + Outstanding("administration", LAMBDA e : Paid(c, e))
            = Total(Finalized, LAMBDA i : Paid(c, i))
    /\ \A t \in Ids(Track) :
          GetTrackSales(t).times + Outstanding("catalog", LAMBDA e : Units(e.lines, t))
            = Total(Finalized, LAMBDA i : Units(LinesOf(i.id), t))

\* The answers of different modules agree: a genre's units in the report are
\* those of the tracks Catalog lists under it, an invoice's lines in the report
\* are the ones Orders answers, and an artist's albums nest exactly the tracks
\* listed under the artist.
AnswersAgree ==
    /\ \A row \in SalesByGenre :
          row.units = Total(Range(GetTracksByGenreId(row.genre)), LAMBDA t : GetTrackSales(t.id).times)
    /\ \A id \in Ids(invoice) :
          {l.id : l \in Range(InvoiceLinesWithNames(id))} = {l.id : l \in Range(GetInvoiceById(id).lines)}
    /\ \A id \in Ids(Artist) :
          UNION {{t.id : t \in Range(a.tracks)} : a \in Range(GetArtistById(id).albums)}
            = {t.id : t \in Range(GetTracksByArtistId(id))}
=============================================================================
