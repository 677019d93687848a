SPECIFICATION StoreSpec
CONSTANTS
    all = all
    byId = byId
    r1 = r1
    r2 = r2
    r3 = r3
    w1 = w1
    w2 = w2
    Keys = {all, byId}
    Readers = {r1, r2, r3}
    KeyOf <- ThreeLists
    Writers = {w1, w2}
    IdKey = byId
    Impatient = {r1, r2, r3}
    Nobody = Nobody
    Artist <- Artists
    Album <- Albums
    Track <- Tracks
    Playlist <- Lists
    PlaylistTrack <- Listed
    Customer <- Customers
    Employee <- Employees
    MediaType <- MediaTypes
    SeededGenre <- Genres
    InvoiceLine <- InvoiceLines
    SeededInvoice <- Invoices
    Null = Null
    ReadKeys <- Reads
    TooLong = TooLong
    Names = {"n", "m", ""}
    MaxGenres = 1
    MaxWrites = 1
    MaxCached = 1
CHECK_DEADLOCK FALSE
SYMMETRY ListSymmetry
INVARIANTS
    SingleFlight
    IndexIsTidy
    CachedReadsAreCurrent
    CountersAddUp
    AnswersAgree
PROPERTY ReadsFollowInvalidation
