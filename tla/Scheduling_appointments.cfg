SPECIFICATION Spec
CONSTANTS
    t1 = t1  t2 = t2  a1 = a1  a2 = a2  b1 = b1  b2 = b2
    p1 = p1  p2 = p2  cut = cut  color = color
    Tx = {t1, t2}
    AppointmentIds = {a1, a2}
    BlockIds = {}
    Professionals = {p1, p2}
    Services = {cut, color}
    Duration <- MCDuration
    Bookable <- MixedBookable
    Blockable <- NoBlockable
    ConfirmationRequired = FALSE
    NoRow = NoRow  NoTx = NoTx  NoId = NoId
SYMMETRY IdSymmetry
INVARIANTS NoDoubleBooking WaitsForLater
PROPERTIES KeepsCalendar
