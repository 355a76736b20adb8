CONSTANTS
    Nobody = Nobody
    ApiUsers = {u1, u2}
    Guests = {g1, g2}
    Chats = {c1, c2}
    Phones = {p}
    Invites = {i1, i2}
    AccountRows = {r1, r2}
    Credentials = {k1, k2}
    Contents = {content}
    MaxDeliveries = 2
    MaxShown = 2
SPECIFICATION ChannelsSpec
INVARIANTS ChannelTypes NothingDuplicated NobodyWaitsInVain
 
SYMMETRY Symmetry
CHECK_DEADLOCK FALSE
