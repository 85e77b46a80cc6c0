CONSTANTS
    m1 = m1  m2 = m2  m3 = m3  m4 = m4
    Bodies = {m1, m2, m3, m4}
    MaxMessages = 10
    BadHandle = BadHandle
    Unparsable = {m4}
SPECIFICATION LiveSpec
PROPERTIES DeliveredEventuallyDeleted
