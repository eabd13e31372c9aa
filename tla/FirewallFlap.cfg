\* A new VM is attached while another Node serves.
CONSTANTS
    Controllers = {"a", "b"}
    Owners = {"icmp", "shard", "s1", "s2"}
    VMs = {1, 2}
    Ids = {1, 2, 3, 4, 5, 6, 7}
    Plans <- SurgePlans
SPECIFICATION Spec
PROPERTIES
    ProtectedStayPublished
CHECK_DEADLOCK FALSE
